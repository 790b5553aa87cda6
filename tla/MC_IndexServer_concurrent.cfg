\* Two concurrent requests, one document, two generations.
CONSTANTS
    c1 = c1
    c2 = c2
    d1 = d1
    d2 = d2
    Clients <- MCClients2
    Docs <- MCDocs1
    MaxWriters = 2
    MaxSegs = 3
    MaxGen = 2
SPECIFICATION Spec
INVARIANT ActiveIntact
