\* Two concurrent requests: a commit racing another commit or its Abort.
CONSTANTS
    c1 = c1
    c2 = c2
    d1 = d1
    d2 = d2
    Clients <- MCClients2
    Docs <- MCDocs
    MaxWriters = 2
    MaxSegs = 3
    MaxGen = 2
SPECIFICATION Spec
INVARIANT AckedDocsDurable
