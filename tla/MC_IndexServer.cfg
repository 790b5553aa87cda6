\* One request at a time: the serial use the handlers are written for.
CONSTANTS
    c1 = c1
    c2 = c2
    d1 = d1
    d2 = d2
    Clients <- MCClients1
    Docs <- MCDocs
    MaxWriters = 2
    MaxSegs = 3
    MaxGen = 3
SPECIFICATION Spec
INVARIANT TypeOK
INVARIANT AckedDocsDurable
INVARIANT MemoryMatchesDisk
