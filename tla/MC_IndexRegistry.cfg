\* A crash part-way through DeleteIndex, CreateIndex of the same name and a
\* restart: does the re-created index open at the deleted one's generation?
CONSTANTS
    Names <- MCNames
    MaxCreates = 2
    MaxGen = 1
SPECIFICATION Spec
INVARIANT NoResurrection
