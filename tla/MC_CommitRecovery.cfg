\* Commits, I/O errors, crashes and recoveries; one manifest or segment
\* file may rot while the process is down, and one read made by recovery
\* may fail.  The durability invariants speak of the behaviours with
\* neither, ServedSegmentsIntact of all of them.
CONSTANTS
    MaxGen = 3
    MaxSegs = 4
    MaxFaults = 1
    MaxReadErrs = 1
    ManifestRetention = 2
SPECIFICATION Spec
INVARIANT TypeOK
INVARIANT CurrentIsLoadable
INVARIANT AckedDurable
INVARIANT ServedSegmentsIntact
