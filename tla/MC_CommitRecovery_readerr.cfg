\* No file rots; one read made by recovery may fail transiently.
CONSTANTS
    MaxGen = 2
    MaxSegs = 2
    MaxFaults = 0
    MaxReadErrs = 1
    ManifestRetention = 2
SPECIFICATION Spec
INVARIANT AckedSurvivesReadErrors
