\* Enough generations for step 8 to prune below a step-4 fallback.
CONSTANTS
    MaxGen = 4
    MaxSegs = 4
    MaxFaults = 1
    MaxReadErrs = 0
    ManifestRetention = 2
SPECIFICATION Spec
INVARIANT RecoveredManifestKept
