\* Each algorithm runs one call to completion, so behaviours end:
\* deadlock is the normal end of a call, not checked.
CONSTANTS
    NumChildren = 3
    DocIds = {1, 2, 3}
    MaxCalls = 4
    DisjChildren = {1, 2, 3}
    K = 2
    Docs = {1, 2}
    Scores = {1, 2, 3}
    MaxCollect = 4
    Shards = {1, 2, 3}
    MaxHits = 2
    TopK = 2
    MaxWildcardPatternLength = 4
    MaxDFAStates = 6
    TextLen = 4
    MaxTargetLen = 3
    MaxPrefixLen = 3
    LimitArgs = {0, 1}
    CountBound = 1
    MaxChecks = 260
    MaxText = 4
    MaxSchemaFields = 2
    Callers = {1, 2}
    ExtIds = {"d1", "d2"}
    MaxDocsFed = 2
    Bodies = {"b1", "b2"}
    Items = {1, 2}
    MaxRots = 2
SPECIFICATION Spec
INVARIANT ConjunctionIsIntersection
INVARIANT ResultsAreTopK
INVARIANT MergedIsTopK
INVARIANT StatusMatchesShards
INVARIANT RewriteReachesNormalForm
INVARIANT AutomatonMatchesGlob
INVARIANT StateLimitRespected
INVARIANT LevenshteinSound
INVARIANT DisjunctionCoversUnion
INVARIANT PrefixAutomatonExact
 
INVARIANT TokensAreRuns
INVARIANT ValidateIsSpec
INVARIANT CacheIsLastPoll
INVARIANT PostingsMatchDocuments
INVARIANT BufferCountsAgree
INVARIANT IntactFileLoads
INVARIANT LoadReturnsWritten
CHECK_DEADLOCK FALSE
