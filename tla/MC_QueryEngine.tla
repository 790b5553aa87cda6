--------------------------- MODULE MC_QueryEngine ---------------------------
(***************************************************************************)
(* The query-side algorithms checked in one model: each behaviour picks   *)
(* one of them (task) and runs one call of it to completion from one of   *)
(* the enumerated inputs, the others staying at their initial state.      *)
(***************************************************************************)
EXTENDS Integers, TLC, MC_WriterInputs

CONSTANTS NumChildren, DocIds, MaxCalls, DisjChildren, K, Docs, Scores, MaxCollect,
          Shards, MaxHits, TopK,
          MaxWildcardPatternLength, MaxDFAStates, TextLen,
          MaxTargetLen, MaxPrefixLen, LimitArgs, CountBound, MaxChecks,
          MaxText, MaxSchemaFields, Callers, ExtIds, MaxDocsFed,
          Bodies, Items, MaxRots

VARIABLES task,
          docs, order, pos, out, done,          \* PostingsIterators
          tH, minScore, stream, results, tPhase, \* TopKCollector
          arrived, cPhase, queue, cH, result,   \* Coordinator
          q, rounds,                            \* QueryRewrite
          pattern, trans, accepting, setToID,   \* WildcardAutomaton
          wQueue, cur, bi, wPhase,
          levTarget, levDist, levPhase,         \* LevenshteinAutomaton
          levState, levInput,
          dDocs, dPos, dHeap, dCur, dOut, dDone, \* DisjunctionIterator
          prefix, preState, preInput,           \* PrefixAutomaton
          statesVisited, termsMatched, maxStates, \* ExecutionContext
          maxTerms, checkCounter, pastDeadline, timedOut, limitExceeded,
          err, nilsLate,
          analyzers, text, lastName, lastTokens, \* Analysis
          lastErr,
          schema, verdict,                      \* Schema
          hcPhase, hcPending, hcResults, health, \* CoordinatorHealth
          lastMerged,
          buf, active, wErr, accepted, fed, pending, \* IndexWriter
          kind, obj, file, written, loaded, damaged, rots \* ChecksumCodec

P == INSTANCE PostingsIterators
T == INSTANCE TopKCollector WITH h <- tH, phase <- tPhase
C == INSTANCE Coordinator WITH h <- cH, phase <- cPhase
Q == INSTANCE QueryRewrite

(* Input byte classes: bytes no literal names, then the literals.         *)
MCByteClasses == <<"other", "a", "b">>
W == INSTANCE WildcardAutomaton
        WITH ByteClasses <- MCByteClasses, queue <- wQueue, phase <- wPhase

(* Bytes of fuzzy targets and inputs.                                      *)
MCAlphabet == {"a", "b", "c"}
L == INSTANCE LevenshteinAutomaton WITH Alphabet <- MCAlphabet

D == INSTANCE DisjunctionIterator
Pre == INSTANCE PrefixAutomaton WITH Alphabet <- MCAlphabet
X == INSTANCE ExecutionContext
An == INSTANCE Analysis

(* Field names around the 255-byte limit, and a reserved one.             *)
MCFieldNames == {"_id", "name255", "name256"}
MCNameLength == ("_id" :> 3) @@ ("name255" :> 255) @@ ("name256" :> 256)
H == INSTANCE CoordinatorHealth WITH HShards <- Shards
Sc == INSTANCE Schema WITH FieldNames <- MCFieldNames, NameLength <- MCNameLength
Wr == INSTANCE IndexWriter
        WITH SchemaFields <- WrSchemaFields, FieldValues <- WrFieldValues, DefaultAnalyzer <- ""
Cd == INSTANCE ChecksumCodec

pVars == <<docs, order, pos, out, done>>
tVars == <<tH, minScore, stream, results, tPhase>>
cVars == <<arrived, cPhase, queue, cH, result>>
qVars == <<q, rounds>>
wVars == <<pattern, trans, accepting, setToID, wQueue, cur, bi, wPhase>>
lVars == <<levTarget, levDist, levPhase, levState, levInput>>
dVars == <<dDocs, dPos, dHeap, dCur, dOut, dDone>>
preVars == <<prefix, preState, preInput>>
xVars == <<statesVisited, termsMatched, maxStates, maxTerms, checkCounter,
           pastDeadline, timedOut, limitExceeded, err, nilsLate>>
anVars == <<analyzers, text, lastName, lastTokens, lastErr>>
schVars == <<schema, verdict>>
hcVars == <<hcPhase, hcPending, hcResults, health, lastMerged>>
wrVars == <<buf, active, wErr, accepted, fed, pending>>
cdVars == <<kind, obj, file, written, loaded, damaged, rots>>
vars == <<task, pVars, tVars, cVars, qVars, wVars, lVars, dVars, preVars, xVars,
          anVars, schVars, hcVars, wrVars, cdVars>>

Tasks == {"conjunction", "topk", "coordinator", "rewrite", "wildcard", "levenshtein",
          "disjunction", "prefix", "context",
          "analysis", "schema", "health", "writer", "codec"}

Init ==
    /\ task \in Tasks
    /\ IF task = "conjunction" THEN P!Init
       ELSE docs = [c \in P!Children |-> <<>>] /\ order = [c \in P!Children |-> c]
            /\ pos = [c \in P!Children |-> -1] /\ out = <<>> /\ done = TRUE
    /\ T!Init /\ C!Init /\ Wr!Init
    /\ IF task = "rewrite" THEN Q!Init ELSE q = Q!Leaf("term") /\ rounds = 0
    /\ IF task = "wildcard" THEN W!Init
       ELSE /\ pattern = <<>> /\ trans = <<>> /\ accepting = <<>>
            /\ setToID = <<>> /\ wQueue = <<>> /\ cur = W!NoSet /\ bi = 1
            /\ wPhase = "init"
    /\ IF task = "levenshtein" THEN L!Init
       ELSE /\ levTarget = <<>> /\ levDist = 0 /\ levPhase = "init"
            /\ levState = L!DeadState /\ levInput = <<>>
    /\ IF task = "disjunction" THEN D!Init
       ELSE /\ dDocs = [c \in DisjChildren |-> <<>>] /\ dPos = [c \in DisjChildren |-> 0]
            /\ dHeap = {} /\ dCur = 0 /\ dOut = <<>> /\ dDone = TRUE
    /\ IF task = "prefix" THEN Pre!Init
       ELSE prefix = <<>> /\ preState = Pre!Start /\ preInput = <<>>
    /\ IF task = "context" THEN X!Init
       ELSE /\ statesVisited = 0 /\ termsMatched = 0 /\ maxStates = 0 /\ maxTerms = 0
            /\ checkCounter = 0 /\ pastDeadline = FALSE /\ timedOut = FALSE
            /\ limitExceeded = FALSE /\ err = "nil" /\ nilsLate = 0
    /\ IF task = "analysis" THEN An!Init
       ELSE /\ analyzers = [k \in An!Kinds |-> k] /\ text = <<>> /\ lastName = "none"
            /\ lastTokens = <<>> /\ lastErr = "none"
    /\ IF task = "schema" THEN Sc!Init
       ELSE schema = [fields |-> <<>>, padding |-> 0, defaultAnalyzer |-> ""]
            /\ verdict = "unchecked"
    /\ IF task = "health" THEN H!Init
       ELSE /\ hcPhase = [c \in Callers |-> "idle"] /\ hcPending = [c \in Callers |-> {}]
            /\ hcResults = [c \in Callers |-> [s \in {} |-> H!NoStatus]]
            /\ health = [s \in Shards |-> H!NoStatus] /\ lastMerged = 0
    /\ IF task = "codec" THEN Cd!Init
       ELSE /\ kind = "manifest"
            /\ obj = [body |-> CHOOSE b \in Bodies : TRUE, list |-> <<>>, checksum |-> Cd!Blank]
            /\ file = <<>> /\ written = obj /\ loaded = Cd!NoLoad
            /\ damaged = FALSE /\ rots = 0

Next ==
    \/ task = "conjunction" /\ P!Next /\ UNCHANGED <<task, dVars, lVars, tVars, cVars, qVars, wVars, preVars, xVars, anVars, schVars, hcVars, wrVars, cdVars>>
    \/ task = "topk" /\ T!Next /\ UNCHANGED <<task, dVars, lVars, pVars, cVars, qVars, wVars, preVars, xVars, anVars, schVars, hcVars, wrVars, cdVars>>
    \/ task = "coordinator" /\ C!Next /\ UNCHANGED <<task, dVars, lVars, pVars, tVars, qVars, wVars, preVars, xVars, anVars, schVars, hcVars, wrVars, cdVars>>
    \/ task = "rewrite" /\ Q!Next /\ UNCHANGED <<task, dVars, lVars, pVars, tVars, cVars, wVars, preVars, xVars, anVars, schVars, hcVars, wrVars, cdVars>>
    \/ task = "wildcard" /\ W!Next /\ UNCHANGED <<task, dVars, lVars, pVars, tVars, cVars, qVars, preVars, xVars, anVars, schVars, hcVars, wrVars, cdVars>>
    \/ task = "levenshtein" /\ L!Next /\ UNCHANGED <<task, dVars, pVars, tVars, cVars, qVars, wVars, preVars, xVars, anVars, schVars, hcVars, wrVars, cdVars>>
    \/ task = "disjunction" /\ D!Next /\ UNCHANGED <<task, pVars, tVars, cVars, qVars, wVars, lVars, preVars, xVars, anVars, schVars, hcVars, wrVars, cdVars>>
    \/ task = "prefix" /\ Pre!Next /\ UNCHANGED <<task, dVars, pVars, tVars, cVars, qVars, wVars, lVars, xVars, anVars, schVars, hcVars, wrVars, cdVars>>
    \/ task = "analysis" /\ An!Next /\ UNCHANGED <<task, dVars, pVars, tVars, cVars, qVars, wVars, lVars, preVars, xVars, schVars, hcVars, wrVars, cdVars>>
    \/ task = "schema" /\ Sc!Next /\ UNCHANGED <<task, dVars, pVars, tVars, cVars, qVars, wVars, lVars, preVars, xVars, anVars, hcVars, wrVars, cdVars>>
    \/ task = "health" /\ H!Next /\ UNCHANGED <<task, dVars, pVars, tVars, cVars, qVars, wVars, lVars, preVars, xVars, anVars, schVars, wrVars, cdVars>>
    \/ task = "writer" /\ Wr!Next /\ UNCHANGED <<task, dVars, pVars, tVars, cVars, qVars, wVars, lVars, preVars, xVars, anVars, schVars, hcVars, cdVars>>
    \/ task = "codec" /\ Cd!Next /\ UNCHANGED <<task, dVars, pVars, tVars, cVars, qVars, wVars, lVars, preVars, xVars, anVars, schVars, hcVars, wrVars>>
    \/ task = "context" /\ X!Next /\ UNCHANGED <<task, dVars, pVars, tVars, cVars, qVars, wVars, lVars, preVars, anVars, schVars, hcVars, wrVars, cdVars>>

Spec == Init /\ [][Next]_vars
-----------------------------------------------------------------------------
(* The properties of the composed modules, each stated in its module: the *)
(* AND iterator returns the intersection; the top-K collector and the     *)
(* coordinator's mergeTopK keep the k best; Search's status matches the   *)
(* shards' outcomes; Rewrite stops only in normal form; the wildcard DFA  *)
(* accepts what the pattern matches and keeps its state limit; the fuzzy  *)
(* automaton accepts only inputs within its edit distance; the OR         *)
(* iterator returns the union of its children; the prefix automaton      *)
(* accepts exactly the strings with its prefix; a query past its deadline *)
(* times out within one amortisation interval of CheckLimits calls; the   *)
(* analyzers return the text's maximal runs; Validate accepts exactly the *)
(* schemas that meet the schema invariants; the coordinator's health     *)
(* cache holds what the last CheckHealth to finish saw; the Writer's       *)
(* buffer holds every accepted document as the postings contract says,    *)
(* and its counters agree with its contents; a manifest, schema or       *)
(* segment-info file loads as written, or fails when damaged.             *)
ConjunctionIsIntersection == P!ConjunctionIsIntersection
ResultsAreTopK == T!ResultsAreTopK
MergedIsTopK == C!MergedIsTopK
StatusMatchesShards == C!StatusMatchesShards
RewriteReachesNormalForm == Q!RewriteReachesNormalForm
AutomatonMatchesGlob == W!AutomatonMatchesGlob
StateLimitRespected == W!StateLimitRespected
LevenshteinSound == L!LevenshteinSound
DisjunctionCoversUnion == D!DisjunctionCoversUnion
PrefixAutomatonExact == Pre!PrefixAutomatonExact
TokensAreRuns == An!TokensAreRuns
ValidateIsSpec == Sc!ValidateIsSpec
CacheIsLastPoll == H!CacheIsLastPoll
PostingsMatchDocuments == Wr!PostingsMatchDocuments
BufferCountsAgree == Wr!BufferCountsAgree
IntactFileLoads == Cd!IntactFileLoads
LoadReturnsWritten == Cd!LoadReturnsWritten

(* Spec 4.F.2: a Next never returns a doc already produced.               *)
NextStrictlyAscends == D!NextStrictlyAscends

(* Spec 4.F.1's demand that every string within maxDist edits survive    *)
(* CanMatch pruning; Step's greedy bestState breaks it (README, finding  *)
(* 8), so no run lists it.                                                *)
PruningKeepsMatches == L!PruningKeepsMatches
=============================================================================
