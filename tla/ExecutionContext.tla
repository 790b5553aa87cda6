--------------------------- MODULE ExecutionContext ---------------------------
(***************************************************************************)
(* engine.ExecutionContext (src/internal/engine/context.go): the counters *)
(* a query's hot loop raises, CheckLimits called from that loop until it  *)
(* returns an error, and the wall clock passing the Deadline at some      *)
(* moment of the environment's choosing (time.Now().After(Deadline)).     *)
(***************************************************************************)
EXTENDS Integers

CONSTANTS LimitArgs,   \* maxStates / maxTerms arguments tried
          CountBound,  \* how far the loop raises each counter at most
          MaxChecks    \* CheckLimits calls the loop makes at most

VARIABLES statesVisited, termsMatched,  \* StatesVisited, TermsMatched
          maxStates, maxTerms,          \* MaxStatesVisited, MaxTermsMatched
          checkCounter,                 \* checkCounter
          pastDeadline,                 \* the clock is past Deadline
          timedOut, limitExceeded,      \* TimedOut, LimitExceeded
          err,                          \* the last CheckLimits result
          nilsLate                      \* nil results while past Deadline

ctxVars == <<statesVisited, termsMatched, maxStates, maxTerms, checkCounter,
             pastDeadline, timedOut, limitExceeded, err, nilsLate>>

(* The constant interval NewExecutionContext sets.                        *)
CheckInterval == 128

Errors == {"nil", "timeout", "states", "terms"}

TypeOK ==
    /\ statesVisited \in 0..CountBound /\ termsMatched \in 0..CountBound
    /\ checkCounter \in 0..MaxChecks
    /\ err \in Errors /\ nilsLate \in Nat

(* NewExecutionContext: a limit <= 0 means the default.                   *)
DefaultLimit(x, d) == IF x <= 0 THEN d ELSE x

Init ==
    /\ \E s, t \in LimitArgs : maxStates = DefaultLimit(s, 10000)
                               /\ maxTerms = DefaultLimit(t, 1000)
    /\ statesVisited = 0 /\ termsMatched = 0 /\ checkCounter = 0
    /\ pastDeadline = FALSE /\ timedOut = FALSE /\ limitExceeded = FALSE
    /\ err = "nil" /\ nilsLate = 0

Running == err = "nil"

(* The loop visits an automaton state or matches a term.                  *)
VisitState ==
    /\ Running /\ statesVisited < CountBound
    /\ statesVisited' = statesVisited + 1
    /\ UNCHANGED <<termsMatched, maxStates, maxTerms, checkCounter, pastDeadline,
                   timedOut, limitExceeded, err, nilsLate>>

MatchTerm ==
    /\ Running /\ termsMatched < CountBound
    /\ termsMatched' = termsMatched + 1
    /\ UNCHANGED <<statesVisited, maxStates, maxTerms, checkCounter, pastDeadline,
                   timedOut, limitExceeded, err, nilsLate>>

(* Time passes the Deadline.                                              *)
DeadlinePasses ==
    /\ Running /\ ~pastDeadline
    /\ pastDeadline' = TRUE
    /\ UNCHANGED <<statesVisited, termsMatched, maxStates, maxTerms, checkCounter,
                   timedOut, limitExceeded, err, nilsLate>>

TimeCheckDue(n) == n % CheckInterval = 0

(* CheckLimits: the state limit, then the term limit, then the counter   *)
(* and, when due, the deadline.                                           *)
CheckLimits ==
    /\ Running /\ checkCounter < MaxChecks
    /\ UNCHANGED <<statesVisited, termsMatched, maxStates, maxTerms, pastDeadline>>
    /\ CASE statesVisited >= maxStates ->
              /\ limitExceeded' = TRUE /\ err' = "states"
              /\ UNCHANGED <<checkCounter, timedOut, nilsLate>>
         [] termsMatched >= maxTerms ->
              /\ limitExceeded' = TRUE /\ err' = "terms"
              /\ UNCHANGED <<checkCounter, timedOut, nilsLate>>
         [] TimeCheckDue(checkCounter + 1) /\ pastDeadline ->
              /\ checkCounter' = checkCounter + 1
              /\ timedOut' = TRUE /\ err' = "timeout"
              /\ UNCHANGED <<limitExceeded, nilsLate>>
         [] OTHER ->
              /\ checkCounter' = checkCounter + 1
              /\ nilsLate' = IF pastDeadline THEN nilsLate + 1 ELSE nilsLate
              /\ UNCHANGED <<timedOut, limitExceeded, err>>

Next == VisitState \/ MatchTerm \/ DeadlinePasses \/ CheckLimits

Spec == Init /\ [][Next]_ctxVars
-----------------------------------------------------------------------------
=============================================================================
