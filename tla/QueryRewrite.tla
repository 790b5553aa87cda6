----------------------------- MODULE QueryRewrite -----------------------------
(***************************************************************************)
(* query.Rewrite (src/internal/query/query.go): rewriteOnce and           *)
(* rewriteBoolean as RECURSIVE operators over query trees, and the        *)
(* fixed-point loop of Rewrite as the steps of a spec whose state is the  *)
(* query being rewritten.  A leaf is a term, match_all or match_none (its *)
(* field and text play no part in the rules); a boolean is a sequence of  *)
(* [occur, q] clauses.  MinimumShouldMatch is copied through unchanged    *)
(* and plays no part in any rule, so it is left out.  queryEqual compares *)
(* booleans structurally and leaves by pointer; rewriteOnce returns leaves *)
(* unchanged and only creates fresh match_all/match_none nodes, which     *)
(* equal-structure comparison identifies one round earlier, with the same *)
(* result, so structural equality stands for it.                          *)
(***************************************************************************)
EXTENDS Integers, Sequences, SequencesExt

VARIABLES q,       \* the query Rewrite's loop holds
          rounds   \* rewriteOnce calls so far

vars == <<q, rounds>>

Occurs == {"must", "should", "must_not"}
Leaf(t) == [type |-> t, clauses |-> <<>>]
Leaves == {Leaf("term"), Leaf("all"), Leaf("none")}
Bool(cs) == [type |-> "bool", clauses |-> cs]
Clause(o, x) == [occur |-> o, q |-> x]

(* Booleans of one level: up to two leaf clauses.                         *)
Depth1 == {Bool(cs) : cs \in BoundedSeq({Clause(o, x) : o \in Occurs, x \in Leaves}, 2)}
(* Booleans of two levels: a nested boolean clause, with or without a    *)
(* leaf clause before or after it.                                        *)
Depth2 ==
    LET inner == {Clause(o, b) : o \in Occurs, b \in Depth1}
        leaf == {Clause(o, x) : o \in Occurs, x \in Leaves}
    IN {Bool(<<c>>) : c \in inner}
       \cup {Bool(<<c, l>>) : c \in inner, l \in leaf}
       \cup {Bool(<<l, c>>) : c \in inner, l \in leaf}
Queries == Leaves \cup Depth1 \cup Depth2

(* canFlatten: never through MUST_NOT; only when every inner clause has   *)
(* the outer clause's occur.                                              *)
CanFlatten(o, inner) ==
    /\ o # "must_not"
    /\ \A i \in 1..Len(inner.clauses) : inner.clauses[i].occur = o

RECURSIVE RewriteOnce(_), RewriteBoolean(_), RewriteChild(_)

(* Mutant: children are not rewritten before the rules apply.             *)
RewriteChildShallow(x) == x

(* The first loop of rewriteBoolean rewrites each child first.            *)
RewriteChild(x) == RewriteOnce(x)

(* rewriteOnce: booleans are rewritten, every leaf is returned as is.     *)
RewriteOnce(x) == IF x.type = "bool" THEN RewriteBoolean(x) ELSE x

(* rewriteBoolean: rewrite and flatten the children, drop match_all from  *)
(* MUST, collapse to match_none on a MUST match_none, to match_all when   *)
(* MUST clauses were all dropped and nothing is left, unwrap a single     *)
(* MUST clause.                                                           *)
RewriteBoolean(x) ==
    LET Expand(c) ==
            LET r == RewriteChild(c.q)
            IN IF r.type = "bool" /\ CanFlatten(c.occur, r)
               THEN [j \in 1..Len(r.clauses) |-> Clause(c.occur, r.clauses[j].q)]
               ELSE <<Clause(c.occur, r)>>
        clauses == FlattenSeq([i \in 1..Len(x.clauses) |-> Expand(x.clauses[i])])
        hasMust == \E i \in 1..Len(clauses) : clauses[i].occur = "must"
        IsMustAll(c) == c.occur = "must" /\ c.q.type = "all"
        filtered == SelectSeq(clauses, LAMBDA c : ~IsMustAll(c))
    IN CASE \E i \in 1..Len(filtered) :
                filtered[i].occur = "must" /\ filtered[i].q.type = "none"
                -> Leaf("none")
         [] hasMust /\ filtered = <<>> -> Leaf("all")
         [] Len(filtered) = 1 /\ filtered[1].occur = "must" -> filtered[1].q
         [] OTHER -> Bool(filtered)

Init == q \in Queries /\ rounds = 0

(* One iteration of Rewrite's loop; the loop returns when rewriteOnce      *)
(* gives back an equal query, so no step is enabled then.                 *)
RewriteRound ==
    /\ RewriteOnce(q) # q
    /\ q' = RewriteOnce(q)
    /\ rounds' = rounds + 1

Next == RewriteRound

Spec == Init /\ [][Next]_vars
-----------------------------------------------------------------------------
(* The shapes the rules of spec section 4.F.6 remove, anywhere in a tree. *)
RECURSIVE Normal(_)
Normal(x) ==
    x.type = "bool" =>
        /\ \A i \in 1..Len(x.clauses) :
              LET c == x.clauses[i]
              IN /\ c.occur = "must" => c.q.type \notin {"all", "none"}
                 /\ c.q.type = "bool" => ~CanFlatten(c.occur, c.q)
                 /\ Normal(c.q)
        /\ ~(Len(x.clauses) = 1 /\ x.clauses[1].occur = "must")

(* When Rewrite returns (rewriteOnce gives back an equal query), no       *)
(* boolean anywhere in the tree still has a MUST match_all or match_none, *)
(* a single MUST clause, or a child boolean that could be flattened into  *)
(* it: every rule applies at every depth in one round of rewriteOnce.     *)
RewriteReachesNormalForm == RewriteOnce(q) = q => Normal(q)
=============================================================================
