--------------------------- MODULE SnapshotManager ---------------------------
(***************************************************************************)
(* The snapshot manager of one index (internal/snapshot): the current      *)
(* generation and its SegmentRefs, reader snapshots that pin those refs,   *)
(* and UpdateGeneration, which swaps in a new segment set and hands back   *)
(* the ids whose directories the caller may delete.                        *)
(*                                                                         *)
(* A SegmentRef is identified by its segment id: ids come from             *)
(* generateSegmentID (8 random hex digits) and are never reused, so a ref  *)
(* that left the manifest keeps its own refCount entry for the snapshots   *)
(* that still hold it.                                                     *)
(*                                                                         *)
(* Acquire pins under generationMu.RLock and UpdateGeneration runs under   *)
(* generationMu.Lock, so each is one step with respect to the other.       *)
(* Release takes no generation lock: its unpins are separate steps that    *)
(* interleave with UpdateGeneration, one Unpin per ref, in any order (the  *)
(* ref slice is built from a Go map).                                      *)
(***************************************************************************)
EXTENDS Integers, FiniteSets

CONSTANTS
    Readers,    \* goroutines running searches (handleSearch), model values
    SegIds,     \* segment ids, model values; each is created at most once
    MaxGen      \* largest generation UpdateGeneration may install

ASSUME MaxGen \in Nat \ {0}

VARIABLES
    currentGeneration,  \* Manager.currentGeneration
    currentSegments,    \* DOMAIN of Manager.currentSegments
    refCount,           \* SegmentRef.refCount, per segment id
    inManifest,         \* SegmentRef.inManifest, per segment id
    hasRef,             \* ids for which a SegmentRef was ever created
    activeSnapshots,    \* readers whose snapshot is in Manager.activeSnapshots
    snap,               \* per reader: the snapshot it holds and where it is
    reclaimed           \* ids returned as reclaimable, whose directory the
                        \* caller removes (os.RemoveAll in Commit)

vars == <<currentGeneration, currentSegments, refCount, inManifest, hasRef,
          activeSnapshots, snap, reclaimed>>

(* Reader phases: "idle" holds no snapshot; "acquired" has pinned but is   *)
(* not yet in activeSnapshots; "active" is returned to the caller;         *)
(* "unpinning" has won the released CAS and unpins pins one by one.        *)
Phases == {"idle", "acquired", "active", "unpinning"}

NoSnap == [st |-> "idle", gen |-> 0, segs |-> {}, pins |-> {}]

TypeOK ==
    /\ currentGeneration \in 0..MaxGen
    /\ currentSegments \subseteq hasRef
    /\ hasRef \subseteq SegIds
    /\ refCount \in [SegIds -> Nat]
    /\ inManifest \in [SegIds -> BOOLEAN]
    /\ activeSnapshots \subseteq Readers
    /\ snap \in [Readers -> [st : Phases, gen : 0..MaxGen,
                             segs : SUBSET SegIds, pins : SUBSET SegIds]]
    /\ reclaimed \subseteq SegIds

-----------------------------------------------------------------------------
(* Mutant of RefReclaimable: the refCount test dropped.                    *)
RefReclaimableIgnoringPins(count, inMan) == ~inMan

(* SegmentRef.CanReclaim on a ref with this count and inManifest flag.     *)
RefReclaimable(count, inMan) == count = 0 /\ ~inMan

CanReclaim(id) == RefReclaimable(refCount[id], inManifest[id])

(* NewManager(initialGeneration, segmentIDs): the recovered generation and *)
(* its segment ids, each with a fresh ref marked inManifest.  A recovered  *)
(* generation 0 has no manifest and so no segments.                        *)
Init ==
    /\ \E g \in {0, 1}, ids \in SUBSET SegIds :
          /\ (g = 0) = (ids = {})
          /\ currentGeneration = g
          /\ currentSegments = ids
          /\ hasRef = ids
          /\ inManifest = [id \in SegIds |-> id \in ids]
    /\ refCount = [id \in SegIds |-> 0]
    /\ activeSnapshots = {}
    /\ snap = [r \in Readers |-> NoSnap]
    /\ reclaimed = {}

(* Manager.Acquire, under generationMu.RLock: read the generation and, if  *)
(* it is not 0, Pin every current ref.                                     *)
Acquire(r) ==
    LET segs == IF currentGeneration # 0 THEN currentSegments ELSE {}
    IN
    /\ snap[r].st = "idle"
    /\ refCount' = [id \in SegIds |->
                      IF id \in segs THEN refCount[id] + 1 ELSE refCount[id]]
    /\ snap' = [snap EXCEPT ![r] = [st |-> "acquired", gen |-> currentGeneration,
                                    segs |-> segs, pins |-> segs]]
    /\ UNCHANGED <<currentGeneration, currentSegments, inManifest, hasRef,
                   activeSnapshots, reclaimed>>

(* Manager.Acquire, after RUnlock: register under snapshotsMu and return.  *)
Register(r) ==
    /\ snap[r].st = "acquired"
    /\ activeSnapshots' = activeSnapshots \cup {r}
    /\ snap' = [snap EXCEPT ![r].st = "active"]
    /\ UNCHANGED <<currentGeneration, currentSegments, refCount, inManifest,
                   hasRef, reclaimed>>

(* Snapshot.Release: the CompareAndSwap(false, true) succeeds once.        *)
ReleaseBegin(r) ==
    /\ snap[r].st = "active"
    /\ snap' = [snap EXCEPT ![r].st = "unpinning"]
    /\ UNCHANGED <<currentGeneration, currentSegments, refCount, inManifest,
                   hasRef, activeSnapshots, reclaimed>>

(* Mutant of Unpin: a ref is unpinned whether or not the snapshot holds it *)
(* (a second unpin of the same ref).                                       *)
UnpinUnchecked(r, id) ==
    /\ snap[r].st = "unpinning"
    /\ refCount' = [refCount EXCEPT ![id] = @ - 1]
    /\ snap' = [snap EXCEPT ![r].pins = @ \ {id}]
    /\ UNCHANGED <<currentGeneration, currentSegments, inManifest, hasRef,
                   activeSnapshots, reclaimed>>

(* Snapshot.Release: ref.Unpin() for one ref of the snapshot.              *)
Unpin(r, id) ==
    /\ snap[r].st = "unpinning"
    /\ id \in snap[r].pins
    /\ refCount' = [refCount EXCEPT ![id] = @ - 1]
    /\ snap' = [snap EXCEPT ![r].pins = @ \ {id}]
    /\ UNCHANGED <<currentGeneration, currentSegments, inManifest, hasRef,
                   activeSnapshots, reclaimed>>

(* Snapshot.Release then Manager.releaseSnapshot: delete from              *)
(* activeSnapshots under snapshotsMu.  The reader may then search again.   *)
ReleaseFinish(r) ==
    /\ snap[r].st = "unpinning"
    /\ snap[r].pins = {}
    /\ activeSnapshots' = activeSnapshots \ {r}
    /\ snap' = [snap EXCEPT ![r] = NoSnap]
    /\ UNCHANGED <<currentGeneration, currentSegments, refCount, inManifest,
                   hasRef, reclaimed>>

(* Manager.UpdateGeneration(newGeneration, newSegmentIDs) under            *)
(* generationMu.Lock.  A non-increasing generation panics before any       *)
(* change (no step).  Ids already current keep their ref; other ids get a  *)
(* new ref with inManifest set; each dropped ref gets inManifest cleared   *)
(* and is returned if CanReclaim holds at that instant.                    *)
(* Mutant of FreshRefs: a carried-forward id gets a new ref.              *)
FreshRefsRecreating(newIds) == newIds

(* The ids of newSegmentIDs not found in currentSegments: new refs.        *)
FreshRefs(newIds) == newIds \ currentSegments

(* Mutant of Advances: the monotonicity check lets an equal generation    *)
(* through.                                                                *)
AdvancesOrEqual(newGen) == newGen >= currentGeneration

(* UpdateGeneration panics unless the generation increases.                *)
Advances(newGen) == newGen > currentGeneration

UpdateGeneration(newGen, newIds) ==
    LET dropped == currentSegments \ newIds
        fresh == FreshRefs(newIds)
        im == [id \in SegIds |-> IF id \in dropped THEN FALSE
                                 ELSE IF id \in fresh THEN TRUE
                                 ELSE inManifest[id]]
        reclaimable == {id \in dropped : RefReclaimable(refCount[id], im[id])}
    IN
    /\ Advances(newGen)
    /\ newIds \cap hasRef \subseteq currentSegments
    /\ refCount' = [id \in SegIds |-> IF id \in fresh THEN 0 ELSE refCount[id]]
    /\ inManifest' = im
    /\ hasRef' = hasRef \cup newIds
    /\ reclaimed' = reclaimed \cup reclaimable
    /\ currentGeneration' = newGen
    /\ currentSegments' = newIds
    /\ UNCHANGED <<activeSnapshots, snap>>

(* Manager.Reclaimable under generationMu.RLock: the current refs that     *)
(* CanReclaim; the caller deletes their directories.                       *)
Reclaimable ==
    LET found == {id \in currentSegments : CanReclaim(id)}
    IN
    /\ reclaimed' = reclaimed \cup found
    /\ UNCHANGED <<currentGeneration, currentSegments, refCount, inManifest,
                   hasRef, activeSnapshots, snap>>

Next ==
    \/ \E r \in Readers :
          \/ Acquire(r) \/ Register(r) \/ ReleaseBegin(r) \/ ReleaseFinish(r)
          \/ \E id \in SegIds : Unpin(r, id)
    \/ \E g \in 1..MaxGen, ids \in SUBSET SegIds : UpdateGeneration(g, ids)

(* Every search releases its snapshot (handleSearch defers Release), so    *)
(* the release steps of a reader are weakly fair.                          *)
Fairness ==
    \A r \in Readers :
        /\ WF_vars(Register(r))
        /\ WF_vars(ReleaseBegin(r))
        /\ WF_vars(\E id \in SegIds : Unpin(r, id))
        /\ WF_vars(ReleaseFinish(r))

Spec == Init /\ [][Next]_vars /\ Fairness

(* Nothing in the repository calls Manager.Reclaimable, and every ref in   *)
(* currentSegments has inManifest set, so the scan never finds anything:   *)
(* it is no step of Next.  ScanSpec adds it, called again and again as the *)
(* spec's reclamation contract (4.E) expects, to ask whether the scan      *)
(* would reclaim what UpdateGeneration left pinned.                        *)
ScanSpec == Init /\ [][Next \/ Reclaimable]_vars /\ Fairness /\ WF_vars(Reclaimable)

-----------------------------------------------------------------------------
(* Pins held by snapshots that have not yet unpinned them.                 *)
Holders(id) == {r \in Readers : id \in snap[r].pins}

(* Every SegmentRef's atomic refCount equals the number of snapshots that  *)
(* still hold a pin on it, across UpdateGeneration carrying refs forward,  *)
(* creating new ones and dropping old ones while releases are half done.   *)
(* This implies Unpin never drives a count negative (its panic).           *)
RefCountIsPinCount ==
    \A id \in SegIds : refCount[id] = Cardinality(Holders(id))

(* No id handed to the caller for deletion (UpdateGeneration's result or  *)
(* Reclaimable's) is in the current manifest or pinned by a snapshot: a    *)
(* reader never has a segment directory removed under it.                  *)
ReclaimSafety ==
    \A id \in reclaimed : id \notin currentSegments /\ Holders(id) = {}

(* Spec 4.E: a segment that leaves the manifest while pinned is not        *)
(* reclaimable then, but once the last snapshot releases it, a later       *)
(* Reclaimable() call finds it.  Every ref dropped from the manifest is    *)
(* eventually handed back for deletion.                                    *)
DroppedEventuallyReclaimed ==
    \A id \in SegIds :
        (id \in hasRef /\ id \notin currentSegments) ~> id \in reclaimed

(* A snapshot, as the reader sees it: the generation and segments it      *)
(* reads from Acquire until its Release begins.  Once the released CAS is *)
(* won the reader reads nothing more; its pins go one by one.             *)
ReaderView(r) ==
    IF snap[r].st \in {"acquired", "active"}
    THEN [gen |-> snap[r].gen, segs |-> snap[r].segs]
    ELSE [gen |-> -1, segs |-> {}]

Isolation == INSTANCE ReaderIsolation
    WITH gen <- currentGeneration, segs <- currentSegments,
         view <- [r \in Readers |-> ReaderView(r)], deleted <- reclaimed

(* The manager implements reader isolation (spec 5): each snapshot reads  *)
(* one published generation, fixed at Acquire whatever UpdateGeneration   *)
(* does meanwhile; generations only grow; and the ids UpdateGeneration    *)
(* hands back for deletion are neither current nor read by any snapshot   *)
(* that has not begun its Release.                                        *)
IsolationRefined == Isolation!Spec
=============================================================================
