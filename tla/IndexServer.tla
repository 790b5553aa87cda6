------------------------------ MODULE IndexServer ------------------------------
(***************************************************************************)
(* The HTTP handlers of one index (src/unnamed/part_011) running as       *)
(* concurrent requests: POST /documents (AcquireWriter, IngestDocuments), *)
(* DELETE /documents (handleDeleteDocument) and POST /commit              *)
(* (IndexInstance.Commit followed by ReleaseWriter).  The writer slot,    *)
(* the Writer's active flag and its WriteBuffer (src/Dockerfile,          *)
(* src/internal/indexing/buffer.go) are shared; so are currentManifest,   *)
(* the snapshot manager's generation and the index directory.  Each      *)
(* request is a client with a program counter; every lock section of the  *)
(* code is one step, and the gaps between them are where other requests  *)
(* interleave.  Commit phases 1-3 are one step (they only touch the       *)
(* request's own tmp/ directory), I/O errors are left to CommitRecovery.  *)
(* A document is a model value; a segment's data is the set of documents  *)
(* buildSegmentData serialises.  Responses that change nothing (503 busy  *)
(* on a held writer) are not steps.                                       *)
(***************************************************************************)
EXTENDS Naturals, FiniteSets

CONSTANTS Clients,     \* concurrent HTTP requests (goroutines)
          Docs,        \* external document ids
          MaxWriters,  \* Writer objects alive at once (ids are reused)
          MaxSegs,     \* bound on segment ids generated
          MaxGen       \* bound on generations

VARIABLES writer,      \* inst.writer: 0 (nil) or the id of a Writer
          active,      \* Writer.active per writer id
          buf,         \* Writer.buffer per writer id: added docs and Deletions
          pc, loc,     \* per request: step and local variables
          mem,         \* inst.currentManifest: [gen, segs]
          snapGen, snapSegs, \* Snapshots.currentGeneration / currentSegments
          current,     \* manifest.current on disk
          manifests,   \* manifests/manifest_gen_<g>.json: gen -> segment ids
          segDirs,     \* segments/<id>/: id -> documents stored in it
          tmp,         \* tmp/<id>/ staging directories
          nextSeg,     \* segment ids generated so far
          acked        \* commits answered 200: [gen, seg, docs, dels]

vars == <<writer, active, buf, pc, loc, mem, snapGen, snapSegs,
          current, manifests, segDirs, tmp, nextSeg, acked>>

WriterIds == 1..MaxWriters
EmptyBuffer == [docs |-> {}, dels |-> {}]
NoLocal == [w |-> 0, docs |-> {}, dels |-> {}, base |-> {}, gen |-> 0,
            seg |-> 0, loaded |-> {}]

Put(f, k, v) == [x \in DOMAIN f \cup {k} |-> IF x = k THEN v ELSE f[x]]
Drop(f, K) == [x \in DOMAIN f \ K |-> f[x]]

TypeOK ==
    /\ writer \in 0..MaxWriters
    /\ active \in [WriterIds -> BOOLEAN]
    /\ buf \in [WriterIds -> [docs : SUBSET Docs, dels : SUBSET Docs]]
    /\ pc \in [Clients -> {"idle", "ingest", "add", "ingestFailed", "delete", "check", "build", "base",
                            "stage", "install", "manifest", "activate",
                            "cleanup", "load", "update", "finish", "abort", "release"}]
    /\ loc \in [Clients -> [w : 0..MaxWriters, docs : SUBSET Docs,
                            dels : SUBSET Docs, base : SUBSET Nat,
                            gen : Nat, seg : Nat, loaded : SUBSET Nat]]
    /\ mem.gen \in Nat /\ snapGen \in Nat /\ current \in Nat
    /\ mem.segs \cup snapSegs \cup DOMAIN segDirs \cup tmp \subseteq 1..nextSeg
    /\ \A g \in DOMAIN manifests : manifests[g] \subseteq 1..nextSeg
    /\ acked \subseteq [gen : Nat, seg : Nat, docs : SUBSET Docs,
                        dels : SUBSET Docs]

(* openIndex of a fresh index: no manifest, generation 0, no writer.      *)
Init ==
    /\ writer = 0
    /\ active = [w \in WriterIds |-> FALSE]
    /\ buf = [w \in WriterIds |-> EmptyBuffer]
    /\ pc = [c \in Clients |-> "idle"]
    /\ loc = [c \in Clients |-> NoLocal]
    /\ mem = [gen |-> 0, segs |-> {}]
    /\ snapGen = 0 /\ snapSegs = {}
    /\ current = 0 /\ manifests = <<>> /\ segDirs = <<>> /\ tmp = {}
    /\ nextSeg = 0
    /\ acked = {}

Goto(c, l) == pc' = [pc EXCEPT ![c] = l]
SetLoc(c, r) == loc' = [loc EXCEPT ![c] = r]
(* The request returns: its goroutine and locals are gone.                *)
Return(c) == Goto(c, "idle") /\ SetLoc(c, NoLocal)

(* Writer objects no one refers to any more (garbage), reused as ids.     *)
FreeWriters == {w \in WriterIds : w # writer /\ \A c \in Clients : loc[c].w # w}

(* AcquireWriter on an empty slot: NewWriter(w), active with an empty     *)
(* buffer, stored in the slot.                                            *)
NewWriterInSlot(w) ==
    /\ writer' = w
    /\ active' = [active EXCEPT ![w] = TRUE]
    /\ buf' = [buf EXCEPT ![w] = EmptyBuffer]

(* ReleaseWriter: Release() the Writer in the slot (whichever it is) and  *)
(* empty the slot.                                                        *)
ReleaseWriter ==
    IF writer # 0
    THEN /\ active' = [active EXCEPT ![writer] = FALSE]
         /\ writer' = 0
    ELSE UNCHANGED <<active, writer>>

ServerOnly == UNCHANGED <<mem, snapGen, snapSegs, current, manifests,
                          segDirs, tmp, nextSeg, acked>>
-----------------------------------------------------------------------------
(* handleIngestDocuments: AcquireWriter; a held slot answers 503.         *)
IngestAcquire(c) ==
    /\ pc[c] = "idle" /\ writer = 0
    /\ \E w \in FreeWriters : NewWriterInSlot(w)
    /\ Goto(c, "ingest")
    /\ UNCHANGED loc /\ ServerOnly

(* Writer.AddDocument's checks: the writer is active and AllocateDocID    *)
(* finds the external id not yet in the buffer.                           *)
Accepts(w, d) == active[w] /\ d \notin buf[w].docs

(* IngestDocuments reads the slot under writerMu; nil answers 503.        *)
IngestRead(c) ==
    /\ pc[c] = "ingest"
    /\ \/ /\ writer = 0
          /\ Return(c)
       \/ /\ writer # 0
          /\ SetLoc(c, [NoLocal EXCEPT !.w = writer])
          /\ Goto(c, "add")
    /\ UNCHANGED <<writer, active, buf>> /\ ServerOnly

(* Writer.AddDocument under w.mu on the writer read; an inactive writer   *)
(* or an external id already in the buffer fails.                         *)
IngestAdd(c, d) ==
    LET w == loc[c].w IN
    /\ pc[c] = "add"
    /\ \/ /\ Accepts(w, d)
          /\ buf' = [buf EXCEPT ![w].docs = @ \cup {d}]
          /\ Return(c)
       \/ /\ ~Accepts(w, d)
          /\ Goto(c, "ingestFailed")
          /\ UNCHANGED <<buf, loc>>
    /\ UNCHANGED <<writer, active>> /\ ServerOnly

(* On that error the handler calls ReleaseWriter, which releases whatever *)
(* writer the slot holds by then, and answers 400.                        *)
IngestRelease(c) ==
    /\ pc[c] = "ingestFailed"
    /\ ReleaseWriter
    /\ Return(c)
    /\ UNCHANGED buf /\ ServerOnly

(* handleDeleteDocument reads the slot; if nil it calls AcquireWriter.    *)
DeleteRead(c) ==
    /\ pc[c] = "idle"
    /\ \/ /\ writer # 0
          /\ SetLoc(c, [NoLocal EXCEPT !.w = writer])
          /\ UNCHANGED <<writer, active, buf>>
       \/ /\ writer = 0
          /\ \E w \in FreeWriters :
                /\ NewWriterInSlot(w)
                /\ SetLoc(c, [NoLocal EXCEPT !.w = w])
    /\ Goto(c, "delete")
    /\ ServerOnly

(* Writer.DeleteDocument on the pointer read: MarkDeleted while active,   *)
(* ErrWriterNotActive (500) otherwise.                                    *)
DeleteApply(c, d) ==
    /\ pc[c] = "delete"
    /\ buf' = IF active[loc[c].w]
              THEN [buf EXCEPT ![loc[c].w].dels = @ \cup {d}]
              ELSE buf
    /\ Return(c)
    /\ UNCHANGED <<writer, active>> /\ ServerOnly
-----------------------------------------------------------------------------
(* POST /commit: Commit reads the slot under writerMu (nil answers 503).  *)
(* MaxGen and MaxSegs bound the commits that may start.                   *)
CommitRead(c) ==
    /\ pc[c] = "idle" /\ writer # 0
    /\ mem.gen < MaxGen /\ nextSeg < MaxSegs
    /\ SetLoc(c, [NoLocal EXCEPT !.w = writer])
    /\ Goto(c, "check")
    /\ UNCHANGED <<writer, active, buf>> /\ ServerOnly

(* buf.DocCount == 0 answers ErrIndexEmpty (400) and keeps the writer.    *)
CommitCheck(c) ==
    /\ pc[c] = "check"
    /\ IF buf[loc[c].w].docs = {} THEN Return(c)
                                 ELSE Goto(c, "build") /\ UNCHANGED loc
    /\ UNCHANGED <<writer, active, buf>> /\ ServerOnly

(* buildSegmentData: the segment's files carry the buffer's documents;   *)
(* Deletions are never read (DelCount 0).                                 *)
SegmentData(b) == b.docs

(* buildSegmentData(buf), reading the buffer without w.mu.  The buffer's  *)
(* Deletions are kept only as history for the properties.                 *)
CommitBuild(c) ==
    /\ pc[c] = "build"
    /\ SetLoc(c, [loc[c] EXCEPT !.docs = SegmentData(buf[loc[c].w]),
                                !.dels = buf[loc[c].w].dels])
    /\ Goto(c, "base")
    /\ UNCHANGED <<writer, active, buf>> /\ ServerOnly

(* currentManifest under manifestMu.RLock; the commit's generation is its *)
(* Generation + 1.                                                        *)
CommitBase(c) ==
    /\ pc[c] = "base"
    /\ SetLoc(c, [loc[c] EXCEPT !.base = mem.segs, !.gen = mem.gen + 1])
    /\ Goto(c, "stage")
    /\ UNCHANGED <<writer, active, buf>> /\ ServerOnly

Disk == <<current, manifests, segDirs, tmp, nextSeg>>
Local == <<writer, active, buf, mem, snapGen, snapSegs, acked>>

(* Mutant: the staged segment reuses the last id.                         *)
CommitStageSameId(c) ==
    /\ pc[c] = "stage"
    /\ UNCHANGED nextSeg
    /\ tmp' = tmp \cup {nextSeg + 1}
    /\ SetLoc(c, [loc[c] EXCEPT !.seg = nextSeg + 1])
    /\ Goto(c, "install")
    /\ UNCHANGED <<current, manifests, segDirs>> /\ UNCHANGED Local

(* Phases 1-3: a fresh segment id, files written and verified in tmp/<id>. *)
CommitStage(c) ==
    /\ pc[c] = "stage"
    /\ nextSeg' = nextSeg + 1
    /\ tmp' = tmp \cup {nextSeg + 1}
    /\ SetLoc(c, [loc[c] EXCEPT !.seg = nextSeg + 1])
    /\ Goto(c, "install")
    /\ UNCHANGED <<current, manifests, segDirs>> /\ UNCHANGED Local

(* Phase 4 renames tmp/<id> to segments/<id>.  When another commit's      *)
(* phase 7 emptied tmp/ first the rename fails: rollback, 500, writer     *)
(* kept.                                                                  *)
CommitInstall(c) ==
    /\ pc[c] = "install"
    /\ IF loc[c].seg \in tmp
       THEN /\ tmp' = tmp \ {loc[c].seg}
            /\ segDirs' = Put(segDirs, loc[c].seg, loc[c].docs)
            /\ Goto(c, "manifest") /\ UNCHANGED loc
       ELSE /\ UNCHANGED <<tmp, segDirs>>
            /\ Return(c)
    /\ UNCHANGED <<current, manifests, nextSeg>> /\ UNCHANGED Local

(* Mutant: the new manifest lists only the new segment.                   *)
CommitManifestWithoutBase(c) ==
    /\ pc[c] = "manifest"
    /\ manifests' = Put(manifests, loc[c].gen, {loc[c].seg})
    /\ Goto(c, "activate")
    /\ UNCHANGED <<loc, current, segDirs, tmp, nextSeg>> /\ UNCHANGED Local

(* Phase 5: buildManifest(base + new segment) renamed over any manifest   *)
(* file of the same generation.                                           *)
CommitManifest(c) ==
    /\ pc[c] = "manifest"
    /\ manifests' = Put(manifests, loc[c].gen, loc[c].base \cup {loc[c].seg})
    /\ Goto(c, "activate")
    /\ UNCHANGED <<loc, current, segDirs, tmp, nextSeg>> /\ UNCHANGED Local

(* Phase 6: manifest.current := the commit's generation.                  *)
CommitActivate(c) ==
    /\ pc[c] = "activate"
    /\ current' = loc[c].gen
    /\ Goto(c, "cleanup")
    /\ UNCHANGED <<loc, manifests, segDirs, tmp, nextSeg>> /\ UNCHANGED Local

(* Phase 7: RemoveDirContents(tmp/), other requests' staging included.    *)
CommitCleanup(c) ==
    /\ pc[c] = "cleanup"
    /\ tmp' = {}
    /\ Goto(c, "load")
    /\ UNCHANGED <<loc, current, manifests, segDirs, nextSeg>> /\ UNCHANGED Local

(* LoadManifest(result.Generation): whatever file has that name now.      *)
CommitLoad(c) ==
    /\ pc[c] = "load"
    /\ SetLoc(c, [loc[c] EXCEPT !.loaded = manifests[loc[c].gen]])
    /\ Goto(c, "update")
    /\ UNCHANGED Disk /\ UNCHANGED Local

(* Mutant: the set difference taken the wrong way round.                  *)
ReclaimedNew(c) == loc[c].loaded \ snapSegs

(* The segments UpdateGeneration hands back: with no reader holding a     *)
(* snapshot, every segment of the old generation the new one drops.       *)
Reclaimed(c) == snapSegs \ loc[c].loaded

(* UpdateGeneration panics on a generation not above the current one; the *)
(* request goroutine dies (net/http recovers it) with the writer held.    *)
(* Otherwise it installs the generation and Commit removes the            *)
(* directories of the reclaimable segments.                               *)
CommitUpdate(c) ==
    /\ pc[c] = "update"
    /\ IF loc[c].gen <= snapGen
       THEN /\ Return(c)
            /\ UNCHANGED <<snapGen, snapSegs, segDirs>>
       ELSE /\ snapGen' = loc[c].gen
            /\ snapSegs' = loc[c].loaded
            /\ segDirs' = Drop(segDirs, Reclaimed(c))
            /\ Goto(c, "finish") /\ UNCHANGED loc
    /\ UNCHANGED <<writer, active, buf, mem, current, manifests, tmp, nextSeg,
                   acked>>

(* Mutant: currentManifest is not updated after the commit.               *)
CommitFinishKeepingManifest(c) ==
    /\ pc[c] = "finish"
    /\ Goto(c, "abort")
    /\ UNCHANGED <<mem, writer, active, buf, loc, snapGen, snapSegs, acked>>
    /\ UNCHANGED Disk

(* currentManifest := the loaded manifest, under manifestMu.              *)
CommitFinish(c) ==
    /\ pc[c] = "finish"
    /\ mem' = [gen |-> loc[c].gen, segs |-> loc[c].loaded]
    /\ Goto(c, "abort")
    /\ UNCHANGED <<writer, active, buf, loc, snapGen, snapSegs, acked>>
    /\ UNCHANGED Disk

(* w.Abort() resets the buffer of the writer this commit read, under w.mu.*)
CommitAbort(c) ==
    /\ pc[c] = "abort"
    /\ buf' = [buf EXCEPT ![loc[c].w] = EmptyBuffer]
    /\ Goto(c, "release")
    /\ UNCHANGED <<writer, active, loc, mem, snapGen, snapSegs, acked>>
    /\ UNCHANGED Disk

(* handleCommit after success: ReleaseWriter, then answer 200.            *)
CommitRelease(c) ==
    /\ pc[c] = "release"
    /\ ReleaseWriter
    /\ acked' = acked \cup {[gen |-> loc[c].gen, seg |-> loc[c].seg,
                             docs |-> loc[c].docs, dels |-> loc[c].dels]}
    /\ Return(c)
    /\ UNCHANGED <<buf, mem, snapGen, snapSegs>> /\ UNCHANGED Disk
-----------------------------------------------------------------------------
Next ==
    \E c \in Clients :
        \/ IngestAcquire(c)
        \/ IngestRead(c) \/ \E d \in Docs : IngestAdd(c, d)
        \/ IngestRelease(c)
        \/ DeleteRead(c)
        \/ \E d \in Docs : DeleteApply(c, d)
        \/ CommitRead(c) \/ CommitCheck(c) \/ CommitBuild(c) \/ CommitBase(c)
        \/ CommitStage(c) \/ CommitInstall(c) \/ CommitManifest(c)
        \/ CommitActivate(c) \/ CommitCleanup(c) \/ CommitLoad(c)
        \/ CommitUpdate(c) \/ CommitFinish(c) \/ CommitAbort(c)
        \/ CommitRelease(c)

Spec == Init /\ [][Next]_vars
-----------------------------------------------------------------------------
(* Documents reachable from manifest.current: what a restart would open.  *)
LiveDocs ==
    IF current = 0 THEN {}
    ELSE UNION {segDirs[s] : s \in manifests[current] \cap DOMAIN segDirs}

Quiescent == \A c \in Clients : pc[c] = "idle"

(* Every document of a commit answered 200 stays reachable from the      *)
(* active manifest on disk, whatever later commits, reclaims and phase-7 *)
(* cleanups do (IndexInstance.Commit, Committer.Commit).                 *)
AckedDocsDurable == \A a \in acked : a.docs \subseteq LiveDocs

(* With no request in flight, the in-memory currentManifest, the snapshot *)
(* manager's generation and segment set, and manifest.current on disk     *)
(* all name the same generation and segments: Commit's LoadManifest,      *)
(* UpdateGeneration and currentManifest update keep them in step.         *)
MemoryMatchesDisk ==
    Quiescent =>
        /\ mem.gen = current /\ snapGen = current /\ snapSegs = mem.segs
        /\ current # 0 => mem.segs = manifests[current]

(* A writer held with no request in flight has documents, so a POST      *)
(* /commit can flush and release it (handleDeleteDocument acquires the    *)
(* writer; only a successful commit or a failed ingest releases it).      *)
HeldWriterCommittable ==
    (writer # 0 /\ Quiescent) => buf[writer].docs # {}

(* A document deleted in the buffer of an acknowledged commit (and not    *)
(* added in that buffer) is reachable from the active manifest only       *)
(* through segments written after that commit's: Writer.DeleteDocument    *)
(* records the tombstone, buildSegmentData and the commit persist it.     *)
DeletesCommitted ==
    \A a \in acked : \A d \in a.dels \ a.docs :
        \A s \in manifests[current] \cap DOMAIN segDirs :
            d \in segDirs[s] => s > a.seg
(* Whatever concurrent commits do to manifest.current and to the         *)
(* manifest files, the active manifest never names a segment directory    *)
(* that UpdateGeneration's reclaim (IndexInstance.Commit) has removed.    *)
ActiveIntact == current # 0 => manifests[current] \subseteq DOMAIN segDirs
=============================================================================
