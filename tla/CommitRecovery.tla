---------------------------- MODULE CommitRecovery ----------------------------
(***************************************************************************)
(* The on-disk generation lifecycle of one index: the 7-phase commit       *)
(* (internal/commit), the 9-step crash recovery run at index open          *)
(* (internal/recovery), the manifest and manifest.current files they share *)
(* (internal/index), and the server's IndexInstance.Commit, which keeps    *)
(* the manifest it last committed as the base of the next commit.          *)
(*                                                                         *)
(* The process may crash at any point and restart, which runs recovery;    *)
(* every phase may fail with an I/O error; a manifest or a segment file    *)
(* may rot on disk (at most MaxFaults times); a read made by recovery may *)
(* fail with a transient error (at most MaxReadErrs times), which the code *)
(* cannot tell from corruption.  Writes that the code fsyncs *)
(* (WriteFileSync, FsyncDir after each rename) are durable at once; a      *)
(* rename is atomic.  Segment contents are abstracted to an intact flag,   *)
(* a manifest to its segment set and a parse/checksum flag.                *)
(***************************************************************************)
EXTENDS Naturals, FiniteSets, FiniteSetsExt

CONSTANTS
    MaxGen,             \* generations a commit may create: 1..MaxGen
    MaxSegs,            \* segment ids generateSegmentID may return: 1..MaxSegs
    MaxFaults,          \* manifest or segment files that may rot on disk
    MaxReadErrs,        \* transient read errors recovery may meet
    ManifestRetention   \* recovery.Options.ManifestRetention (default 2)

ASSUME MaxGen \in Nat \ {0} /\ MaxSegs \in Nat \ {0}
ASSUME MaxFaults \in Nat /\ MaxReadErrs \in Nat /\ ManifestRetention \in Nat

Gens == 1..MaxGen
Segs == 1..MaxSegs

VARIABLES
    current,    \* manifest.current: the active generation (missing = 0)
    manifests,  \* manifests/manifest_gen_N.json: N -> [segs, ok]
    segDirs,    \* segments/<id>/: id -> TRUE iff every file's checksum holds
    tmp,        \* segment directories staged in tmp/
    proc,       \* the process: "down", "recovering", "up", or "failed"
                \* (recovery returned an error, the index is not loaded)
    rec,        \* recovery in progress: its step and chosen manifest
    mem,        \* IndexInstance.currentManifest: [gen, segs]
    cm,         \* the commit in progress: phase, segment id, generation, base
    nextSeg,    \* the next fresh segment id (ids are random, never reused)
    faults,     \* files rotted so far
    readErrs,   \* transient read errors recovery has met so far
    acked       \* commits acknowledged to the client: [gen, seg] records

vars == <<current, manifests, segDirs, tmp, proc, rec, mem, cm, nextSeg,
          faults, readErrs, acked>>

NoCommit == [pc |-> "idle", seg |-> 0, gen |-> 0, base |-> {}]
NoRec == [step |-> "select", gen |-> 0, segs |-> {}, fellBack |-> FALSE]

TypeOK ==
    /\ current \in 0..MaxGen
    /\ DOMAIN manifests \subseteq Gens
    /\ \A g \in DOMAIN manifests :
          manifests[g] \in [segs : SUBSET Segs, ok : BOOLEAN]
    /\ DOMAIN segDirs \subseteq Segs
    /\ \A s \in DOMAIN segDirs : segDirs[s] \in BOOLEAN
    /\ tmp \subseteq Segs
    /\ proc \in {"down", "recovering", "up", "failed"}
    /\ rec \in [step : {"select", "cleanTmp", "orphans", "prune"},
                gen : 0..MaxGen, segs : SUBSET Segs, fellBack : BOOLEAN]
    /\ mem \in [gen : 0..MaxGen, segs : SUBSET Segs]
    /\ cm \in [pc : {"idle", "prepared", "written", "verified", "installed",
                     "manifested", "activated"},
               seg : 0..MaxSegs, gen : 0..MaxGen, base : SUBSET Segs]
    /\ nextSeg \in 1..MaxSegs + 1
    /\ tmp \cup DOMAIN segDirs \subseteq 1..(nextSeg - 1)
    /\ faults \in 0..MaxFaults
    /\ readErrs \in 0..MaxReadErrs
    /\ acked \subseteq [gen : Gens, seg : Segs]

-----------------------------------------------------------------------------
(* Disk helpers.                                                           *)

(* LoadManifest(gen) succeeds: the file exists and its checksum verifies.  *)
Loadable(g) == g \in DOMAIN manifests /\ manifests[g].ok

(* step3VerifySegments finds nothing corrupt: every segment directory      *)
(* exists and every file's checksum matches.                               *)
Intact(g) == \A s \in manifests[g].segs : s \in DOMAIN segDirs /\ segDirs[s]

(* Set (or overwrite) key k of a file-map function.                        *)
Put(f, k, v) == [x \in DOMAIN f \cup {k} |-> IF x = k THEN v ELSE f[x]]

(* Remove keys K from a file-map function.                                 *)
Drop(f, K) == [x \in DOMAIN f \ K |-> f[x]]

-----------------------------------------------------------------------------
(* A fresh, empty index directory (CreateIndex) whose process is running.  *)
Init ==
    /\ current = 0
    /\ manifests = <<>>
    /\ segDirs = <<>>
    /\ tmp = {}
    /\ proc = "up"
    /\ rec = NoRec
    /\ mem = [gen |-> 0, segs |-> {}]
    /\ cm = NoCommit
    /\ nextSeg = 1
    /\ faults = 0
    /\ readErrs = 0
    /\ acked = {}

-----------------------------------------------------------------------------
(* Commit: Committer.Commit called from IndexInstance.Commit with the      *)
(* in-memory manifest; newGeneration = currentManifest.Generation + 1.     *)

(* Mutant of CommitPrepare: the segment id is not consumed, so the next    *)
(* commit gets the same one.                                               *)
CommitPrepareSameId ==
    /\ proc = "up"
    /\ cm.pc = "idle"
    /\ mem.gen + 1 \in Gens
    /\ nextSeg \in Segs
    /\ cm' = [pc |-> "prepared", seg |-> nextSeg, gen |-> mem.gen + 1,
              base |-> mem.segs]
    /\ UNCHANGED <<current, manifests, segDirs, tmp, proc, rec, mem, nextSeg,
                   faults, readErrs, acked>>

(* Phase 1, prepare: a fresh segment id; checksums are computed in memory. *)
CommitPrepare ==
    /\ proc = "up"
    /\ cm.pc = "idle"
    /\ mem.gen + 1 \in Gens
    /\ nextSeg \in Segs
    /\ cm' = [pc |-> "prepared", seg |-> nextSeg, gen |-> mem.gen + 1,
              base |-> mem.segs]
    /\ nextSeg' = nextSeg + 1
    /\ UNCHANGED <<current, manifests, segDirs, tmp, proc, rec, mem, faults,
                   readErrs, acked>>

(* Phase 2, write tmp/<id>/ and fsync it.                                  *)
CommitWrite ==
    /\ proc = "up"
    /\ cm.pc = "prepared"
    /\ tmp' = tmp \cup {cm.seg}
    /\ cm' = [cm EXCEPT !.pc = "written"]
    /\ UNCHANGED <<current, manifests, segDirs, proc, rec, mem, nextSeg,
                   faults, readErrs, acked>>

(* Phase 3, verify the staged files' checksums.                            *)
CommitVerify ==
    /\ proc = "up"
    /\ cm.pc = "written"
    /\ cm' = [cm EXCEPT !.pc = "verified"]
    /\ UNCHANGED <<current, manifests, segDirs, tmp, proc, rec, mem, nextSeg,
                   faults, readErrs, acked>>

(* A failure in phases 2-3 (I/O error, checksum mismatch, ctx cancelled    *)
(* before phase 3): rollback RemoveAll's tmp/<id>/, which may itself fail  *)
(* and is only logged.  The error goes back to the client.                 *)
CommitStagingFails ==
    /\ proc = "up"
    /\ cm.pc \in {"prepared", "written"}
    /\ tmp' \in {tmp \ {cm.seg}, tmp \cup {cm.seg}}
    /\ cm' = NoCommit
    /\ UNCHANGED <<current, manifests, segDirs, proc, rec, mem, nextSeg,
                   faults, readErrs, acked>>

(* Phase 4, install: rename tmp/<id> to segments/<id>, fsync segments/.    *)
CommitInstall ==
    /\ proc = "up"
    /\ cm.pc = "verified"
    /\ tmp' = tmp \ {cm.seg}
    /\ segDirs' = Put(segDirs, cm.seg, TRUE)
    /\ cm' = [cm EXCEPT !.pc = "installed"]
    /\ UNCHANGED <<current, manifests, proc, rec, mem, nextSeg, faults, readErrs, acked>>

(* Phase 4 fails: the rename fails and rollback (which may fail) removes   *)
(* the staged directory, or the rename succeeds and the fsync of segments/ *)
(* fails, leaving the installed directory that rollback does not touch.    *)
CommitInstallFails ==
    /\ proc = "up"
    /\ cm.pc = "verified"
    /\ \/ /\ tmp' \in {tmp \ {cm.seg}, tmp}
          /\ UNCHANGED segDirs
       \/ /\ tmp' = tmp \ {cm.seg}
          /\ segDirs' = Put(segDirs, cm.seg, TRUE)
    /\ cm' = NoCommit
    /\ UNCHANGED <<current, manifests, proc, rec, mem, nextSeg, faults, readErrs, acked>>

(* Mutant of NewManifest: the previous manifest's segments are not copied. *)
NewManifestWithoutBase(c) == [segs |-> {c.seg}, ok |-> TRUE]

(* buildManifest: the previous manifest's segments plus the new one.       *)
NewManifest(c) == [segs |-> c.base \cup {c.seg}, ok |-> TRUE]

(* Phase 5, WriteManifest: tmp/manifest_gen_N.json, rename into           *)
(* manifests/ (overwriting any stale file of that generation), fsync.      *)
CommitManifest ==
    /\ proc = "up"
    /\ cm.pc = "installed"
    /\ manifests' = Put(manifests, cm.gen, NewManifest(cm))
    /\ cm' = [cm EXCEPT !.pc = "manifested"]
    /\ UNCHANGED <<current, segDirs, tmp, proc, rec, mem, nextSeg, faults,
                   readErrs, acked>>

(* Mutant of CommitActivate: manifest.current is advanced as soon as the   *)
(* segment is installed, before (or instead of) the manifest write.        *)
CommitActivateEarly ==
    /\ proc = "up"
    /\ cm.pc \in {"installed", "manifested"}
    /\ current' = cm.gen
    /\ cm' = [cm EXCEPT !.pc = "activated"]
    /\ UNCHANGED <<manifests, segDirs, tmp, proc, rec, mem, nextSeg, faults,
                   readErrs, acked>>

(* Phase 6, WriteCurrentGeneration: tmp/manifest.next, rename to           *)
(* manifest.current, fsync the index root.                                 *)
CommitActivate ==
    /\ proc = "up"
    /\ cm.pc = "manifested"
    /\ current' = cm.gen
    /\ cm' = [cm EXCEPT !.pc = "activated"]
    /\ UNCHANGED <<manifests, segDirs, tmp, proc, rec, mem, nextSeg, faults,
                   readErrs, acked>>

(* Phases 5-6 fail with no rollback: either before the rename (nothing     *)
(* visible) or after it, when the fsync of the directory fails and the     *)
(* renamed file is in place although the commit reports an error.          *)
CommitPublishFails ==
    /\ proc = "up"
    /\ cm.pc \in {"installed", "manifested"}
    /\ \/ UNCHANGED <<manifests, current>>
       \/ /\ cm.pc = "installed"
          /\ manifests' = Put(manifests, cm.gen, NewManifest(cm))
          /\ UNCHANGED current
       \/ /\ cm.pc = "manifested"
          /\ current' = cm.gen
          /\ UNCHANGED manifests
    /\ cm' = NoCommit
    /\ UNCHANGED <<segDirs, tmp, proc, rec, mem, nextSeg, faults, readErrs, acked>>

(* The manifest IndexInstance.Commit adopts after a successful commit:     *)
(* LoadManifest(result.Generation), stored as currentManifest.             *)
AdoptedManifest(c) == [gen |-> c.gen, segs |-> manifests[c.gen].segs]

(* Phase 7, cleanup: RemoveDirContents(tmp/), errors only logged; then     *)
(* IndexInstance.Commit loads the new manifest and acknowledges the commit *)
(* or, if the load fails (missing or corrupt file, or a read error),      *)
(* returns an error with currentManifest unchanged.                        *)
CommitComplete ==
    /\ proc = "up"
    /\ cm.pc = "activated"
    /\ tmp' = {}
    /\ \/ /\ Loadable(cm.gen)
          /\ mem' = AdoptedManifest(cm)
          /\ acked' = acked \cup {[gen |-> cm.gen, seg |-> cm.seg]}
       \/ UNCHANGED <<mem, acked>>
    /\ cm' = NoCommit
    /\ UNCHANGED <<current, manifests, segDirs, proc, rec, nextSeg, faults, readErrs>>

-----------------------------------------------------------------------------
(* Recovery: recovery.Recover, run by openIndex when the process starts.   *)

(* A read recovery's steps 1-4 make that fails although the file is      *)
(* sound (EIO, EMFILE, ...): of manifest.current, of one manifest, or of a *)
(* file of one generation's segments; or none.                            *)
NoReadErr == [at |-> "none", gen |-> 0]
ReadErrs == {NoReadErr, [at |-> "current", gen |-> 0]}
            \cup [at : {"manifest", "segments"}, gen : Gens]

(* LoadManifest(g) returns a manifest: any error reading the file, like a  *)
(* missing file or a checksum mismatch, counts as a failed load.           *)
ManifestReads(g, e) == Loadable(g) /\ e # [at |-> "manifest", gen |-> g]

(* Mutant of SegmentsVerify: only the directories' existence is checked.   *)
SegmentsVerifyExistsOnly(g, e) ==
    /\ \A s \in manifests[g].segs : s \in DOMAIN segDirs
    /\ e # [at |-> "segments", gen |-> g]

(* step3VerifySegments finds no segment corrupt: every directory exists    *)
(* and VerifyFileChecksum returns nil for every file; its open or read     *)
(* error counts as a mismatch.                                             *)
SegmentsVerify(g, e) == Intact(g) /\ e # [at |-> "segments", gen |-> g]

(* step4HandleCorruptSegments: generations below `below`, from the newest, *)
(* whose manifest loads and whose segments all verify.                     *)
FallbackCandidates(below, e) ==
    {g \in 1..(below - 1) : ManifestReads(g, e) /\ SegmentsVerify(g, e)}

(* How step 4's WriteCurrentGeneration ends: it succeeds; it fails before  *)
(* its rename (manifest.current unchanged); or the rename is done and the  *)
(* fsync of the root fails.  Either failure is a hard error.               *)
RewriteOutcomes == {"ok", "notRenamed", "notSynced"}

(* Steps 1-4.  Step 1 reads manifest.current (an error other than a        *)
(* missing file is fatal); generation 0 goes straight to step 5.  Step 2   *)
(* (LoadManifestWithFallback) takes the newest manifest at or below it     *)
(* that loads; step 3 verifies its segments; step 4, if any is corrupt,    *)
(* takes the newest earlier generation that loads and verifies and         *)
(* rewrites manifest.current to it.  No manifest, no such generation, or a *)
(* failed rewrite is a hard error: the index is not loaded.                *)
RecoverSelect ==
    /\ proc = "recovering"
    /\ rec.step = "select"
    /\ \E e \in IF readErrs < MaxReadErrs THEN ReadErrs ELSE {NoReadErr} :
         LET loadable == {g \in 1..current : ManifestReads(g, e)}
             g1 == Max(loadable)
             cands == FallbackCandidates(g1, e)
             g2 == Max(cands)
             Chosen(g, fb) == [step |-> "cleanTmp", gen |-> g,
                               segs |-> manifests[g].segs, fellBack |-> fb]
         IN
         /\ readErrs' = IF e = NoReadErr THEN readErrs ELSE readErrs + 1
         /\ \/ /\ current # 0 /\ e.at = "current"
               /\ proc' = "failed"
               /\ UNCHANGED <<current, rec>>
            \/ /\ current = 0 /\ e.at # "current"
               /\ rec' = [NoRec EXCEPT !.step = "cleanTmp"]
               /\ UNCHANGED <<current, proc>>
            \/ /\ current # 0 /\ e.at # "current"
               /\ loadable = {}
               /\ proc' = "failed"
               /\ UNCHANGED <<current, rec>>
            \/ /\ current # 0 /\ e.at # "current"
               /\ loadable # {}
               /\ SegmentsVerify(g1, e)
               /\ rec' = Chosen(g1, g1 # current)
               /\ UNCHANGED <<current, proc>>
            \/ /\ current # 0 /\ e.at # "current"
               /\ loadable # {}
               /\ ~SegmentsVerify(g1, e)
               /\ cands = {}
               /\ proc' = "failed"
               /\ UNCHANGED <<current, rec>>
            \/ /\ current # 0 /\ e.at # "current"
               /\ loadable # {}
               /\ ~SegmentsVerify(g1, e)
               /\ cands # {}
               /\ \E w \in RewriteOutcomes :
                     /\ current' = IF w = "notRenamed" THEN current ELSE g2
                     /\ IF w = "ok" THEN rec' = Chosen(g2, TRUE) /\ UNCHANGED proc
                                    ELSE proc' = "failed" /\ UNCHANGED rec
    /\ UNCHANGED <<manifests, segDirs, tmp, mem, cm, nextSeg, faults, acked>>

(* Step 5: RemoveDirContents(tmp/).  For generation 0 Recover returns      *)
(* here, with no orphan or manifest cleanup.                               *)
RecoverCleanTmp ==
    /\ proc = "recovering"
    /\ rec.step = "cleanTmp"
    /\ tmp' = {}
    /\ IF rec.gen = 0
          THEN /\ proc' = "up"
               /\ mem' = [gen |-> 0, segs |-> {}]
               /\ UNCHANGED rec
          ELSE /\ rec' = [rec EXCEPT !.step = "orphans"]
               /\ UNCHANGED <<proc, mem>>
    /\ UNCHANGED <<current, manifests, segDirs, cm, nextSeg, faults, readErrs, acked>>

(* Steps 6-7: every directory in segments/ that the chosen manifest does   *)
(* not list is removed.                                                    *)
RecoverOrphans ==
    /\ proc = "recovering"
    /\ rec.step = "orphans"
    /\ segDirs' = [s \in DOMAIN segDirs \cap rec.segs |-> segDirs[s]]
    /\ rec' = [rec EXCEPT !.step = "prune"]
    /\ UNCHANGED <<current, manifests, tmp, proc, mem, cm, nextSeg, faults,
                   readErrs, acked>>

(* step8CleanOldManifests: the manifest files kept, the 1 + retention      *)
(* highest generation numbers found in manifests/.                         *)
KeptManifests(files) ==
    {g \in files : Cardinality({h \in files : h > g}) < 1 + ManifestRetention}

(* Step 8, then step 9: Recover returns and openIndex adopts the chosen    *)
(* manifest.                                                               *)
RecoverPrune ==
    /\ proc = "recovering"
    /\ rec.step = "prune"
    /\ manifests' = Drop(manifests, DOMAIN manifests \ KeptManifests(DOMAIN manifests))
    /\ proc' = "up"
    /\ mem' = [gen |-> rec.gen, segs |-> rec.segs]
    /\ UNCHANGED <<current, segDirs, tmp, rec, cm, nextSeg, faults, readErrs, acked>>

-----------------------------------------------------------------------------
(* Environment: crashes, restarts, and files rotting on disk.              *)

(* The process dies: everything in memory is lost, the disk stays.         *)
Crash ==
    /\ proc \in {"up", "recovering"}
    /\ proc' = "down"
    /\ cm' = NoCommit
    /\ rec' = NoRec
    /\ mem' = [gen |-> 0, segs |-> {}]
    /\ UNCHANGED <<current, manifests, segDirs, tmp, nextSeg, faults, readErrs, acked>>

(* The process starts (or is restarted after a failed open): recovery.     *)
Restart ==
    /\ proc \in {"down", "failed"}
    /\ proc' = "recovering"
    /\ rec' = NoRec
    /\ UNCHANGED <<current, manifests, segDirs, tmp, mem, cm, nextSeg, faults,
                   readErrs, acked>>

(* A manifest file or a segment file no longer matches its checksum; the   *)
(* damage is found by the next recovery.                                   *)
Rot ==
    /\ proc = "down"
    /\ faults < MaxFaults
    /\ faults' = faults + 1
    /\ \/ \E g \in DOMAIN manifests :
             /\ manifests[g].ok
             /\ manifests' = [manifests EXCEPT ![g].ok = FALSE]
             /\ UNCHANGED segDirs
       \/ \E s \in DOMAIN segDirs :
             /\ segDirs[s]
             /\ segDirs' = [segDirs EXCEPT ![s] = FALSE]
             /\ UNCHANGED manifests
    /\ UNCHANGED <<current, tmp, proc, rec, mem, cm, nextSeg, readErrs, acked>>

Next ==
    \/ CommitPrepare \/ CommitWrite \/ CommitVerify \/ CommitStagingFails
    \/ CommitInstall \/ CommitInstallFails \/ CommitManifest
    \/ CommitActivate \/ CommitPublishFails \/ CommitComplete
    \/ RecoverSelect \/ RecoverCleanTmp \/ RecoverOrphans \/ RecoverPrune
    \/ Crash \/ Restart \/ Rot

Spec == Init /\ [][Next]_vars

-----------------------------------------------------------------------------
(* The commits acknowledged to the client (POST /commit answered 200) are *)
(* in the active manifest with their segment directories intact.          *)
AckedInActive ==
    \A a \in acked :
        /\ current \in DOMAIN manifests
        /\ a.seg \in manifests[current].segs
        /\ a.seg \in DOMAIN segDirs /\ segDirs[a.seg]

(* With no file rotted and no read error in recovery, manifest.current     *)
(* names a manifest that loads and whose segments are all installed and    *)
(* intact, whatever crashes and I/O errors hit commits and recoveries:     *)
(* segments are installed before the manifest that lists them, the        *)
(* manifest before manifest.current, and recovery's orphan and manifest    *)
(* cleanup never removes what it points to.                                *)
CurrentIsLoadable ==
    faults = 0 /\ readErrs = 0 =>
        (current = 0 \/ (Loadable(current) /\ Intact(current)))

(* With no file rotted and no read error in recovery, every acknowledged   *)
(* commit stays in the active manifest with its segment intact, across     *)
(* crashes, recoveries, and later commits that fail half way.              *)
AckedDurable == faults = 0 /\ readErrs = 0 => AckedInActive

(* Spec 5.1: a commit that returned success is durable, and recovery falls *)
(* back only from a corrupt or missing file (steps 2 and 4).  So with no   *)
(* file rotted, a transient read error in recovery must not cost an        *)
(* acknowledged commit.                                                    *)
AckedSurvivesReadErrors == faults = 0 => AckedInActive

(* While the index is open, every segment of the manifest it serves from   *)
(* is on disk and intact, whatever rotted and whatever reads failed: a     *)
(* generation recovery opens was verified in step 3 or 4, steps 6-7 remove *)
(* only what it does not list, and a commit adopts only installed segments.*)
ServedSegmentsIntact ==
    proc = "up" => \A s \in mem.segs : s \in DOMAIN segDirs /\ segDirs[s]

(* Spec 5.8 keeps the current manifest and ManifestRetention predecessors: *)
(* the manifest recovery has just loaded is still on disk when the index   *)
(* opens, so the next restart can load it again.                           *)
RecoveredManifestKept ==
    proc = "up" /\ mem.gen # 0 => mem.gen \in DOMAIN manifests

(* A recovery run that ends with the index open.                          *)
Opened == proc = "recovering" /\ proc' = "up"

(* Spec scenario 3: when step 2 falls back past a corrupt newest manifest, *)
(* recovery rewrites manifest.current to the generation it loaded, so the  *)
(* generation the index opens at is the one on disk.                       *)
FallbackRewritesCurrent ==
    [][Opened => current' = mem'.gen]_vars

(* Spec scenario 2: after a crash between install and manifest, recovery   *)
(* removes the installed directory as an orphan "at the prior generation   *)
(* (or 0)": when the index opens, segments/ holds only what its manifest   *)
(* lists.                                                                  *)
OrphansRemovedByRecovery ==
    [][Opened => DOMAIN segDirs' \subseteq mem'.segs]_vars

=============================================================================
