---------------------------- MODULE IndexRegistry ----------------------------
(***************************************************************************)
(* The server's IndexManager (unnamed/part_011): the registry of loaded    *)
(* indexes, CreateIndex and DeleteIndex under m.mu, and the start-up scan  *)
(* (NewIndexManager, loadExistingIndexes, openIndex) that rebuilds the     *)
(* registry from the index directories on disk after a crash.              *)
(*                                                                         *)
(* An index directory is abstracted to its top-level entries.  os.RemoveAll*)
(* removes them one at a time in directory order, which the code does not  *)
(* fix, and may fail part-way; the process may crash between any two of   *)
(* these steps.  WriteSchema (tmp file, rename, FsyncDir) is one atomic    *)
(* step.  A commit is one atomic step writing manifest.current; its phases *)
(* and failures are CommitRecovery's subject.  Each CreateIndex call is an *)
(* incarnation of its name, numbered 1..MaxCreates, so that what is on     *)
(* disk can be traced to the call that wrote it.                           *)
(***************************************************************************)
EXTENDS Naturals, FiniteSets

CONSTANTS
    Names,          \* index names clients use
    MaxCreates,     \* CreateIndex calls that may succeed in a behaviour
    MaxGen          \* commits per incarnation

(* The entries IndexDir.EnsureDirectories, WriteSchema and a commit put in *)
(* an index root.                                                          *)
SubDirs == {"segments", "manifests", "tmp"}
Entries == SubDirs \cup {"schema.json", "manifest.current"}

NoIndex == [inc |-> 0, gen |-> 0, data |-> 0]
Idle == [kind |-> "idle", name |-> CHOOSE n \in Names : TRUE]

VARIABLES
    root,       \* root[n]: the directory indexes/<n> exists
    files,      \* files[n]: the entries inside it
    schemaOf,   \* schemaOf[n]: the incarnation whose schema.json is there
    currentOf,  \* currentOf[n]: [inc, gen] that manifest.current names
    indexes,    \* IndexManager.indexes: n -> [inc, gen, data] or NoIndex
                \* (data: the incarnation whose commit the instance opened at)
    op,         \* the CreateIndex or DeleteIndex holding m.mu, if any
    up,         \* the process is running
    creates     \* CreateIndex calls that got past validation so far

vars == <<root, files, schemaOf, currentOf, indexes, op, up, creates>>

Instances == [inc : 0..MaxCreates, gen : 0..MaxGen, data : 0..MaxCreates]

TypeOK ==
    /\ root \in [Names -> BOOLEAN]
    /\ files \in [Names -> SUBSET Entries]
    /\ schemaOf \in [Names -> 0..MaxCreates]
    /\ currentOf \in [Names -> [inc : 0..MaxCreates, gen : 0..MaxGen]]
    /\ indexes \in [Names -> Instances]
    /\ op \in [kind : {"idle", "create", "delete", "cleanup"}, name : Names]
    /\ up \in BOOLEAN
    /\ creates \in 0..MaxCreates

Registered(n) == indexes[n] # NoIndex

Init ==
    /\ root = [n \in Names |-> FALSE]
    /\ files = [n \in Names |-> {}]
    /\ schemaOf = [n \in Names |-> 0]
    /\ currentOf = [n \in Names |-> [inc |-> 0, gen |-> 0]]
    /\ indexes = [n \in Names |-> NoIndex]
    /\ op = Idle
    /\ up = TRUE
    /\ creates = 0

-----------------------------------------------------------------------------
(* CreateIndex up to WriteSchema: the name is free, the schema validates,  *)
(* and EnsureDirectories makes the root and its three subdirectories.      *)
CreateIndex(n) ==
    /\ up /\ op = Idle
    /\ ~Registered(n)
    /\ creates < MaxCreates
    /\ root' = [root EXCEPT ![n] = TRUE]
    /\ files' = [files EXCEPT ![n] = @ \cup SubDirs]
    /\ creates' = creates + 1
    /\ op' = [kind |-> "create", name |-> n]
    /\ UNCHANGED <<schemaOf, currentOf, indexes, up>>

(* WriteSchema succeeds and the new instance, at generation 0 with no      *)
(* manifest, is registered.                                                *)
CreateRegister ==
    LET n == op.name IN
    /\ up /\ op.kind = "create"
    /\ files' = [files EXCEPT ![n] = @ \cup {"schema.json"}]
    /\ schemaOf' = [schemaOf EXCEPT ![n] = creates]
    /\ indexes' = [indexes EXCEPT ![n] = [inc |-> creates, gen |-> 0, data |-> 0]]
    /\ op' = Idle
    /\ UNCHANGED <<root, currentOf, up, creates>>

(* WriteSchema fails, before its rename or (FsyncDir) after it, and       *)
(* os.RemoveAll(idxDir.Root) cleans up.                                    *)
CreateSchemaFails ==
    LET n == op.name IN
    /\ up /\ op.kind = "create"
    /\ \E renamed \in BOOLEAN :
          /\ files' = IF renamed THEN [files EXCEPT ![n] = @ \cup {"schema.json"}]
                                ELSE files
          /\ schemaOf' = IF renamed THEN [schemaOf EXCEPT ![n] = creates]
                                   ELSE schemaOf
    /\ op' = [op EXCEPT !.kind = "cleanup"]
    /\ UNCHANGED <<root, currentOf, indexes, up, creates>>

(* DeleteIndex: the name is registered and no snapshot is active (readers  *)
(* are not modelled, so ActiveSnapshotCount is 0); os.RemoveAll starts.    *)
DeleteIndex(n) ==
    /\ up /\ op = Idle
    /\ Registered(n)
    /\ op' = [kind |-> "delete", name |-> n]
    /\ UNCHANGED <<root, files, schemaOf, currentOf, indexes, up, creates>>

(* os.RemoveAll removes one entry of the root, in whatever order the       *)
(* directory lists them.                                                   *)
RemoveEntry(e) ==
    /\ up /\ op.kind \in {"delete", "cleanup"}
    /\ e \in files[op.name]
    /\ files' = [files EXCEPT ![op.name] = @ \ {e}]
    /\ UNCHANGED <<root, schemaOf, currentOf, indexes, op, up, creates>>

(* os.RemoveAll removes the emptied root and returns nil; DeleteIndex then *)
(* drops the name from the registry.                                       *)
RemoveDone ==
    LET n == op.name IN
    /\ up /\ op.kind \in {"delete", "cleanup"}
    /\ files[n] = {}
    /\ root' = [root EXCEPT ![n] = FALSE]
    /\ indexes' = IF op.kind = "delete"
                    THEN [indexes EXCEPT ![n] = NoIndex] ELSE indexes
    /\ op' = Idle
    /\ UNCHANGED <<files, schemaOf, currentOf, up, creates>>

(* os.RemoveAll returns an error part-way: DeleteIndex returns it with the *)
(* index still registered; CreateIndex ignores it.                         *)
RemoveFails ==
    /\ up /\ op.kind \in {"delete", "cleanup"}
    /\ op' = Idle
    /\ UNCHANGED <<root, files, schemaOf, currentOf, indexes, up, creates>>

(* IndexInstance.Commit, which takes no IndexManager lock: phase 2's      *)
(* MkdirAll recreates tmp/, but the renames into segments/ and manifests/ *)
(* need those directories, so it succeeds only while they exist.           *)
Commit(n) ==
    /\ up /\ Registered(n)
    /\ indexes[n].gen < MaxGen
    /\ root[n] /\ {"segments", "manifests"} \subseteq files[n]
    /\ files' = [files EXCEPT ![n] = @ \cup {"tmp", "manifest.current"}]
    /\ currentOf' = [currentOf EXCEPT ![n] =
                        [inc |-> indexes[n].inc, gen |-> indexes[n].gen + 1]]
    /\ indexes' = [indexes EXCEPT ![n] =
                        [@ EXCEPT !.gen = @ + 1, !.data = indexes[n].inc]]
    /\ UNCHANGED <<root, schemaOf, op, up, creates>>

Crash ==
    /\ up
    /\ up' = FALSE
    /\ indexes' = [n \in Names |-> NoIndex]
    /\ op' = Idle
    /\ UNCHANGED <<root, files, schemaOf, currentOf, creates>>

(* openIndex(n): LoadSchema must succeed, or loadExistingIndexes logs the  *)
(* error and skips the name; Recover opens manifest.current's generation,  *)
(* or generation 0 when the file is missing.  With manifest.current there, *)
(* Recover fails (and the name is skipped) unless manifests/ and          *)
(* segments/ are there too.                                                *)
Openable(n) ==
    /\ "schema.json" \in files[n]
    /\ "manifest.current" \in files[n] => {"segments", "manifests"} \subseteq files[n]

Opened(n) ==
    IF "manifest.current" \in files[n]
      THEN [inc |-> schemaOf[n], gen |-> currentOf[n].gen,
            data |-> currentOf[n].inc]
      ELSE [inc |-> schemaOf[n], gen |-> 0, data |-> 0]

(* RootDir.ListIndexes: storage.ListSubdirs of indexes/.                  *)
Listed == {n \in Names : root[n]}

(* NewIndexManager: loadExistingIndexes opens every listed directory.      *)
Restart ==
    /\ ~up
    /\ up' = TRUE
    /\ indexes' = [n \in Names |->
                     IF n \in Listed /\ Openable(n)
                       THEN Opened(n) ELSE NoIndex]
    /\ UNCHANGED <<root, files, schemaOf, currentOf, op, creates>>

Next ==
    \/ \E n \in Names : CreateIndex(n) \/ DeleteIndex(n) \/ Commit(n)
    \/ CreateRegister \/ CreateSchemaFails
    \/ \E e \in Entries : RemoveEntry(e)
    \/ RemoveDone \/ RemoveFails
    \/ Crash \/ Restart

Spec == Init /\ [][Next]_vars

-----------------------------------------------------------------------------
(* An index the registry serves was opened at a generation its own         *)
(* incarnation committed: after DeleteIndex and CreateIndex of the same    *)
(* name and any crashes, openIndex never pairs the new schema with the     *)
(* deleted index's manifest.current.                                       *)
NoResurrection ==
    \A n \in Names : Registered(n) => indexes[n].data \in {0, indexes[n].inc}

=============================================================================
