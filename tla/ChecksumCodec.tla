---------------------------- MODULE ChecksumCodec ----------------------------
(***************************************************************************)
(* The self-checksummed JSON files of an index: the manifest              *)
(* (MarshalManifest/UnmarshalManifest, unnamed/part_010), schema.json      *)
(* (MarshalSchema/UnmarshalSchema) and a segment's meta.json               *)
(* (MarshalSegmentInfo/UnmarshalSegmentInfo).  Each stores a Checksum      *)
(* field holding the SHA-256 of the struct's own JSON with that field      *)
(* blanked; compute...Checksum blanks it in the caller's struct and puts   *)
(* it back in a defer, and Marshal then stores the result in the struct.   *)
(*                                                                         *)
(* A struct is abstracted to one value for the fields nothing reorders     *)
(* (body), its list (the manifest's Segments, the schema's Fields, the     *)
(* segment info's FieldStats map) and Checksum.  JSON is the sequence of   *)
(* (key, value) pairs MarshalIndent writes; a map is written in key order. *)
(* SHA-256 is taken to be collision-free: a digest is a record holding the *)
(* bytes it was computed over.  A file may be replaced by garbage, or one  *)
(* of its values changed or its list reordered, at most MaxRots times.     *)
(***************************************************************************)
EXTENDS Naturals, Sequences, TLC

CONSTANTS
    Bodies,     \* values of the fields other than the list and Checksum
    Items,      \* elements of the list: segment ids, fields or stat keys
    MaxRots     \* files damaged on disk in one behaviour

LOCAL SeqExt == INSTANCE SequencesExt

Kinds == {"manifest", "schema", "segmentInfo"}
Lists == UNION {SeqExt!SetToSeqs(S) : S \in SUBSET Items}

(* storage.ComputeChecksum: "sha256:" and the digest of the bytes.         *)
ComputeChecksum(data) == [sha256 |-> data]

(* A Checksum a client may put in a posted schema, which json.Unmarshal    *)
(* copies into Schema.Checksum like any other field.                       *)
(* The empty Checksum and the posted one are kept apart from every digest. *)
Blank == [blank |-> TRUE]
Posted == [posted |-> TRUE]
Checksums == {Blank, Posted}

(* json.MarshalIndent: the struct's fields in declaration order; a map's   *)
(* keys (SegmentInfo.FieldStats) in sorted order.                          *)
Marshal(kind, r) ==
    << <<"body", r.body>>,
       <<"list", IF kind = "segmentInfo" THEN SortSeq(r.list, <) ELSE r.list>>,
       <<"checksum", r.checksum>> >>

(* json.Unmarshal: the garbage file is a syntax error; a JSON object read  *)
(* into a map keeps no order.                                              *)
Garbage == <<"{">>
Unmarshal(kind, data) ==
    [body |-> data[1][2],
     list |-> IF kind = "segmentInfo" THEN SortSeq(data[2][2], <) ELSE data[2][2],
     checksum |-> data[3][2]]

(* sortSegments: sort.Slice by segment id, in place.                       *)
SortSegments(list) == SortSeq(list, <)

(* Mutant of ComputeRecordChecksum: Checksum is not blanked, so the       *)
(* digest covers whatever the struct held before.                          *)
ComputeRecordChecksumNoBlank(kind, r) ==
    LET sorted == IF kind = "manifest" THEN [r EXCEPT !.list = SortSegments(@)]
                                       ELSE r
    IN  [sum |-> ComputeChecksum(Marshal(kind, sorted)), rec |-> sorted]

(* Mutant of ComputeRecordChecksum: the defer that puts Checksum back is   *)
(* missing.                                                                *)
ComputeRecordChecksumNoRestore(kind, r) ==
    LET sorted == IF kind = "manifest" THEN [r EXCEPT !.list = SortSegments(@)]
                                       ELSE r
    IN  [sum |-> ComputeChecksum(Marshal(kind, [sorted EXCEPT !.checksum = Blank])),
         rec |-> [sorted EXCEPT !.checksum = Blank]]

(* compute...Checksum of the struct r: the digest of its JSON with         *)
(* Checksum blanked; computeManifestChecksum sorts r.Segments in place     *)
(* first.  Returns the checksum and r as the call leaves it (Checksum put  *)
(* back by the defer).                                                     *)
ComputeRecordChecksum(kind, r) ==
    LET sorted == IF kind = "manifest" THEN [r EXCEPT !.list = SortSegments(@)]
                                       ELSE r
    IN  [sum |-> ComputeChecksum(Marshal(kind, [sorted EXCEPT !.checksum = Blank])),
         rec |-> sorted]

(* Marshal...: MarshalManifest sorts the segments, then the checksum is    *)
(* stored in the caller's struct and the struct is encoded.                *)
MarshalRecord(kind, r) ==
    LET pre == IF kind = "manifest" THEN [r EXCEPT !.list = SortSegments(@)] ELSE r
        c   == ComputeRecordChecksum(kind, pre)
        out == [c.rec EXCEPT !.checksum = c.sum]
    IN  [rec |-> out, data |-> Marshal(kind, out)]

(* What a Load returns besides a struct: nothing yet, or any error.        *)
NoLoad == [load |-> "none"]
LoadError == [load |-> "error"]

(* Unmarshal...: parse, then compare the stored checksum with one computed *)
(* over the parsed struct; the struct returned is as the computation left  *)
(* it.                                                                     *)
UnmarshalRecord(kind, data) ==
    IF data = Garbage THEN LoadError
    ELSE LET r == Unmarshal(kind, data)
             c == ComputeRecordChecksum(kind, r)
         IN  IF c.sum # r.checksum THEN LoadError ELSE c.rec

MarshalManifest(r) == MarshalRecord("manifest", r)
UnmarshalManifest(data) == UnmarshalRecord("manifest", data)
MarshalSchema(r) == MarshalRecord("schema", r)
UnmarshalSchema(data) == UnmarshalRecord("schema", data)
MarshalSegmentInfo(r) == MarshalRecord("segmentInfo", r)
UnmarshalSegmentInfo(data) == UnmarshalRecord("segmentInfo", data)

VARIABLES
    kind,       \* which of the three files
    obj,        \* the caller's struct
    file,       \* the file's bytes, or <<>> before the first write
    written,    \* the struct as the last Write left it
    loaded,     \* what the last Load returned: NoLoad, LoadError or a struct
    damaged,    \* the file was damaged since the last Write
    rots        \* files damaged so far

cdVars == <<kind, obj, file, written, loaded, damaged, rots>>

Structs == [body : Bodies, list : Lists, checksum : Checksums \cup
              {ComputeChecksum(Marshal(k, [body |-> b, list |-> l, checksum |-> Blank])) :
                 k \in Kinds, b \in Bodies, l \in Lists}]

TypeOK ==
    /\ kind \in Kinds
    /\ obj \in Structs /\ written \in Structs
    /\ loaded \in {NoLoad, LoadError} \cup Structs
    /\ damaged \in BOOLEAN /\ rots \in 0..MaxRots

(* The caller's struct: buildManifest's new Manifest, the Schema a client  *)
(* posted (its Checksum whatever the request held), or a new SegmentInfo,  *)
(* whose map has no order.                                                 *)
NewStruct(k) ==
    [body : Bodies,
     list : IF k = "segmentInfo" THEN {SortSeq(l, <) : l \in Lists} ELSE Lists,
     checksum : IF k = "schema" THEN Checksums ELSE {Blank}]

Init ==
    /\ kind \in Kinds
    /\ obj \in NewStruct(kind)
    /\ file = <<>> /\ written = obj
    /\ loaded = NoLoad /\ damaged = FALSE /\ rots = 0

(* Writing the bytes m.data that Marshal returned; the struct keeps what   *)
(* Marshal stored in it.                                                   *)
Write(m) ==
    /\ obj' = m.rec /\ written' = m.rec /\ file' = m.data
    /\ loaded' = NoLoad /\ damaged' = FALSE
    /\ UNCHANGED <<kind, rots>>

(* WriteManifest: AtomicWriteFile of MarshalManifest's bytes.              *)
WriteManifest == kind = "manifest" /\ Write(MarshalManifest(obj))

(* WriteSchema: a tmp file renamed over schema.json.                       *)
WriteSchema == kind = "schema" /\ Write(MarshalSchema(obj))

(* WriteSegmentInfo: WriteFileSync of meta.json.                           *)
WriteSegmentInfo == kind = "segmentInfo" /\ Write(MarshalSegmentInfo(obj))

(* Reading the file and returning what Unmarshal made of it.               *)
Load(result) ==
    /\ file # <<>>
    /\ loaded' = result
    /\ UNCHANGED <<kind, obj, file, written, damaged, rots>>

LoadManifest == kind = "manifest" /\ Load(UnmarshalManifest(file))
LoadSchema == kind = "schema" /\ Load(UnmarshalSchema(file))
LoadSegmentInfo == kind = "segmentInfo" /\ Load(UnmarshalSegmentInfo(file))

(* The files one damage can turn the bytes d into.                          *)
Damaged(d) ==
    {Garbage}
    \cup {[d EXCEPT ![1][2] = b] : b \in Bodies \ {d[1][2]}}
    \cup {[d EXCEPT ![2][2] = l] : l \in Lists \ {d[2][2]}}
    \cup {[d EXCEPT ![3][2] = c] : c \in Checksums \ {d[3][2]}}

Rot ==
    /\ file # <<>> /\ file # Garbage /\ rots < MaxRots
    /\ file' \in Damaged(file)
    /\ damaged' = TRUE /\ rots' = rots + 1
    /\ UNCHANGED <<kind, obj, written, loaded>>

Next ==
    \/ WriteManifest \/ WriteSchema \/ WriteSegmentInfo
    \/ LoadManifest \/ LoadSchema \/ LoadSegmentInfo
    \/ Rot

Spec == Init /\ [][Next]_cdVars

-----------------------------------------------------------------------------
(* A load of a file as it was written succeeds: the checksum Marshal       *)
(* stored verifies against the parsed struct, whatever Checksum the        *)
(* caller's struct held and however often it was written.                  *)
IntactFileLoads ==
    (loaded # NoLoad /\ ~damaged) => loaded # LoadError

(* A load returns an error or exactly the struct the last write stored,    *)
(* Checksum included, even after a file was damaged.                       *)
LoadReturnsWritten ==
    loaded \notin {NoLoad, LoadError} => loaded = written

=============================================================================
