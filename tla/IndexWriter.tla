----------------------------- MODULE IndexWriter -----------------------------
(***************************************************************************)
(* The index Writer (declared in src/Dockerfile, package indexing) over    *)
(* its WriteBuffer (src/internal/indexing/buffer.go).  AddDocuments,       *)
(* DeleteDocument, Abort and Release each run under w.mu, so each is one   *)
(* step.  AddDocuments holds no lock: it calls AddDocument for each       *)
(* document in turn, so other callers' steps fall between its documents;  *)
(* it stops at the first failing one and keeps what it has already        *)
(* written, as the code does.  Each document is chosen when AddDocument   *)
(* takes it, which admits every batch.  Field values are decoded          *)
(* JSON: a string (a byte sequence of Analysis's alphabet), the number 1,  *)
(* or an array of such values.  The registry is NewRegistry's: nothing in *)
(* src/ calls Register.                                                    *)
(***************************************************************************)
EXTENDS Integers, Sequences, SequencesExt, FiniteSets

CONSTANTS ExtIds,        \* external ids a document may carry
          SchemaFields,  \* w.schema.Fields: a sequence of FieldDefs
          DefaultAnalyzer, \* w.schema.DefaultAnalyzer
          FieldValues,   \* field name -> the values a document may give it
          MaxDocsFed     \* documents passed to AddDocuments at most

VARIABLES buf,       \* w.buffer
          active,    \* w.active
          wErr,      \* the error of the last call, "nil" if none
          accepted,  \* internal doc id -> the document AddDocument returned nil for
          fed,       \* documents passed to AddDocuments so far
          pending    \* documents the running AddDocuments call has still to add

wVars == <<buf, active, wErr, accepted, fed, pending>>

(* The analyzers, whose tokens indexTextField counts.                     *)
LOCAL An == INSTANCE Analysis WITH MaxText <- 0, analyzers <- <<>>, text <- <<>>,
                                  lastName <- "none", lastTokens <- <<>>, lastErr <- "none"

Num == [k |-> "num"]
Str(s) == [k |-> "str", s |-> s]
NoId == "none"   \* a document without a string "id"
FieldNamesOf == {SchemaFields[i].name : i \in 1..Len(SchemaFields)}

(* The documents a client may post: an id and some of the schema's fields. *)
Documents == {[id |-> i, fields |-> f] :
                i \in ExtIds \cup {NoId},
                f \in {g \in UNION {[D -> UNION {FieldValues[n] : n \in D}] : D \in SUBSET FieldNamesOf} :
                        \A n \in DOMAIN g : g[n] \in FieldValues[n]}}
-----------------------------------------------------------------------------
(* NewWriteBuffer.                                                         *)
EmptyBuffer == [postings |-> <<>>, stored |-> <<>>, extToInt |-> <<>>,
                deletions |-> {}, nextDocID |-> 0, docCount |-> 0,
                termCount |-> 0, memoryUsed |-> 0]

(* AddPosting: a (field, term) list is created on first use, which counts *)
(* a term; the entry is appended and its approximate size accounted.      *)
AddPosting(b, field, term, docID, freq, positions) ==
    LET key == <<field, term>>
        new == key \notin DOMAIN b.postings
        entry == [doc |-> docID, freq |-> freq, positions |-> positions]
    IN [b EXCEPT !.postings = IF new THEN (key :> <<entry>>) @@ b.postings
                              ELSE [b.postings EXCEPT ![key] = Append(@, entry)],
                 !.termCount = IF new THEN @ + 1 ELSE @,
                 !.memoryUsed = @ + 16 + Len(positions) * 4]

(* StoreField: the value under docID and field, its bytes accounted.      *)
StoreField(b, docID, field, value) ==
    [b EXCEPT !.stored = (<<docID, field>> :> value) @@ b.stored,
              !.memoryUsed = @ + Len(value) + Len(field)]

(* AllocateDocID: an external id already in the buffer is refused.       *)
AllocateDocID(b, ext) ==
    IF ext \in DOMAIN b.extToInt THEN [b |-> b, err |-> "duplicate"]
    ELSE [b |-> [b EXCEPT !.nextDocID = @ + 1, !.docCount = @ + 1,
                          !.extToInt = (ext :> b.nextDocID) @@ b.extToInt],
          err |-> "nil"]

(* Mutant: Reset forgets to clear the term count.                         *)
ResetKeepingTerms(b) == [EmptyBuffer EXCEPT !.termCount = b.termCount]

(* Reset: every map and counter back to NewWriteBuffer's.                 *)
Reset(b) == EmptyBuffer
-----------------------------------------------------------------------------
(* marshalFieldValue: a string as its bytes, anything else as JSON.       *)
RECURSIVE Marshal(_)
Marshal(v) ==
    CASE v.k = "str" -> v.s
      [] v.k = "num" -> <<"1">>
      [] v.k = "arr" ->
           LET q(x) == IF x.k = "str" THEN <<"\"">> \o x.s \o <<"\"">> ELSE Marshal(x)
           IN <<"[">> \o FoldLeftDomain(LAMBDA acc, k : acc \o (IF k = 1 THEN <<>> ELSE <<",">>)
                                                            \o q(v.items[k]),
                                        <<>>, v.items) \o <<"]">>

(* The analyzer a text field uses: its own, the schema's default, then    *)
(* "standard".                                                            *)
AnalyzerName(fd) ==
    IF fd.analyzer # "" THEN fd.analyzer
    ELSE IF DefaultAnalyzer # "" THEN DefaultAnalyzer ELSE "standard"

(* Mutant: one posting per token instead of one per distinct term.       *)
IndexTokensEach(b, fd, docID, toks) ==
    FoldLeft(LAMBDA acc, t : AddPosting(acc, fd.name, t.term, docID, 1,
                                        IF fd.positions THEN <<t.position>> ELSE <<>>),
             b, toks)

(* The term frequencies and, when the field keeps positions, the token    *)
(* positions of each term; a posting per distinct term (map order does   *)
(* not matter: each term has its own list).                              *)
IndexTokens(b, fd, docID, toks) ==
    LET terms == {toks[k].term : k \in 1..Len(toks)}
        at(t) == SelectSeq(toks, LAMBDA x : x.term = t)
        posOf(t) == IF fd.positions THEN [k \in 1..Len(at(t)) |-> at(t)[k].position] ELSE <<>>
    IN FoldSet(LAMBDA t, acc : AddPosting(acc, fd.name, t, docID, Len(at(t)), posOf(t)),
               b, terms)

(* indexTextField: the value must be a string and the analyzer known.     *)
IndexTextField(b, fd, docID, v) ==
    CASE v.k # "str" -> [b |-> b, err |-> "not_string"]
      [] AnalyzerName(fd) \notin An!Kinds -> [b |-> b, err |-> "unknown_analyzer"]
      [] OTHER -> [b |-> IndexTokens(b, fd, docID, An!AnalyzeWith(AnalyzerName(fd), v.s)),
                   err |-> "nil"]

(* indexKeywordField: a string is one term; an array is one term per item *)
(* in order, a non-string item failing after the earlier ones are added.  *)
IndexKeywordField(b, fd, docID, v) ==
    CASE v.k = "str" -> [b |-> AddPosting(b, fd.name, v.s, docID, 1, <<>>), err |-> "nil"]
      [] v.k = "arr" /\ ~fd.multiValued -> [b |-> b, err |-> "not_multi_valued"]
      [] v.k = "arr" ->
           FoldLeft(LAMBDA r, x : IF r.err # "nil" THEN r
                                  ELSE IF x.k # "str" THEN [r EXCEPT !.err = "item_not_string"]
                                  ELSE [r EXCEPT !.b = AddPosting(@, fd.name, x.s, docID, 1, <<>>)],
                    [b |-> b, err |-> "nil"], v.items)
      [] OTHER -> [b |-> b, err |-> "keyword_type"]

(* One field of AddDocument's loop: skip an absent field, index by type,  *)
(* then store the marshalled value when the field is stored.             *)
ProcessField(b, fd, docID, doc) ==
    IF fd.name \notin DOMAIN doc.fields THEN [b |-> b, err |-> "nil"]
    ELSE LET v == doc.fields[fd.name]
             r == CASE fd.type = "text" -> IndexTextField(b, fd, docID, v)
                    [] fd.type = "keyword" -> IndexKeywordField(b, fd, docID, v)
                    [] OTHER -> [b |-> b, err |-> "nil"]
         IN IF r.err # "nil" \/ ~fd.stored THEN r
            ELSE [r EXCEPT !.b = StoreField(@, docID, fd.name, Marshal(v))]

(* AddDocument: the id, a doc id, then the schema's fields in order,      *)
(* stopping at the first error with the buffer as far as it got.          *)
AddDocument(b, doc) ==
    IF doc.id = NoId THEN [b |-> b, err |-> "bad_id", docID |-> -1]
    ELSE LET a == AllocateDocID(b, doc.id) IN
         IF a.err # "nil" THEN [b |-> b, err |-> a.err, docID |-> -1]
         ELSE LET r == FoldLeft(LAMBDA acc, fd : IF acc.err # "nil" THEN acc
                                               ELSE ProcessField(acc.b, fd, b.nextDocID, doc),
                                [b |-> a.b, err |-> "nil"], SchemaFields)
              IN [b |-> r.b, err |-> r.err, docID |-> b.nextDocID]
-----------------------------------------------------------------------------
(* NewWriter: an active writer over an empty buffer.                       *)
Init ==
    /\ buf = EmptyBuffer /\ active = TRUE /\ wErr = "nil"
    /\ accepted = <<>> /\ fed = 0 /\ pending = 0

(* A caller passes AddDocuments a batch of n documents.                   *)
AddDocuments(n) ==
    /\ pending = 0 /\ n >= 1 /\ fed + n <= MaxDocsFed
    /\ pending' = n /\ fed' = fed + n
    /\ UNCHANGED <<buf, active, wErr, accepted>>

(* AddDocuments' loop calls AddDocument on its next document, under w.mu; *)
(* AddDocument refuses every document once the writer is released; the    *)
(* first error ends the loop and is AddDocuments' result.                 *)
AddNextDocument(d) ==
    /\ pending > 0
    /\ LET a == IF active THEN AddDocument(buf, d)
                ELSE [b |-> buf, err |-> "not_active", docID |-> -1]
       IN /\ buf' = a.b /\ wErr' = a.err
          /\ accepted' = IF a.err = "nil" THEN (a.docID :> d) @@ accepted ELSE accepted
          /\ pending' = IF a.err = "nil" THEN pending - 1 ELSE 0
    /\ UNCHANGED <<active, fed>>

(* DeleteDocument: MarkDeleted on an active writer.                       *)
DeleteDocument(ext) ==
    /\ IF active THEN buf' = [buf EXCEPT !.deletions = @ \cup {ext}] /\ wErr' = "nil"
       ELSE UNCHANGED buf /\ wErr' = "not_active"
    /\ UNCHANGED <<active, accepted, fed, pending>>

(* Abort: Reset, whether or not the writer is active.                     *)
Abort ==
    /\ buf' = Reset(buf) /\ accepted' = <<>> /\ wErr' = "nil"
    /\ UNCHANGED <<active, fed, pending>>

Release ==
    /\ active' = FALSE /\ wErr' = "nil"
    /\ UNCHANGED <<buf, accepted, fed, pending>>

Next == \/ \E n \in 1..MaxDocsFed : AddDocuments(n)
        \/ \E d \in Documents : AddNextDocument(d)
        \/ \E ext \in ExtIds : DeleteDocument(ext)
        \/ Abort
        \/ Release

Spec == Init /\ [][Next]_wVars
-----------------------------------------------------------------------------
(* Reference: the postings a field value gives a document under the      *)
(* postings contract of the specification, one entry per distinct term    *)
(* with its frequency and, when the field keeps them, its positions; the  *)
(* tokens of a text are the reference runs of its analyzer.               *)
ExpectedPostings(fd, v) ==
    LET toks == IF fd.type = "text" THEN An!Expected(AnalyzerName(fd), v.s)
                ELSE IF v.k = "str" THEN <<[term |-> v.s, position |-> 0]>>
                ELSE [k \in 1..Len(v.items) |-> [term |-> v.items[k].s, position |-> k - 1]]
        at(t) == SelectSeq(toks, LAMBDA x : x.term = t)
    IN [t \in {toks[k].term : k \in 1..Len(toks)} |->
          [freq |-> Len(at(t)),
           positions |-> IF fd.type = "text" /\ fd.positions
                         THEN [k \in 1..Len(at(t)) |-> at(t)[k].position] ELSE <<>>]]

(* Every document AddDocument accepted is in the buffer as the postings   *)
(* contract says: its external id maps to its doc id; for each schema     *)
(* field it carries, each term of the field's analyzer (or each keyword)  *)
(* has exactly one entry for the document, with the term's frequency and *)
(* positions, and no other term has one; a stored field holds the         *)
(* marshalled value.  Documents that failed part-way, a later duplicate   *)
(* and Reset must not disturb it.                                         *)
PostingsMatchDocuments ==
    \A id \in DOMAIN accepted, i \in 1..Len(SchemaFields) :
        LET doc == accepted[id]
            fd == SchemaFields[i]
            has == fd.name \in DOMAIN doc.fields
            exp == IF has THEN ExpectedPostings(fd, doc.fields[fd.name]) ELSE <<>>
        IN /\ buf.extToInt[doc.id] = id
           /\ \A t \in DOMAIN exp : <<fd.name, t>> \in DOMAIN buf.postings
           /\ \A key \in DOMAIN buf.postings :
                 key[1] = fd.name =>
                    SelectSeq(buf.postings[key], LAMBDA e : e.doc = id) =
                        IF key[2] \in DOMAIN exp
                        THEN <<[doc |-> id, freq |-> exp[key[2]].freq,
                                positions |-> exp[key[2]].positions]>>
                        ELSE <<>>
           /\ (<<id, fd.name>> \in DOMAIN buf.stored) = (has /\ fd.stored)
           /\ has /\ fd.stored => buf.stored[<<id, fd.name>>] = Marshal(doc.fields[fd.name])

(* The counters the commit path writes into the segment (doc_count,       *)
(* term_count, MaxDocID) and MemoryUsed agree with the buffer's contents  *)
(* after any sequence of partial, duplicate and successful adds, deletes  *)
(* and Resets: doc ids are dense from 0, one per external id; TermCount   *)
(* is the number of (field, term) lists; every posting names an allocated *)
(* doc id; memory is the sum of the entries' and stored values' sizes.    *)
BufferCountsAgree ==
    LET entries == UNION {{<<key, k>> : k \in 1..Len(buf.postings[key])} : key \in DOMAIN buf.postings}
    IN /\ buf.docCount = buf.nextDocID
       /\ {buf.extToInt[e] : e \in DOMAIN buf.extToInt} = 0..buf.nextDocID - 1
       /\ Cardinality(DOMAIN buf.extToInt) = buf.docCount
       /\ buf.termCount = Cardinality(DOMAIN buf.postings)
       /\ \A x \in entries : buf.postings[x[1]][x[2]].doc < buf.nextDocID
       /\ buf.memoryUsed =
             MapThenSumSet(LAMBDA x : 16 + 4 * Len(buf.postings[x[1]][x[2]].positions), entries)
             + MapThenSumSet(LAMBDA p : Len(buf.stored[p]) + Len(p[2]), DOMAIN buf.stored)
=============================================================================
