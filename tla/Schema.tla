-------------------------------- MODULE Schema --------------------------------
(***************************************************************************)
(* index.Schema.Validate (src/internal/index/schema.go), called by        *)
(* CreateIndex on the schema a client posts.  A schema is its detailed    *)
(* fields (a sequence of FieldDefs), padding further well-formed fields   *)
(* with distinct names that only count towards the field limit, and the   *)
(* default analyzer.  A field name is a model value carrying its length   *)
(* in bytes; names, types and analyzers include invalid ones.             *)
(***************************************************************************)
EXTENDS Integers, Sequences, SequencesExt

CONSTANTS FieldNames,   \* field names a client may post
          NameLength,   \* name -> its length in bytes
          MaxSchemaFields \* detailed fields a schema holds at most

VARIABLES schema,   \* the posted schema
          verdict   \* "unchecked", then what Validate returned

schVars == <<schema, verdict>>

MaxFieldsPerSchema == 256
MaxFieldNameLength == 255
reservedFieldNames == {"_id", "_score", "_source"}
FieldTypes == {"text", "keyword", "stored_only"}
AnalyzerNames == {"standard", "whitespace", "keyword"}

FieldDefs == [name : FieldNames, type : FieldTypes \cup {"blob"},
              analyzer : {"", "standard", "stem"},
              stored : BOOLEAN, indexed : BOOLEAN, positions : BOOLEAN]

Schemas == [fields : BoundedSeq(FieldDefs, MaxSchemaFields),
            padding : {0, MaxFieldsPerSchema - 1},
            defaultAnalyzer : {"", "stem"}]

Verdicts == {"unchecked", "ok", "field_limit", "reserved", "duplicate", "name_too_long",
             "invalid_type", "invalid_analyzer", "missing_analyzer", "positions",
             "stored_only_indexed", "stored_only_unstored", "invalid_default"}

TypeOK == schema \in Schemas /\ verdict \in Verdicts
-----------------------------------------------------------------------------
(* Mutant: the loop never records the names it has seen.                  *)
RECURSIVE CheckFieldsForgetful(_, _, _)
CheckFieldsForgetful(fs, i, seen) ==
    IF i > Len(fs) THEN "ok"
    ELSE LET f == fs[i] IN
         CASE f.name \in reservedFieldNames -> "reserved"
           [] f.name \in seen -> "duplicate"
           [] NameLength[f.name] > MaxFieldNameLength -> "name_too_long"
           [] f.type \notin FieldTypes -> "invalid_type"
           [] f.analyzer # "" /\ f.analyzer \notin AnalyzerNames -> "invalid_analyzer"
           [] f.type = "text" /\ f.analyzer = "" -> "missing_analyzer"
           [] f.positions /\ f.type # "text" -> "positions"
           [] f.type = "stored_only" /\ f.indexed -> "stored_only_indexed"
           [] f.type = "stored_only" /\ ~f.stored -> "stored_only_unstored"
           [] OTHER -> CheckFieldsForgetful(fs, i + 1, seen)

(* Validate's loop over the fields: the first failing check of the first  *)
(* failing field is the error; validateFieldType and validateAnalyzer are *)
(* the switches on the known names.                                       *)
RECURSIVE CheckFields(_, _, _)
CheckFields(fs, i, seen) ==
    IF i > Len(fs) THEN "ok"
    ELSE LET f == fs[i] IN
         CASE f.name \in reservedFieldNames -> "reserved"
           [] f.name \in seen -> "duplicate"
           [] NameLength[f.name] > MaxFieldNameLength -> "name_too_long"
           [] f.type \notin FieldTypes -> "invalid_type"
           [] f.analyzer # "" /\ f.analyzer \notin AnalyzerNames -> "invalid_analyzer"
           [] f.type = "text" /\ f.analyzer = "" -> "missing_analyzer"
           [] f.positions /\ f.type # "text" -> "positions"
           [] f.type = "stored_only" /\ f.indexed -> "stored_only_indexed"
           [] f.type = "stored_only" /\ ~f.stored -> "stored_only_unstored"
           [] OTHER -> CheckFields(fs, i + 1, seen \cup {f.name})

(* Validate: the field limit, the fields, then the default analyzer.      *)
ValidateSchema(s) ==
    IF Len(s.fields) + s.padding > MaxFieldsPerSchema THEN "field_limit"
    ELSE LET r == CheckFields(s.fields, 1, {}) IN
         IF r # "ok" THEN r
         ELSE IF s.defaultAnalyzer # "" /\ s.defaultAnalyzer \notin AnalyzerNames
              THEN "invalid_default" ELSE "ok"

Init == schema \in Schemas /\ verdict = "unchecked"

Validate ==
    /\ verdict = "unchecked"
    /\ verdict' = ValidateSchema(schema)
    /\ UNCHANGED schema

Next == Validate

Spec == Init /\ [][Next]_schVars
-----------------------------------------------------------------------------
(* The schema invariants of the specification: at most 256 fields, names *)
(* of at most 255 bytes, not reserved, unique; known types and analyzers; *)
(* text needs an analyzer; positions only on text; stored_only is stored  *)
(* and not indexed.                                                       *)
SpecValid(s) ==
    LET fs == s.fields IN
    /\ Len(fs) + s.padding <= MaxFieldsPerSchema
    /\ \A i \in 1..Len(fs) :
          LET f == fs[i] IN
          /\ NameLength[f.name] <= MaxFieldNameLength
          /\ f.name \notin reservedFieldNames
          /\ \A j \in 1..Len(fs) : j # i => fs[j].name # f.name
          /\ f.type \in FieldTypes
          /\ f.analyzer \in AnalyzerNames \cup {""}
          /\ f.type = "text" => f.analyzer # ""
          /\ f.positions => f.type = "text"
          /\ f.type = "stored_only" => f.stored /\ ~f.indexed
    /\ s.defaultAnalyzer \in AnalyzerNames \cup {""}

(* CreateIndex accepts a posted schema exactly when it meets the schema   *)
(* invariants: Validate's early returns, its seen-set and its limits at   *)
(* their boundaries (256 fields, 255-byte names) neither let a bad schema *)
(* through nor refuse a good one.                                         *)
ValidateIsSpec ==
    verdict # "unchecked" => (verdict = "ok" <=> SpecValid(schema))
=============================================================================
