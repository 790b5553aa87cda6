--------------------------- MODULE MC_WriterInputs ---------------------------
(***************************************************************************)
(* Inputs of IndexWriter for TLC: a schema with a positional, standard-    *)
(* analysed text field, a multi-valued stored keyword field, a            *)
(* whitespace-analysed text field and a single-valued keyword field, and  *)
(* for each field values that index and values that fail part-way.        *)
(***************************************************************************)
LOCAL S(bytes) == [k |-> "str", s |-> bytes]
LOCAL N == [k |-> "num"]
LOCAL Arr(items) == [k |-> "arr", items |-> items]

WrSchemaFields ==
    <<[name |-> "title", type |-> "text", analyzer |-> "standard", stored |-> TRUE,
       indexed |-> TRUE, positions |-> TRUE, multiValued |-> FALSE],
      [name |-> "tags", type |-> "keyword", analyzer |-> "", stored |-> TRUE,
       indexed |-> TRUE, positions |-> FALSE, multiValued |-> TRUE],
      [name |-> "body", type |-> "text", analyzer |-> "whitespace", stored |-> FALSE,
       indexed |-> TRUE, positions |-> FALSE, multiValued |-> FALSE],
      [name |-> "code", type |-> "keyword", analyzer |-> "", stored |-> FALSE,
       indexed |-> TRUE, positions |-> FALSE, multiValued |-> FALSE]>>

(* "a A" repeats a term at two positions, "a É" holds a two-byte letter;  *)
(* the number fails a keyword array's second item after its first is     *)
(* indexed; an array fails the single-valued field after the earlier      *)
(* fields.                                                                 *)
WrFieldValues ==
    [n \in {"title", "tags", "body", "code"} |->
        CASE n = "title" -> {S(<<"a", " ", "A">>)}
          [] n = "tags" -> {S(<<"x">>), Arr(<<S(<<"x">>), S(<<"y">>)>>), Arr(<<S(<<"x">>), N>>)}
          [] n = "body" -> {S(<<"a", " ", "E", "c">>)}
          [] n = "code" -> {Arr(<<S(<<"x">>)>>)}]

(* The same, with a keyword array that repeats a value.                    *)
WrFieldValuesRepeat == [WrFieldValues EXCEPT !["tags"] = @ \cup {Arr(<<S(<<"x">>), S(<<"x">>)>>)}]
=============================================================================
