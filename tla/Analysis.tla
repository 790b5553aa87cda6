------------------------------- MODULE Analysis -------------------------------
(***************************************************************************)
(* The text analyzers (src/internal/analysis): the Registry of named      *)
(* Analyzers and the standard, whitespace and keyword tokenizers, applied *)
(* to one document text.  Text is a byte string over a small alphabet     *)
(* that holds the cases the tokenizers tell apart: ASCII letters, '_',    *)
(* punctuation and space; "E"/"e" are the first bytes of the two-byte     *)
(* letters U+00C9/U+00E9 and "s" of the two-byte space U+00A0, each       *)
(* followed by the continuation byte "c".  Texts are valid UTF-8: the     *)
(* field values reach the Writer through encoding/json, which replaces    *)
(* invalid bytes by U+FFFD (a rune neither letter nor space, like '.').   *)
(***************************************************************************)
EXTENDS Integers, Sequences, SequencesExt, FiniteSets, TLC

CONSTANTS MaxText   \* longest text analysed

VARIABLES analyzers,   \* r.analyzers: name -> the kind of Analyzer held
          text,        \* the text the caller analyses
          lastName,    \* the name of the last Analyze call, "none" for Register
          lastTokens,  \* what it returned
          lastErr      \* the error of the last call

anVars == <<analyzers, text, lastName, lastTokens, lastErr>>

Bytes == {"a", "A", "_", ".", " ", "E", "e", "s", "c"}
Kinds == {"standard", "whitespace", "keyword"}
Names == Kinds \cup {"custom"}
(* The UTF-8 encoding of each rune of the alphabet.                       *)
Encoding == [r \in {"a", "A", "_", ".", " ", "U+00C9", "U+00E9", "U+00A0"} |->
                CASE r = "U+00C9" -> <<"E", "c">> [] r = "U+00E9" -> <<"e", "c">>
                  [] r = "U+00A0" -> <<"s", "c">> [] OTHER -> <<r>>]
Texts == {t \in {FlattenSeq([k \in DOMAIN rs |-> Encoding[rs[k]]]) :
                   rs \in BoundedSeq(DOMAIN Encoding, MaxText)} : Len(t) <= MaxText}

Token == [term : Seq(Bytes), position : Nat, startByte : Nat, endByte : Nat]

TypeOK ==
    /\ DOMAIN analyzers \subseteq Names /\ \A n \in DOMAIN analyzers : analyzers[n] \in Kinds
    /\ text \in Texts /\ lastName \in Names \cup {"none"}
    /\ lastTokens \in Seq(Token) /\ lastErr \in {"none", "unknown", "exists"}
-----------------------------------------------------------------------------
(* Go's utf8.DecodeRuneInString(text[i:]) on this alphabet: the rune and  *)
(* its size, RuneError of size 1 for an invalid byte.                     *)
LeadRune == ("E" :> "U+00C9") @@ ("e" :> "U+00E9") @@ ("s" :> "U+00A0")
Decode(t, i) ==
    IF t[i + 1] \in {"a", "A", "_", ".", " "} THEN [r |-> t[i + 1], size |-> 1]
    ELSE IF t[i + 1] \in DOMAIN LeadRune /\ i + 1 < Len(t) /\ t[i + 2] = "c"
         THEN [r |-> LeadRune[t[i + 1]], size |-> 2]
         ELSE [r |-> "RuneError", size |-> 1]

(* unicode.IsSpace, and strings.ToLower on valid UTF-8.                   *)
IsSpace(r) == r \in {" ", "U+00A0"}
ToLower(s) == [k \in 1..Len(s) |-> CASE s[k] = "A" -> "a" [] s[k] = "E" -> "e"
                                         [] OTHER -> s[k]]

(* text[a:b] with Go's 0-based, end-exclusive offsets.                    *)
Slice(t, a, b) == SubSeq(t, a + 1, b)

(* strings.Fields: the maximal runs of non-space runes.                   *)
RECURSIVE FieldsFrom(_, _, _)
FieldsFrom(t, i, fs) ==
    IF i >= Len(t) THEN fs
    ELSE IF IsSpace(Decode(t, i).r) THEN FieldsFrom(t, i + Decode(t, i).size, fs)
    ELSE LET RECURSIVE Stop(_)
             Stop(j) == IF j < Len(t) /\ ~IsSpace(Decode(t, j).r)
                        THEN Stop(j + Decode(t, j).size) ELSE j
         IN FieldsFrom(t, Stop(i), Append(fs, Slice(t, i, Stop(i))))

(* strings.Index(s, f) for an f that occurs in s.                        *)
StrIndex(s, f) == IndexFirstSubSeq(f, s) - 1
-----------------------------------------------------------------------------
isWordRune(r) == r \in {"a", "A", "_", "U+00C9", "U+00E9"}

(* Mutant: the inner loop steps one byte, not one rune.                   *)
RECURSIVE WordEndBytewise(_, _)
WordEndBytewise(t, i) ==
    IF i < Len(t) /\ isWordRune(Decode(t, i).r) THEN WordEndBytewise(t, i + 1) ELSE i

(* StandardAnalyzer.Analyze's inner loop: collect word runes from i.      *)
RECURSIVE WordEnd(_, _)
WordEnd(t, i) ==
    IF i < Len(t) /\ isWordRune(Decode(t, i).r) THEN WordEnd(t, i + Decode(t, i).size) ELSE i

(* StandardAnalyzer.Analyze: skip non-word runes, lowercase each run of   *)
(* word runes; pos counts the tokens appended.                            *)
RECURSIVE StandardScan(_, _, _)
StandardScan(t, i, toks) ==
    IF i >= Len(t) THEN toks
    ELSE IF ~isWordRune(Decode(t, i).r) THEN StandardScan(t, i + Decode(t, i).size, toks)
    ELSE LET j == WordEnd(t, i)
         IN StandardScan(t, j, Append(toks, [term |-> ToLower(Slice(t, i, j)),
                               position |-> Len(toks), startByte |-> i, endByte |-> j]))

(* WhitespaceAnalyzer.Analyze: each field of strings.Fields is located by *)
(* strings.Index from the end of the previous one.                       *)
WhitespaceAnalyze(t) ==
    LET fs == FieldsFrom(t, 0, <<>>)
        RECURSIVE Loop(_, _)
        Loop(searchFrom, toks) ==
            IF Len(toks) = Len(fs) THEN toks
            ELSE LET f == fs[Len(toks) + 1]
                     startByte == searchFrom + StrIndex(Slice(t, searchFrom, Len(t)), f)
                     endByte == startByte + Len(f)
                 IN Loop(endByte, Append(toks, [term |-> f, position |-> Len(toks),
                                                startByte |-> startByte, endByte |-> endByte]))
    IN Loop(0, <<>>)

(* KeywordAnalyzer.Analyze: the whole text as one token, none if empty.   *)
KeywordAnalyze(t) ==
    IF t = <<>> THEN <<>>
    ELSE <<[term |-> t, position |-> 0, startByte |-> 0, endByte |-> Len(t)]>>

AnalyzeWith(kind, t) ==
    CASE kind = "standard" -> StandardScan(t, 0, <<>>)
      [] kind = "whitespace" -> WhitespaceAnalyze(t)
      [] kind = "keyword" -> KeywordAnalyze(t)
-----------------------------------------------------------------------------
(* NewRegistry: the three built-in analyzers under their names.           *)
Init ==
    /\ analyzers = [k \in Kinds |-> k]
    /\ text \in Texts
    /\ lastName = "none" /\ lastTokens = <<>> /\ lastErr = "none"

(* Mutant: Register without the check that the name is free.             *)
RegisterOverwrites(n, k) ==
    /\ analyzers' = (n :> k) @@ analyzers /\ lastErr' = "none"

(* Register: a name already held is refused and the registry unchanged.   *)
RegisterAnalyzer(n, k) ==
    IF n \in DOMAIN analyzers THEN lastErr' = "exists" /\ UNCHANGED analyzers
    ELSE analyzers' = (n :> k) @@ analyzers /\ lastErr' = "none"

Register(n, k) ==
    /\ RegisterAnalyzer(n, k)
    /\ lastName' = "none" /\ lastTokens' = <<>>
    /\ UNCHANGED text

(* Get then Analyze: an unknown name is an error.                         *)
Analyze(n) ==
    /\ IF n \in DOMAIN analyzers
       THEN lastTokens' = AnalyzeWith(analyzers[n], text) /\ lastErr' = "none"
       ELSE lastTokens' = <<>> /\ lastErr' = "unknown"
    /\ lastName' = n
    /\ UNCHANGED <<analyzers, text>>

Next == \/ \E n \in Names, k \in Kinds : Register(n, k)
        \/ \E n \in Names : Analyze(n)

Spec == Init /\ [][Next]_anVars
-----------------------------------------------------------------------------
(* Reference: the tokens of a text are its maximal runs of runes of class *)
(* InRun, in order, each carrying its byte offsets and its bytes under    *)
(* Norm; the rune boundaries are those of decoding from byte 0.           *)
RECURSIVE RuneStarts(_, _)
RuneStarts(t, i) == IF i >= Len(t) THEN {} ELSE {i} \cup RuneStarts(t, i + Decode(t, i).size)

RunTokens(t, InRun(_), Norm(_)) ==
    LET S == RuneStarts(t, 0)
        inRun(x) == x \in S /\ InRun(Decode(t, x).r)
        firsts == {x \in S : inRun(x) /\ ~\E y \in S : y < x /\ inRun(y)
                                          /\ \A z \in S : y <= z /\ z < x => inRun(z)}
        stop(x) == Min({y \in S \cup {Len(t)} : y > x /\ ~inRun(y)})
        ord == SetToSortSeq(firsts, <)
    IN [k \in 1..Len(ord) |-> [term |-> Norm(Slice(t, ord[k], stop(ord[k]))),
                               position |-> k - 1, startByte |-> ord[k],
                               endByte |-> stop(ord[k])]]

Expected(kind, t) ==
    CASE kind = "standard" -> RunTokens(t, isWordRune, ToLower)
      [] kind = "whitespace" -> RunTokens(t, LAMBDA r : ~IsSpace(r), LAMBDA s : s)
      [] kind = "keyword" -> KeywordAnalyze(t)

(* Every Analyze through the registry returns, for a built-in name, the   *)
(* built-in analyzer's tokens, and these are the text's maximal runs of   *)
(* word (standard) or non-space (whitespace) runes with positions 0, 1,   *)
(* ... and the byte offsets of the run in the text, however multi-byte    *)
(* and invalid UTF-8 fall: the scanning loops' rune stepping, Index's     *)
(* search window and Register's refusal to replace a name all matter.    *)
TokensAreRuns ==
    lastName \in Kinds /\ lastErr = "none" => lastTokens = Expected(lastName, text)
=============================================================================
