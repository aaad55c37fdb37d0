--------------------------- MODULE CanonicalJson ---------------------------
(***************************************************************************)
(* The bytes a signature is made over: akt_canonical.c.  The growable      *)
(* buffer is concatenation.  Recursion is by recursive functions, so that  *)
(* what the text decides can be proved and not only checked.               *)
(***************************************************************************)
EXTENDS Json, FiniteSets

CONSTANTS Alphabet,  \* the symbols texts are made of, in byte order
          Nesting    \* how deep a document nests at most: cJSON refuses deeper ones

\* What the serialiser itself writes.
Marks == {"\"", "\\", "[", "]", "{", "}", ",", ":", "-",
          "0", "1", "2", "3", "4", "5", "6", "7", "8", "9",
          "a", "b", "e", "f", "l", "n", "r", "s", "t", "u"}
Characters == {Alphabet[i] : i \in DOMAIN Alphabet}

ASSUME CanonicalAssumption ==
  /\ Nesting \in Nat
  /\ Alphabet \in Seq(Characters) /\ IsInjective(Alphabet)
  /\ Marks \subseteq Characters

\* Mutant: quotes inside a string are not escaped.
EscapedNoQuote(c) ==
  CASE c = "\\" -> <<"\\", "\\">>
    [] c = "LF" -> <<"\\", "n">>
    [] c = "SOH" -> <<"\\", "u", "0", "0", "0", "1">>
    [] OTHER -> <<c>>

\* The bytes a character of a string takes; two control characters stand for
\* those without a short form.
Escaped(c) ==
  CASE c = "\"" -> <<"\\", "\"">>
    [] c = "\\" -> <<"\\", "\\">>
    [] c = "BS" -> <<"\\", "b">>
    [] c = "FF" -> <<"\\", "f">>
    [] c = "LF" -> <<"\\", "n">>
    [] c = "CR" -> <<"\\", "r">>
    [] c = "HT" -> <<"\\", "t">>
    [] c = "SOH" -> <<"\\", "u", "0", "0", "0", "1">>
    [] c = "ESC" -> <<"\\", "u", "0", "0", "1", "b">>
    [] OTHER -> <<c>>

WriteString(text) ==
  <<"\"">> \o FlattenSeq([i \in DOMAIN text |-> Escaped(text[i])]) \o <<"\"">>

Numerals == <<"0", "1", "2", "3", "4", "5", "6", "7", "8", "9">>
Numeral(n) == Numerals[n + 1]

\* printf "%lld".
Digits(n) ==
  LET digits[k \in Nat] ==
        IF k < 10 THEN <<Numeral(k)>> ELSE digits[k \div 10] \o <<Numeral(k % 10)>>
  IN  digits[n]
WriteNumber(n) == IF n < 0 THEN <<"-">> \o Digits(-n) ELSE Digits(n)

\* strcmp of two keys is negative: where they first differ, the first key has
\* ended or has the smaller symbol.
Rank == [c \in Characters |-> CHOOSE i \in DOMAIN Alphabet : Alphabet[i] = c]
KeyBefore(a, b) ==
  \E i \in DOMAIN b : /\ \A j \in 1 .. i - 1 : j \in DOMAIN a /\ a[j] = b[j]
                      /\ i \in DOMAIN a => Rank[a[i]] < Rank[b[i]]

\* qsort(kids, keycmp): an item stands behind those with smaller keys, and items
\* of one key keep their order (qsort may not keep it).
Behind(items, i) ==
  {j \in DOMAIN items : \/ KeyBefore(items[j][1], items[i][1])
                        \/ items[j][1] = items[i][1] /\ j < i}
SortKeys(items) ==
  [n \in DOMAIN items |->
     items[CHOOSE i \in DOMAIN items : Cardinality(Behind(items, i)) = n - 1]]

Joined(texts) ==
  FlattenSeq([i \in DOMAIN texts |-> IF i = 1 THEN texts[i] ELSE <<",">> \o texts[i]])

-----------------------------------------------------------------------------
\* A document and everything inside it.
PartsOf(v) ==
  IF IsArray(v) THEN {v[2][i] : i \in DOMAIN v[2]}
  ELSE IF IsObject(v) THEN {v[2][i][2] : i \in DOMAIN v[2]} ELSE {}
Inside(v) ==
  LET upto[n \in 0 .. Nesting] ==
        IF n = 0 THEN {v}
        ELSE LET near == upto[n - 1] IN near \cup UNION {PartsOf(x) : x \in near}
  IN  upto[Nesting]

\* emit; `text' has the texts of the parts.
EmitOne(v, text) ==
  CASE v[1] \in {"null", "none"} -> <<"n", "u", "l", "l">>
    [] v[1] = "bool" -> IF v[2] THEN <<"t", "r", "u", "e">> ELSE <<"f", "a", "l", "s", "e">>
    [] v[1] = "num" -> WriteNumber(v[2])
    [] v[1] = "str" -> WriteString(v[2])
    [] v[1] = "arr" -> <<"[">> \o Joined([i \in DOMAIN v[2] |-> text[v[2][i]]]) \o <<"]">>
    [] v[1] = "obj" ->
         LET kids == SortKeys(v[2])
         IN  <<"{">> \o Joined([i \in DOMAIN kids |->
               WriteString(kids[i][1]) \o <<":">> \o text[kids[i][2]]]) \o <<"}">>
Emit(v) == LET text[x \in Inside(v)] == EmitOne(x, text) IN text[v]

\* Without a document there is no text: akt_canonical_json returns NULL.
Canonical(v) == IF v = Missing THEN Missing ELSE Emit(v)

-----------------------------------------------------------------------------
\* Reference: what a document says, whatever the order its objects are written
\* in.  Documents with two items of one name are not compared.
SaysOne(v, says) ==
  CASE v[1] = "arr" -> <<"arr", [i \in DOMAIN v[2] |-> says[v[2][i]]]>>
    [] v[1] = "obj" ->
         <<"obj", [k \in {v[2][i][1] : i \in DOMAIN v[2]} |-> says[GetText(v, k)]]>>
    [] OTHER -> v
Meaning(v) == LET says[x \in Inside(v)] == SaysOne(x, says) IN says[v]

=============================================================================
