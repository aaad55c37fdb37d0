------------------------ MODULE CanonicalJson_proofs ------------------------
(***************************************************************************)
(* What the canonical text decides, for every document that nests no       *)
(* deeper than Nesting and has no key twice in an object: two documents    *)
(* have one text exactly when they say the same.  Reading a text from left *)
(* to right finds each piece that was written: At(T, p, w).  The recursion *)
(* of the serialiser, of the meaning and of FlattenSeq is on the size of   *)
(* the data; RecursiveFunctions gives the equations of such functions, and *)
(* induction over the data is a least counterexample.                      *)
(***************************************************************************)
EXTENDS CanonicalJson, FunctionTheorems, FiniteSetTheorems, TLAPS

-----------------------------------------------------------------------------
(* Texts. *)

\* Marks by name: the SMT translation cannot quote these four.
Quote == "\""
Comma == ","
LBrace == "{"
RBrace == "}"

\* The symbols the serialiser writes are characters, and differ.
LEMMA MarksAreCharacters ==
  {Quote, Comma, LBrace, RBrace, "\\", "[", "]", ":", "-", "0", "1", "2", "3", "4", "5", "6", "7",
   "8", "9", "a", "b", "e", "f", "l", "n", "r", "s", "t", "u"} \subseteq Characters
BY CanonicalAssumption DEF Marks, Quote, Comma, LBrace, RBrace

\* Those four are none of the others.
LEMMA MarksDiffer ==
  /\ Quote \notin {Comma, LBrace, RBrace, "\\", "[", "]", ":", "-", "b", "f", "n", "r", "t", "u",
                   "0", "1", "2", "3", "4", "5", "6", "7", "8", "9",
                   "BS", "FF", "LF", "CR", "HT", "SOH", "ESC"}
  /\ Comma \notin {LBrace, RBrace, "[", "]", "-", "n", "t", "f",
                   "0", "1", "2", "3", "4", "5", "6", "7", "8", "9"}
  /\ LBrace \notin {RBrace, "[", "]", "-", "n", "t", "f",
                   "0", "1", "2", "3", "4", "5", "6", "7", "8", "9"}
  /\ RBrace \notin {"[", "]", "-", "n", "t", "f",
                   "0", "1", "2", "3", "4", "5", "6", "7", "8", "9"}
BY DEF Quote, Comma, LBrace, RBrace

\* A text is a sequence of symbols.
Texts == Seq(Characters)

\* The text w stands in T behind the first p symbols.
At(T, p, w) == p + Len(w) <= Len(T) /\ \A i \in 1 .. Len(w) : T[p + i] = w[i]

\* Two texts stand behind each other where their concatenation stands.
LEMMA AtBoth ==
  ASSUME NEW T \in Texts, NEW p \in Nat, NEW u \in Texts, NEW w \in Texts
  PROVE  At(T, p, u \o w) <=> At(T, p, u) /\ At(T, p + Len(u), w)
<1>1. Len(u \o w) = Len(u) + Len(w) /\ Len(u) \in Nat /\ Len(w) \in Nat /\ Len(T) \in Nat
  BY DEF Texts
<1>2. \A i \in 1 .. Len(u) : (u \o w)[i] = u[i]
  BY DEF Texts
<1>3. \A i \in 1 .. Len(w) : (u \o w)[Len(u) + i] = w[i]
  BY DEF Texts
<1>4. ASSUME At(T, p, u \o w)
      PROVE  At(T, p, u) /\ At(T, p + Len(u), w)
  <2>1. \A i \in 1 .. Len(u) + Len(w) : T[p + i] = (u \o w)[i]
    BY <1>4, <1>1 DEF At
  <2>2. \A i \in 1 .. Len(u) : T[p + i] = u[i]
    BY <2>1, <1>1, <1>2
  <2>3. ASSUME NEW i \in 1 .. Len(w)
        PROVE  T[p + Len(u) + i] = w[i]
    <3>1. Len(u) + i \in 1 .. Len(u) + Len(w) /\ p + Len(u) + i = p + (Len(u) + i)
      BY <1>1
    <3> QED BY <3>1, <2>1, <1>3
  <2> QED BY <1>1, <1>4, <2>2, <2>3 DEF At
<1>5. ASSUME At(T, p, u), At(T, p + Len(u), w)
      PROVE  At(T, p, u \o w)
  <2>1. ASSUME NEW i \in 1 .. Len(u) + Len(w)
        PROVE  T[p + i] = (u \o w)[i]
    <3>1. CASE i <= Len(u)
      BY <3>1, <1>1, <1>2, <1>5 DEF At
    <3>2. CASE i > Len(u)
      <4>1. i - Len(u) \in 1 .. Len(w)
        BY <3>2, <1>1
      <4>2. T[p + Len(u) + (i - Len(u))] = w[i - Len(u)]
        BY <4>1, <1>5 DEF At
      <4>3. (u \o w)[Len(u) + (i - Len(u))] = w[i - Len(u)]
        BY <4>1, <1>3
      <4>4. Len(u) + (i - Len(u)) = i /\ p + Len(u) + (i - Len(u)) = p + i
        BY <1>1
      <4> QED BY <4>2, <4>3, <4>4
    <3> QED BY <3>1, <3>2, <1>1
  <2> QED BY <1>1, <1>5, <2>1 DEF At
<1> QED BY <1>4, <1>5

\* What stands in a text stands where that text stands.
LEMMA AtWithin ==
  ASSUME NEW T \in Texts, NEW p \in Nat, NEW u \in Texts, At(T, p, u),
         NEW q \in Nat, NEW w \in Texts, At(u, q, w)
  PROVE  At(T, p + q, w)
<1>1. Len(T) \in Nat /\ Len(u) \in Nat /\ Len(w) \in Nat
  BY DEF Texts
<1>2. ASSUME NEW i \in 1 .. Len(w)
      PROVE  T[p + q + i] = w[i]
  <2>1. q + i \in 1 .. Len(u) /\ p + q + i = p + (q + i)
    BY <1>1 DEF At
  <2> QED BY <2>1 DEF At
<1> QED BY <1>1, <1>2 DEF At

\* A text stands in itself.
LEMMA AtStart ==
  ASSUME NEW u \in Texts
  PROVE  At(u, 0, u)
BY DEF Texts, At

\* Texts of the same symbols are one text.
LEMMA SameText ==
  ASSUME NEW u \in Texts, NEW w \in Texts, Len(u) = Len(w), \A i \in 1 .. Len(u) : u[i] = w[i]
  PROVE  u = w
BY DEF Texts

\* What stands at one place with one length is one text.
LEMMA AtSame ==
  ASSUME NEW T \in Texts, NEW p \in Nat, NEW u \in Texts, NEW w \in Texts,
         At(T, p, u), At(T, p, w), Len(u) = Len(w)
  PROVE  u = w
<1>1. \A i \in 1 .. Len(u) : u[i] = w[i]
  BY DEF At, Texts
<1> QED BY <1>1 DEF Texts

\* A text of one symbol.
LEMMA OneSymbol ==
  ASSUME NEW a \in Characters
  PROVE  <<a>> \in Texts /\ Len(<<a>>) = 1 /\ <<a>>[1] = a
BY DEF Texts

\* A text of two symbols.
LEMMA TwoSymbols ==
  ASSUME NEW a \in Characters, NEW b \in Characters
  PROVE  <<a, b>> \in Texts /\ Len(<<a, b>>) = 2 /\ <<a, b>>[1] = a /\ <<a, b>>[2] = b
BY DEF Texts

\* A text of six symbols.
LEMMA SixSymbols ==
  ASSUME NEW a \in Characters, NEW b \in Characters, NEW c \in Characters,
         NEW d \in Characters, NEW e \in Characters, NEW f \in Characters
  PROVE  LET w == <<a, b, c, d, e, f>>
         IN  w \in Texts /\ Len(w) = 6 /\ w[1] = a /\ w[2] = b /\ w[5] = e
BY DEF Texts

\* Where a text of one symbol stands, that symbol stands.
LEMMA AtSymbol ==
  ASSUME NEW T \in Texts, NEW p \in Nat, NEW c \in Characters
  PROVE  At(T, p, <<c>>) <=> p + 1 <= Len(T) /\ T[p + 1] = c
BY OneSymbol DEF At

-----------------------------------------------------------------------------
(* FlattenSeq. *)

\* One step of FlattenSeq's recursion.
FlattenOne(seqs, i, f) == IF i = 1 THEN seqs[i] ELSE f[i - 1] \o seqs[i]
\* That recursion.
Flatten == INSTANCE RecursiveFunctions WITH Body <- FlattenOne

\* Where the texts of a list end once they are joined, and how many symbols
\* stand before the i-th.
Laid(texts, ends) ==
  /\ ends \in [0 .. Len(texts) -> Nat] /\ ends[0] = 0
  /\ \A i \in 1 .. Len(texts) : /\ ends[i] = ends[i - 1] + Len(texts[i])
                                /\ At(FlattenSeq(texts), ends[i - 1], texts[i])
  /\ Len(FlattenSeq(texts)) = ends[Len(texts)]

\* FlattenSeq lays the texts one behind another.
LEMMA Flattened ==
  ASSUME NEW texts \in Seq(Texts)
  PROVE  FlattenSeq(texts) \in Texts /\ \E ends : Laid(texts, ends)
<1> DEFINE n == Len(texts)
<1>1. n \in Nat /\ \A i \in 1 .. n : texts[i] \in Texts
  OBVIOUS
<1>2. CASE n = 0
  <2>1. FlattenSeq(texts) = <<>> /\ texts = <<>>
    BY <1>2 DEF FlattenSeq
  <2>2. Laid(texts, [i \in 0 .. 0 |-> 0])
    BY <2>1, <1>2 DEF Laid
  <2> QED BY <2>1, <2>2 DEF Texts
<1>3. CASE n # 0
  <2> DEFINE flat == CHOOSE f : f = [i \in 1 .. n |-> FlattenOne(texts, i, f)]
  <2>1. flat = [i \in 1 .. n |-> FlattenOne(texts, i, flat)]
    <3> DEFINE rank == [i \in 1 .. n |-> i]
    <3>1. \A i \in 1 .. n : rank[i] \in Nat
      BY <1>1
    <3>2. Flatten!LooksLower(texts, 1 .. n, rank)
      <4> SUFFICES ASSUME NEW i \in 1 .. n, NEW f, NEW g,
                          \A j \in 1 .. n : rank[j] < rank[i] => f[j] = g[j]
                   PROVE  FlattenOne(texts, i, f) = FlattenOne(texts, i, g)
        BY DEF Flatten!LooksLower
      <4>1. i # 1 => i - 1 \in 1 .. n /\ rank[i - 1] < rank[i]
        BY <1>1
      <4> HIDE DEF rank, n
      <4> QED BY <4>1 DEF FlattenOne
    <3>3. \E f : Flatten!Solves(texts, 1 .. n, f)
      <4> HIDE DEF rank, n
      <4> QED BY <3>1, <3>2, Flatten!Solved
    <3>4. \E f : f = [i \in 1 .. n |-> FlattenOne(texts, i, f)]
      BY <3>3 DEF Flatten!Solves
    <3> HIDE DEF n
    <3> QED BY <3>4
  <2>2. FlattenSeq(texts) = flat[n]
    BY <1>3 DEF FlattenSeq, FlattenOne
  <2>3. flat[1] = texts[1] /\ \A i \in 2 .. n : flat[i] = flat[i - 1] \o texts[i]
    <3> HIDE DEF flat
    <3>1. \A i \in 1 .. n : flat[i] = FlattenOne(texts, i, flat)
      BY <2>1
    <3>2. 1 \in 1 .. n /\ \A i \in 2 .. n : i \in 1 .. n /\ i # 1
      BY <1>1, <1>3
    <3> HIDE DEF n
    <3> QED BY <3>1, <3>2 DEF FlattenOne
  <2> HIDE DEF flat
  <2> DEFINE ends == [i \in 0 .. n |-> IF i = 0 THEN 0 ELSE Len(flat[i])]
             Good(i) == /\ flat[i] \in Texts
                        /\ ends[i] = ends[i - 1] + Len(texts[i])
                        /\ \A j \in 1 .. i : At(flat[i], ends[j - 1], texts[j])
             Bad == {i \in 1 .. n : ~Good(i)}
  <2>4. Bad = {}
    <3> SUFFICES ASSUME Bad # {} PROVE FALSE
      OBVIOUS
    <3>1. PICK i \in Bad : \A j \in Bad : i <= j
      <4>1. Bad \subseteq Nat
        BY <1>1
      <4> HIDE DEF Bad
      <4> QED BY <4>1, Flatten!LeastNumber
    <3>2. i \in 1 .. n /\ ~Good(i)
      BY <3>1
    <3>3. i # 1
      <4>1. Good(1)
        <5>1. flat[1] \in Texts /\ ends[0] = 0 /\ ends[1] = Len(texts[1])
          BY <2>3, <1>1, <1>3
        <5>2. At(flat[1], ends[0], texts[1])
          BY <2>3, <1>1, <1>3, <5>1, AtStart
        <5> QED BY <5>1, <5>2, <1>1 DEF Texts
      <4> QED BY <4>1, <3>2
    <3>4. Good(i - 1)
      <4>1. i - 1 \in 1 .. n /\ i - 1 \notin Bad
        <5> HIDE DEF Bad
        <5> QED BY <3>1, <3>2, <3>3, <1>1
      <4> QED BY <4>1
    <3>5. flat[i] = flat[i - 1] \o texts[i] /\ texts[i] \in Texts /\ flat[i - 1] \in Texts
      <4>1. i \in 2 .. n
        BY <3>2, <3>3, <1>1
      <4> HIDE DEF ends, n
      <4> QED BY <4>1, <3>2, <3>4, <2>3, <1>1
    <3>6. flat[i] \in Texts /\ Len(flat[i]) = Len(flat[i - 1]) + Len(texts[i])
      BY <3>5 DEF Texts
    <3>7. ends[i] = Len(flat[i]) /\ ends[i - 1] = Len(flat[i - 1])
      BY <3>2, <3>3, <1>1
    <3>8. At(flat[i], 0, flat[i - 1]) /\ At(flat[i], ends[i - 1], texts[i])
      <4>1. At(flat[i], 0, flat[i])
        BY <3>6, AtStart
      <4>2. At(flat[i], 0, flat[i - 1]) /\ At(flat[i], 0 + Len(flat[i - 1]), texts[i])
        BY <4>1, <3>5, <3>6, AtBoth
      <4>3. 0 + Len(flat[i - 1]) = ends[i - 1]
        BY <3>5, <3>7 DEF Texts
      <4> QED BY <4>2, <4>3
    <3>9. ASSUME NEW j \in 1 .. i - 1
          PROVE  At(flat[i], ends[j - 1], texts[j])
      <4>1. At(flat[i - 1], ends[j - 1], texts[j])
        BY <3>4
      <4>2. ends[j - 1] \in Nat /\ 0 + ends[j - 1] = ends[j - 1] /\ texts[j] \in Texts
        <5>1. CASE j = 1
          BY <5>1, <1>1, <3>2
        <5>2. CASE j # 1
          <6>1. j - 1 \in 1 .. n /\ j - 1 \notin Bad
            <7> HIDE DEF Bad
            <7> QED BY <3>1, <3>2, <3>3, <1>1, <5>2
          <6>2. flat[j - 1] \in Texts
            BY <6>1
          <6> QED BY <6>1, <6>2, <1>1, <3>2 DEF Texts
        <5> QED BY <5>1, <5>2
      <4> HIDE DEF ends
      <4> QED BY <4>1, <4>2, <3>5, <3>6, <3>8, AtWithin
    <3>10. Good(i)
      <4>1. \A j \in 1 .. i : j = i \/ j \in 1 .. i - 1
        BY <3>2, <1>1
      <4> HIDE DEF ends
      <4> QED BY <3>6, <3>7, <3>8, <3>9, <4>1
    <3> QED BY <3>2, <3>10
  <2>5. \A i \in 1 .. n : Good(i)
    BY <2>4
  <2>6. Good(n) /\ FlattenSeq(texts) \in Texts
    <3>1. n \in 1 .. n
      BY <1>1, <1>3
    <3> HIDE DEF ends, n
    <3> QED BY <3>1, <2>5, <2>2
  <2>7. ends \in [0 .. n -> Nat] /\ ends[0] = 0 /\ Len(FlattenSeq(texts)) = ends[n]
    <3>1. \A i \in 1 .. n : Len(flat[i]) \in Nat
      BY <2>5 DEF Texts
    <3> QED BY <3>1, <1>1, <1>3, <2>2
  <2>8. \A i \in 1 .. n : At(FlattenSeq(texts), ends[i - 1], texts[i])
    BY <2>6, <2>2
  <2>9. Laid(texts, ends)
    <3> HIDE DEF ends
    <3> QED BY <2>5, <2>7, <2>8 DEF Laid
  <2> QED BY <2>6, <2>9
<1> QED BY <1>2, <1>3

\* What stands behind the i-th text of a list that z closes.
Following(texts, z, i) == IF i < Len(texts) THEN texts[i + 1][1] ELSE z

\* The i-th text stands in T behind r symbols, and what follows it in the list
\* behind it.
Stands(T, r, texts, z, i) ==
  At(T, r, texts[i]) /\ At(T, r + Len(texts[i]), <<Following(texts, z, i)>>)

\* The texts of a list, none empty and none beginning with the closing symbol,
\* stand joined in T behind q symbols, and z behind them.
Closed(T, q, texts, z) ==
  /\ At(T, q, FlattenSeq(texts)) /\ At(T, q + Len(FlattenSeq(texts)), <<z>>)
  /\ \A i \in 1 .. Len(texts) : Len(texts[i]) > 0 /\ texts[i][1] # z

\* Each text of a list stands where the texts before it end.
LEMMA ItemStands ==
  ASSUME NEW T \in Texts, NEW q \in Nat, NEW z \in Characters, NEW texts \in Seq(Texts),
         Closed(T, q, texts, z), NEW ends, Laid(texts, ends), NEW i \in 1 .. Len(texts)
  PROVE  Stands(T, q + ends[i - 1], texts, z, i)
<1>1. FlattenSeq(texts) \in Texts
  BY Flattened
<1>2. \A j \in 1 .. Len(texts) : At(T, q + ends[j - 1], texts[j])
  <2> SUFFICES ASSUME NEW j \in 1 .. Len(texts) PROVE At(T, q + ends[j - 1], texts[j])
    OBVIOUS
  <2>1. texts[j] \in Texts /\ ends[j - 1] \in Nat /\ At(FlattenSeq(texts), ends[j - 1], texts[j])
    <3>1. j - 1 \in 0 .. Len(texts) /\ texts[j] \in Texts
      OBVIOUS
    <3>2. ends[j - 1] \in Nat
      BY <3>1 DEF Laid
    <3> QED BY <3>1, <3>2 DEF Laid
  <2> QED BY <2>1, <1>1, AtWithin DEF Closed
<1>3. ends[i] = ends[i - 1] + Len(texts[i]) /\ ends[i] \in Nat /\ ends[i - 1] \in Nat
  <2>1. i \in 0 .. Len(texts) /\ i - 1 \in 0 .. Len(texts)
    OBVIOUS
  <2> QED BY <2>1 DEF Laid
<1>4. Len(texts[i]) \in Nat
  BY DEF Texts
<1>5. CASE i < Len(texts)
  <2>1. i + 1 \in 1 .. Len(texts) /\ (i + 1) - 1 = i
    BY <1>5
  <2>2. At(T, q + ends[i], texts[i + 1])
    BY <2>1, <1>2
  <2>3. texts[i + 1] \in Texts /\ Len(texts[i + 1]) > 0
    <3>1. texts[i + 1] \in Texts
      BY <2>1
    <3> QED BY <2>1, <3>1 DEF Closed
  <2>4. At(T, q + ends[i], <<texts[i + 1][1]>>)
    <3>1. texts[i + 1][1] \in Characters /\ Len(T) \in Nat /\ Len(texts[i + 1]) \in Nat
      BY <2>3 DEF Texts
    <3>2. q + ends[i] + 1 <= Len(T) /\ T[q + ends[i] + 1] = texts[i + 1][1]
      BY <3>1, <2>2, <2>3, <1>3 DEF At
    <3>3. q + ends[i] \in Nat
      BY <1>3
    <3> QED BY <3>1, <3>2, <3>3, AtSymbol
  <2>5. q + ends[i - 1] + Len(texts[i]) = q + ends[i]
    BY <1>3, <1>4
  <2> QED BY <2>4, <2>5, <1>2, <1>5 DEF Stands, Following
<1>6. CASE i = Len(texts)
  <2>1. q + ends[i - 1] + Len(texts[i]) = q + Len(FlattenSeq(texts))
    BY <1>3, <1>4, <1>6 DEF Laid
  <2> QED BY <2>1, <1>2, <1>6 DEF Stands, Following, Closed
<1> QED BY <1>5, <1>6

\* Where the i-th texts of both lists stand at one place, they are one text.
OneReading(T, us, ws, z) ==
  \A i \in 1 .. Len(us), r \in Nat :
    i <= Len(ws) /\ Stands(T, r, us, z, i) /\ Stands(T, r, ws, z, i) => us[i] = ws[i]

\* Two lists read from one place read alike, as long as both go on.
LEMMA ReadInStep ==
  ASSUME NEW T \in Texts, NEW q \in Nat, NEW z \in Characters,
         NEW us \in Seq(Texts), NEW ws \in Seq(Texts),
         Closed(T, q, us, z), Closed(T, q, ws, z), OneReading(T, us, ws, z),
         NEW e, Laid(us, e), NEW f, Laid(ws, f)
  PROVE  \A i \in 1 .. Len(us) : i <= Len(ws) => us[i] = ws[i] /\ e[i] = f[i]
<1> DEFINE Good(i) == us[i] = ws[i] /\ e[i] = f[i]
           Bad == {i \in 1 .. Len(us) : i <= Len(ws) /\ ~Good(i)}
<1> SUFFICES ASSUME Bad # {} PROVE FALSE
  OBVIOUS
<1>1. PICK i \in Bad : \A j \in Bad : i <= j
  <2>1. Bad \subseteq Nat
    OBVIOUS
  <2> HIDE DEF Bad
  <2> QED BY <2>1, Flatten!LeastNumber
<1>2. i \in 1 .. Len(us) /\ i \in 1 .. Len(ws) /\ ~Good(i)
  BY <1>1
<1>3. e[i - 1] = f[i - 1]
  <2>1. CASE i = 1
    BY <2>1 DEF Laid
  <2>2. CASE i # 1
    <3>1. i - 1 \in 1 .. Len(us) /\ i - 1 <= Len(ws)
      BY <1>2, <2>2
    <3>2. i - 1 \notin Bad
      <4> HIDE DEF Bad
      <4> QED BY <1>1, <1>2
    <3> QED BY <3>1, <3>2
  <2> QED BY <2>1, <2>2
<1>4. e[i - 1] \in Nat /\ e[i] = e[i - 1] + Len(us[i]) /\ f[i] = f[i - 1] + Len(ws[i])
  <2>1. i - 1 \in 0 .. Len(us)
    BY <1>2
  <2> QED BY <2>1, <1>2 DEF Laid
<1>5. Stands(T, q + e[i - 1], us, z, i) /\ Stands(T, q + e[i - 1], ws, z, i)
  <2> HIDE DEF Bad, Good
  <2> QED BY <1>2, <1>3, ItemStands
<1>6. us[i] = ws[i]
  <2>1. q + e[i - 1] \in Nat /\ i <= Len(ws)
    BY <1>4, <1>2
  <2> HIDE DEF Bad, Good
  <2> QED BY <2>1, <1>2, <1>5 DEF OneReading
<1> QED BY <1>2, <1>3, <1>4, <1>6

\* Neither list goes on where the other one is closed.
LEMMA NotLonger ==
  ASSUME NEW T \in Texts, NEW q \in Nat, NEW z \in Characters,
         NEW us \in Seq(Texts), NEW ws \in Seq(Texts),
         Closed(T, q, us, z), Closed(T, q, ws, z), OneReading(T, us, ws, z)
  PROVE  Len(ws) <= Len(us)
<1>1. PICK e : Laid(us, e)
  BY Flattened
<1>2. PICK f : Laid(ws, f)
  BY Flattened
<1> SUFFICES ASSUME Len(us) < Len(ws) PROVE FALSE
  OBVIOUS
<1> DEFINE n == Len(us)
<1>3. n \in Nat /\ n + 1 \in 1 .. Len(ws) /\ n \in 0 .. Len(ws) /\ (n + 1) - 1 = n
  OBVIOUS
<1>4. e[n] = f[n]
  <2>1. CASE n = 0
    BY <2>1, <1>1, <1>2 DEF Laid
  <2>2. CASE n # 0
    <3>1. n \in 1 .. Len(us) /\ n <= Len(ws)
      BY <1>3, <2>2
    <3> HIDE DEF n
    <3> QED BY <3>1, <1>1, <1>2, ReadInStep
  <2> QED BY <2>1, <2>2
<1>5. At(T, q + f[n], ws[n + 1])
  BY <1>2, <1>3, ItemStands DEF Stands
<1>6. At(T, q + f[n], <<z>>)
  BY <1>1, <1>4 DEF Closed, Laid
<1>7. ws[n + 1] \in Texts /\ Len(ws[n + 1]) > 0 /\ ws[n + 1][1] # z
  <2>1. ws[n + 1] \in Texts
    BY <1>3
  <2> HIDE DEF n
  <2> QED BY <1>3, <2>1 DEF Closed
<1>8. T[q + f[n] + 1] = ws[n + 1][1]
  BY <1>5, <1>7 DEF At, Texts
<1>9. T[q + f[n] + 1] = z
  <2>1. q + f[n] \in Nat
    BY <1>2, <1>3 DEF Laid
  <2> HIDE DEF n
  <2> QED BY <2>1, <1>6, AtSymbol
<1> QED BY <1>7, <1>8, <1>9

\* From one place one list is read.
LEMMA ListRead ==
  ASSUME NEW T \in Texts, NEW q \in Nat, NEW z \in Characters,
         NEW us \in Seq(Texts), NEW ws \in Seq(Texts),
         Closed(T, q, us, z), Closed(T, q, ws, z), OneReading(T, us, ws, z)
  PROVE  us = ws
<1>1. PICK e : Laid(us, e)
  BY Flattened
<1>2. PICK f : Laid(ws, f)
  BY Flattened
<1>3. \A i \in 1 .. Len(us) : i <= Len(ws) => us[i] = ws[i]
  BY <1>1, <1>2, ReadInStep
<1>4. Len(ws) <= Len(us)
  BY NotLonger
<1>5. OneReading(T, ws, us, z)
  <2> SUFFICES ASSUME NEW i \in 1 .. Len(ws), NEW r \in Nat, i <= Len(us),
                      Stands(T, r, ws, z, i), Stands(T, r, us, z, i)
               PROVE  ws[i] = us[i]
    BY DEF OneReading
  <2>1. i \in 1 .. Len(us) /\ i <= Len(ws)
    OBVIOUS
  <2> QED BY <2>1 DEF OneReading
<1>6. Len(us) <= Len(ws)
  BY <1>5, NotLonger
<1> QED BY <1>3, <1>4, <1>6

-----------------------------------------------------------------------------
(* Strings. *)

\* The symbols a string is written with as they are.
Plain(c) == c \notin {Quote, "\\", "BS", "FF", "LF", "CR", "HT", "SOH", "ESC"}
\* The second symbol of the codes of two symbols.
Short == [x \in {Quote, "\\", "BS", "FF", "LF", "CR", "HT"} |->
            CASE x = Quote -> Quote [] x = "\\" -> "\\" [] x = "BS" -> "b" [] x = "FF" -> "f"
              [] x = "LF" -> "n" [] x = "CR" -> "r" [] x = "HT" -> "t"]
\* The code of every symbol.
LEMMA Codes ==
  ASSUME NEW c \in Characters
  PROVE  /\ Plain(c) => Escaped(c) = <<c>>
         /\ c \in DOMAIN Short => Escaped(c) = <<"\\", Short[c]>>
         /\ c = "SOH" => Escaped(c) = <<"\\", "u", "0", "0", "0", "1">>
         /\ c = "ESC" => Escaped(c) = <<"\\", "u", "0", "0", "1", "b">>
         /\ Plain(c) \/ c \in DOMAIN Short \/ c = "SOH" \/ c = "ESC"
BY MarksDiffer DEF Escaped, Plain, Short, Quote

\* No two codes of two symbols are the same, and none begins as one of six.
LEMMA ShortCodes ==
  /\ \A x \in DOMAIN Short : Short[x] \in Characters /\ Short[x] # "u"
  /\ \A x, y \in DOMAIN Short : Short[x] = Short[y] => x = y
BY MarksAreCharacters, MarksDiffer DEF Short

\* A code is a text that does not begin with a quote.
LEMMA EscapedText ==
  ASSUME NEW c \in Characters
  PROVE  Escaped(c) \in Texts /\ Len(Escaped(c)) > 0 /\ Escaped(c)[1] # Quote
<1>0. {"\\", "u", "0", "1", "b"} \subseteq Characters
  BY MarksAreCharacters
<1>1. CASE Plain(c)
  <2>1. Escaped(c) = <<c>> /\ c # Quote
    BY <1>1, Codes DEF Plain
  <2>2. <<c>> \in Texts /\ Len(<<c>>) = 1 /\ <<c>>[1] = c
    BY OneSymbol
  <2>3. Escaped(c) \in Texts
    BY <2>1, <2>2
  <2>4. Len(Escaped(c)) > 0
    BY <2>1, <2>2
  <2>5. Escaped(c)[1] # Quote
    <3>1. Escaped(c)[1] = c
      BY <2>1, <2>2
    <3> QED BY <2>1, <3>1
  <2> QED BY <2>3, <2>4, <2>5
<1>2. CASE c \in DOMAIN Short
  <2>1. Escaped(c) = <<"\\", Short[c]>>
    BY <1>2, Codes
  <2>2. Short[c] \in Characters
    BY <1>2, ShortCodes
  <2>3. <<"\\", Short[c]>> \in Texts /\ Len(<<"\\", Short[c]>>) = 2 /\ <<"\\", Short[c]>>[1] = "\\"
    BY <2>2, <1>0, TwoSymbols
  <2> QED BY <2>1, <2>3, MarksDiffer
<1>3. CASE c = "SOH"
  <2>1. Escaped(c) = <<"\\", "u", "0", "0", "0", "1">>
    BY <1>3, Codes
  <2> QED BY <2>1, <1>0, SixSymbols, MarksDiffer
<1>4. CASE c = "ESC"
  <2>1. Escaped(c) = <<"\\", "u", "0", "0", "1", "b">>
    BY <1>4, Codes
  <2> QED BY <2>1, <1>0, SixSymbols, MarksDiffer
<1> QED BY <1>1, <1>2, <1>3, <1>4, Codes

\* At one place stands the code of one character only.
LEMMA EscapedRead ==
  ASSUME NEW T \in Texts, NEW r \in Nat, NEW c \in Characters, NEW d \in Characters,
         At(T, r, Escaped(c)), At(T, r, Escaped(d))
  PROVE  c = d
<1> DEFINE Shows(x) ==
      \/ Plain(x) /\ T[r + 1] = x
      \/ x \in DOMAIN Short /\ T[r + 1] = "\\" /\ T[r + 2] = Short[x]
      \/ x = "SOH" /\ T[r + 1] = "\\" /\ T[r + 2] = "u" /\ T[r + 5] = "0"
      \/ x = "ESC" /\ T[r + 1] = "\\" /\ T[r + 2] = "u" /\ T[r + 5] = "1"
<1>0. {"\\", "u", "0", "1", "b"} \subseteq Characters
  BY MarksAreCharacters
<1>1. ASSUME NEW x \in Characters, At(T, r, Escaped(x))
      PROVE  Shows(x)
  <2>1. \A i \in 1 .. Len(Escaped(x)) : T[r + i] = Escaped(x)[i]
    BY <1>1 DEF At
  <2>2. CASE Plain(x)
    <3>1. Escaped(x) = <<x>>
      BY <2>2, Codes
    <3> QED BY <2>1, <2>2, <3>1, OneSymbol
  <2>3. CASE x \in DOMAIN Short
    <3>1. Escaped(x) = <<"\\", Short[x]>> /\ Short[x] \in Characters
      BY <2>3, Codes, ShortCodes
    <3>2. Len(Escaped(x)) = 2 /\ Escaped(x)[1] = "\\" /\ Escaped(x)[2] = Short[x]
      BY <3>1, <1>0, TwoSymbols
    <3> QED BY <2>1, <2>3, <3>2
  <2>4. CASE x = "SOH"
    <3>1. Escaped(x) = <<"\\", "u", "0", "0", "0", "1">>
      BY <2>4, Codes
    <3>2. Len(Escaped(x)) = 6 /\ Escaped(x)[1] = "\\" /\ Escaped(x)[2] = "u" /\ Escaped(x)[5] = "0"
      BY <3>1, <1>0, SixSymbols
    <3> QED BY <2>1, <2>4, <3>2
  <2>5. CASE x = "ESC"
    <3>1. Escaped(x) = <<"\\", "u", "0", "0", "1", "b">>
      BY <2>5, Codes
    <3>2. Len(Escaped(x)) = 6 /\ Escaped(x)[1] = "\\" /\ Escaped(x)[2] = "u" /\ Escaped(x)[5] = "1"
      BY <3>1, <1>0, SixSymbols
    <3> QED BY <2>1, <2>5, <3>2
  <2> QED BY <2>2, <2>3, <2>4, <2>5, Codes
<1>2. Shows(c) /\ Shows(d)
  BY <1>1
<1> QED BY <1>2, ShortCodes, MarksDiffer DEF Plain

\* A text between an opening and a closing symbol.
Bracket(a, w, z) == <<a>> \o w \o <<z>>

\* What stands where a text in brackets stands.
LEMMA Bracketed ==
  ASSUME NEW a \in Characters, NEW z \in Characters, NEW w \in Texts
  PROVE  /\ Bracket(a, w, z) \in Texts /\ Len(Bracket(a, w, z)) = Len(w) + 2
         /\ Bracket(a, w, z)[1] = a
         /\ \A T \in Texts, p \in Nat :
              At(T, p, Bracket(a, w, z)) => At(T, p + 1, w) /\ At(T, p + 1 + Len(w), <<z>>)
<1> DEFINE u == <<a>> \o w
           v == Bracket(a, w, z)
<1>1. <<a>> \in Texts /\ <<z>> \in Texts /\ Len(<<a>>) = 1 /\ Len(<<z>>) = 1 /\ <<a>>[1] = a
  BY OneSymbol
<1>2. u \in Texts /\ Len(u) = 1 + Len(w) /\ u[1] = a /\ Len(w) \in Nat
  BY <1>1 DEF Texts
<1>3. v = u \o <<z>>
  BY DEF Bracket
<1> HIDE DEF v
<1>4. v \in Texts /\ Len(v) = Len(w) + 2 /\ v[1] = a
  <2> HIDE DEF u
  <2> QED BY <1>1, <1>2, <1>3 DEF Texts
<1>5. ASSUME NEW T \in Texts, NEW p \in Nat, At(T, p, v)
      PROVE  At(T, p + 1, w) /\ At(T, p + 1 + Len(w), <<z>>)
  <2> HIDE DEF u
  <2>0. At(T, p, u \o <<z>>)
    BY <1>3, <1>5, Zenon
  <2>1. At(T, p, u) /\ At(T, p + Len(u), <<z>>)
    BY <2>0, <1>1, <1>2, AtBoth
  <2> USE DEF u
  <2>2. At(T, p + Len(<<a>>), w)
    BY <1>1, <2>1, AtBoth
  <2>3. p + Len(<<a>>) = p + 1 /\ p + Len(u) = p + 1 + Len(w)
    <3> HIDE DEF u
    <3> QED BY <1>1, <1>2
  <2> HIDE DEF u
  <2> QED BY <2>1, <2>2, <2>3
<1> HIDE DEF u
<1> QED BY <1>4, <1>5 DEF v

\* The escape codes of a string.
BytesOf(s) == [i \in DOMAIN s |-> Escaped(s[i])]

\* The codes of a string, one for each of its symbols.
LEMMA BytesAreTexts ==
  ASSUME NEW s \in Texts
  PROVE  /\ BytesOf(s) \in Seq(Texts) /\ Len(BytesOf(s)) = Len(s)
         /\ \A i \in 1 .. Len(s) : s[i] \in Characters /\ BytesOf(s)[i] = Escaped(s[i])
<1>1. DOMAIN s = 1 .. Len(s) /\ Len(s) \in Nat /\ \A i \in 1 .. Len(s) : s[i] \in Characters
  BY DEF Texts
<1>2. \A i \in 1 .. Len(s) : Escaped(s[i]) \in Texts
  BY <1>1, EscapedText
<1> QED BY <1>1, <1>2 DEF BytesOf

\* What WriteString writes.
LEMMA StringText ==
  ASSUME NEW s \in Texts
  PROVE  /\ WriteString(s) \in Texts /\ Len(WriteString(s)) > 0 /\ WriteString(s)[1] = Quote
         /\ \A T \in Texts, p \in Nat : At(T, p, WriteString(s)) => Closed(T, p + 1, BytesOf(s), Quote)
<1> DEFINE F == FlattenSeq(BytesOf(s))
<1>1. F \in Texts /\ Len(F) \in Nat
  <2>1. F \in Texts
    BY BytesAreTexts, Flattened
  <2> QED BY <2>1 DEF Texts
<1>2. Quote \in Characters
  BY MarksAreCharacters
<1>3. WriteString(s) = Bracket(Quote, F, Quote)
  BY DEF WriteString, BytesOf, Bracket, Quote
<1>4. \A i \in 1 .. Len(BytesOf(s)) : Len(BytesOf(s)[i]) > 0 /\ BytesOf(s)[i][1] # Quote
  <2> SUFFICES ASSUME NEW i \in 1 .. Len(BytesOf(s))
               PROVE  Len(BytesOf(s)[i]) > 0 /\ BytesOf(s)[i][1] # Quote
    OBVIOUS
  <2>1. i \in 1 .. Len(s)
    BY BytesAreTexts
  <2>2. s[i] \in Characters /\ BytesOf(s)[i] = Escaped(s[i])
    BY <2>1, BytesAreTexts
  <2> QED BY <2>2, EscapedText
<1> HIDE DEF F
<1>5. /\ WriteString(s) \in Texts /\ Len(WriteString(s)) = Len(F) + 2 /\ WriteString(s)[1] = Quote
      /\ \A T \in Texts, p \in Nat :
           At(T, p, WriteString(s)) => At(T, p + 1, F) /\ At(T, p + 1 + Len(F), <<Quote>>)
  BY <1>1, <1>2, <1>3, Bracketed
<1> QED BY <1>1, <1>4, <1>5 DEF Closed, F

\* Two strings written at one place are one string.
LEMMA StringRead ==
  ASSUME NEW T \in Texts, NEW p \in Nat, NEW s \in Texts, NEW t \in Texts,
         At(T, p, WriteString(s)), At(T, p, WriteString(t))
  PROVE  s = t
<1>1. Closed(T, p + 1, BytesOf(s), Quote) /\ Closed(T, p + 1, BytesOf(t), Quote)
  BY StringText
<1>2. Quote \in Characters /\ p + 1 \in Nat
  <2>1. Quote \in Characters
    BY MarksAreCharacters
  <2> QED BY <2>1
<1>3. OneReading(T, BytesOf(s), BytesOf(t), Quote)
  <2> SUFFICES ASSUME NEW i \in 1 .. Len(BytesOf(s)), NEW r \in Nat, i <= Len(BytesOf(t)),
                      At(T, r, BytesOf(s)[i]), At(T, r, BytesOf(t)[i])
               PROVE  BytesOf(s)[i] = BytesOf(t)[i]
    BY DEF OneReading, Stands
  <2>1. i \in 1 .. Len(s) /\ i \in 1 .. Len(t)
    BY BytesAreTexts
  <2>2. s[i] \in Characters /\ t[i] \in Characters
        /\ BytesOf(s)[i] = Escaped(s[i]) /\ BytesOf(t)[i] = Escaped(t[i])
    BY <2>1, BytesAreTexts
  <2>3. s[i] = t[i]
    BY <2>2, EscapedRead
  <2> QED BY <2>2, <2>3
<1>4. BytesOf(s) = BytesOf(t)
  BY <1>1, <1>2, <1>3, BytesAreTexts, ListRead
<1>5. Len(s) = Len(t)
  BY <1>4, BytesAreTexts
<1>6. ASSUME NEW i \in 1 .. Len(s)
      PROVE  s[i] = t[i]
  <2>1. s[i] \in Characters /\ t[i] \in Characters /\ Escaped(s[i]) = Escaped(t[i])
    BY <1>4, <1>5, BytesAreTexts
  <2>2. Escaped(s[i]) \in Texts /\ At(Escaped(s[i]), 0, Escaped(s[i]))
    BY <2>1, EscapedText, AtStart
  <2> QED BY <2>1, <2>2, EscapedRead
<1> QED BY <1>5, <1>6 DEF Texts

-----------------------------------------------------------------------------
(* Numbers. *)

\* One step of the recursion of Digits.
DigitsOne(p, k, f) == IF k < 10 THEN <<Numeral(k)>> ELSE f[k \div 10] \o <<Numeral(k % 10)>>
\* That recursion.
Decimals == INSTANCE RecursiveFunctions WITH Body <- DigitsOne

\* The ten numerals.
NumeralSymbols == {Numeral(k) : k \in 0 .. 9}

\* Numerals are characters, no two alike and none a bracket, a sign or a letter.
LEMMA NumeralsDiffer ==
  /\ NumeralSymbols \subseteq Characters
  /\ \A j, k \in 0 .. 9 : Numeral(j) = Numeral(k) => j = k
  /\ NumeralSymbols \cap {"-", Comma, "]", RBrace, "n", "t", "f", Quote, "[", LBrace} = {}
<1>1. \A k \in 0 .. 9 : Numeral(k) = CASE k = 0 -> "0" [] k = 1 -> "1" [] k = 2 -> "2" [] k = 3 -> "3"
                         [] k = 4 -> "4" [] k = 5 -> "5" [] k = 6 -> "6" [] k = 7 -> "7"
                         [] k = 8 -> "8" [] k = 9 -> "9"
  BY DEF Numeral, Numerals
<1>2. \A k \in 0 .. 9 : k \in {0, 1, 2, 3, 4, 5, 6, 7, 8, 9}
  OBVIOUS
<1>3. {"0", "1", "2", "3", "4", "5", "6", "7", "8", "9"} \subseteq Characters
  BY MarksAreCharacters
<1>4. \A k \in 0 .. 9 : Numeral(k) \in {"0", "1", "2", "3", "4", "5", "6", "7", "8", "9"}
  BY <1>1, <1>2
<1>5. \A j, k \in 0 .. 9 : Numeral(j) = Numeral(k) => j = k
  BY <1>1, <1>2
<1>6. NumeralSymbols \subseteq {"0", "1", "2", "3", "4", "5", "6", "7", "8", "9"}
  BY <1>4 DEF NumeralSymbols
<1>7. NumeralSymbols \subseteq Characters
  BY <1>3, <1>6
<1>8. NumeralSymbols \cap {"-", Comma, "]", RBrace, "n", "t", "f", Quote, "[", LBrace} = {}
  BY <1>6, MarksDiffer
<1> QED BY <1>5, <1>7, <1>8

\* A number is ten times its tenth and the rest.
LEMMA TenParts ==
  ASSUME NEW k \in Nat
  PROVE  /\ k \div 10 \in Nat /\ k % 10 \in 0 .. 9 /\ k = 10 * (k \div 10) + (k % 10)
         /\ k >= 10 => k \div 10 < k
OBVIOUS

\* The recursion of Digits, as an equation.
LEMMA DigitsEquation ==
  ASSUME NEW n \in Nat
  PROVE  Digits(n) = IF n < 10 THEN <<Numeral(n)>> ELSE Digits(n \div 10) \o <<Numeral(n % 10)>>
<1> DEFINE digits == CHOOSE f : f = [k \in Nat |-> DigitsOne(0, k, f)]
           rank == [k \in Nat |-> k]
<1>1. Decimals!LooksLower(0, Nat, rank)
  <2> SUFFICES ASSUME NEW k \in Nat, NEW f, NEW g,
                      \A j \in Nat : rank[j] < rank[k] => f[j] = g[j]
               PROVE  DigitsOne(0, k, f) = DigitsOne(0, k, g)
    BY DEF Decimals!LooksLower
  <2>1. k >= 10 => f[k \div 10] = g[k \div 10]
    BY TenParts
  <2> HIDE DEF rank
  <2> QED BY <2>1 DEF DigitsOne
<1>2. \A k \in Nat : rank[k] \in Nat
  OBVIOUS
<1>3. \E f : Decimals!Solves(0, Nat, f)
  <2> HIDE DEF rank
  <2> QED BY <1>1, <1>2, Decimals!Solved
<1>4. \E f : f = [k \in Nat |-> DigitsOne(0, k, f)]
  BY <1>3 DEF Decimals!Solves
<1>5. digits = [k \in Nat |-> DigitsOne(0, k, digits)]
  <2> HIDE DEF rank
  <2> QED BY <1>4
<1>6. \A k \in Nat : Digits(k) = digits[k]
  BY DEF Digits, DigitsOne
<1> HIDE DEF digits
<1>7. digits[n] = DigitsOne(0, n, digits)
  BY <1>5
<1>8. n \div 10 \in Nat
  BY TenParts
<1>9. CASE n < 10
  BY <1>6, <1>7, <1>9 DEF DigitsOne
<1>10. CASE ~(n < 10)
  <2>1. digits[n] = digits[n \div 10] \o <<Numeral(n % 10)>>
    BY <1>7, <1>10 DEF DigitsOne
  <2> QED BY <2>1, <1>6, <1>8, <1>10
<1> QED BY <1>9, <1>10

\* The text of a number of one numeral.
LEMMA DigitsOfSmall ==
  ASSUME NEW n \in Nat, n < 10
  PROVE  Digits(n) = <<Numeral(n)>> /\ Numeral(n) \in NumeralSymbols
<1>1. Digits(n) = IF n < 10 THEN <<Numeral(n)>> ELSE Digits(n \div 10) \o <<Numeral(n % 10)>>
  BY DigitsEquation
<1>2. n \in 0 .. 9
  OBVIOUS
<1>3. Digits(n) = <<Numeral(n)>>
  BY <1>1, Zenon
<1> QED BY <1>2, <1>3 DEF NumeralSymbols

\* The text of a number of more numerals.
LEMMA DigitsOfLarge ==
  ASSUME NEW n \in Nat, n >= 10
  PROVE  Digits(n) = Digits(n \div 10) \o <<Numeral(n % 10)>> /\ Numeral(n % 10) \in NumeralSymbols
<1>1. Digits(n) = IF n < 10 THEN <<Numeral(n)>> ELSE Digits(n \div 10) \o <<Numeral(n % 10)>>
  BY DigitsEquation
<1>2. ~(n < 10) /\ n % 10 \in 0 .. 9
  BY TenParts
<1>3. Digits(n) = Digits(n \div 10) \o <<Numeral(n % 10)>>
  BY <1>1, <1>2, Zenon
<1> QED BY <1>2, <1>3 DEF NumeralSymbols

\* The digits of a number: at least one, and only digits.
LEMMA DigitsText ==
  ASSUME NEW n \in Nat
  PROVE  Digits(n) \in Seq(NumeralSymbols) /\ Len(Digits(n)) > 0
<1> DEFINE Good(k) == Digits(k) \in Seq(NumeralSymbols) /\ Len(Digits(k)) > 0
           Bad == {k \in Nat : ~Good(k)}
<1> SUFFICES ASSUME Bad # {} PROVE FALSE
  OBVIOUS
<1>1. PICK k \in Bad : \A j \in Bad : k <= j
  <2>1. Bad \subseteq Nat
    OBVIOUS
  <2> HIDE DEF Bad
  <2> QED BY <2>1, Flatten!LeastNumber
<1>2. k \in Nat /\ ~Good(k)
  BY <1>1
<1>3. CASE k < 10
  <2>1. Digits(k) = <<Numeral(k)>> /\ Numeral(k) \in NumeralSymbols
    BY <1>2, <1>3, DigitsOfSmall
  <2> HIDE DEF Bad
  <2>2. Digits(k) \in Seq(NumeralSymbols) 
    BY <2>1
  <2>3. Len(<<Numeral(k)>>) = 1
    OBVIOUS
  <2>4. Len(Digits(k)) = 1
    BY <2>1, <2>3, Zenon
  <2> QED BY <1>2, <2>2, <2>4
<1>4. CASE k >= 10
  <2>1. k \div 10 \in Nat /\ k \div 10 < k /\ k % 10 \in 0 .. 9
    BY <1>2, <1>4, TenParts
  <2>2. k \div 10 \notin Bad
    <3> HIDE DEF Bad
    <3> QED BY <1>1, <1>2, <2>1
  <2>3. Good(k \div 10)
    BY <2>1, <2>2
  <2>4. Digits(k) = Digits(k \div 10) \o <<Numeral(k % 10)>>
    BY <1>2, <1>4, DigitsOfLarge
  <2>5. Numeral(k % 10) \in NumeralSymbols
    BY <2>1 DEF NumeralSymbols
  <2> HIDE DEF Bad
  <2>6. Len(Digits(k)) = Len(Digits(k \div 10)) + 1 /\ Digits(k) \in Seq(NumeralSymbols)
    BY <2>3, <2>4, <2>5
  <2> QED BY <2>3, <2>6, <1>2
<1> QED BY <1>2, <1>3, <1>4

\* The numerals of a number are of no other number.
LEMMA DigitsDecide ==
  ASSUME NEW m \in Nat, NEW n \in Nat, Digits(m) = Digits(n)
  PROVE  m = n
<1> DEFINE Good(k) == \A j \in Nat : Digits(k) = Digits(j) => k = j
           Bad == {k \in Nat : ~Good(k)}
<1> SUFFICES ASSUME Bad # {} PROVE FALSE
  OBVIOUS
<1>1. PICK k \in Bad : \A j \in Bad : k <= j
  <2>1. Bad \subseteq Nat
    OBVIOUS
  <2> HIDE DEF Bad
  <2> QED BY <2>1, Flatten!LeastNumber
<1>2. k \in Nat /\ ~Good(k)
  BY <1>1
<1>3. PICK j \in Nat : Digits(k) = Digits(j) /\ k # j
  BY <1>2
<1>4. \A i \in Nat : i >= 10 =>
        /\ Len(Digits(i)) = Len(Digits(i \div 10)) + 1 /\ Len(Digits(i \div 10)) > 0
        /\ Digits(i)[Len(Digits(i))] = Numeral(i % 10)
        /\ Digits(i \div 10) = SubSeq(Digits(i), 1, Len(Digits(i)) - 1)
  <2> SUFFICES ASSUME NEW i \in Nat, i >= 10
      PROVE /\ Len(Digits(i)) = Len(Digits(i \div 10)) + 1 /\ Len(Digits(i \div 10)) > 0
        /\ Digits(i)[Len(Digits(i))] = Numeral(i % 10)
        /\ Digits(i \div 10) = SubSeq(Digits(i), 1, Len(Digits(i)) - 1)
    OBVIOUS
  <2> DEFINE front == Digits(i \div 10)
  <2>1. i \div 10 \in Nat
    BY TenParts
  <2>2. front \in Seq(NumeralSymbols) /\ Len(front) > 0
    BY <2>1, DigitsText
  <2>3. Digits(i) = front \o <<Numeral(i % 10)>> /\ Numeral(i % 10) \in NumeralSymbols
    BY DigitsOfLarge
  <2> HIDE DEF front
  <2>4. Len(Digits(i)) = Len(front) + 1 /\ Digits(i)[Len(front) + 1] = Numeral(i % 10)
    BY <2>2, <2>3
  <2>5. front = SubSeq(Digits(i), 1, Len(front))
    BY <2>2, <2>3
  <2>6. Len(Digits(i)) - 1 = Len(front)
    BY <2>4, <2>2
  <2> QED BY <2>2, <2>4, <2>5, <2>6 DEF front
<1>5. \A i \in Nat : i < 10 => Digits(i) = <<Numeral(i)>> /\ Len(Digits(i)) = 1 /\ Digits(i)[1] = Numeral(i)
  <2> SUFFICES ASSUME NEW i \in Nat, i < 10
      PROVE Digits(i) = <<Numeral(i)>> /\ Len(Digits(i)) = 1 /\ Digits(i)[1] = Numeral(i)
    OBVIOUS
  <2>1. Digits(i) = <<Numeral(i)>>
    BY DigitsOfSmall
  <2>2. Len(<<Numeral(i)>>) = 1 /\ <<Numeral(i)>>[1] = Numeral(i)
    OBVIOUS
  <2> QED BY <2>1, <2>2, Zenon
<1> HIDE DEF Bad
<1>6. CASE k < 10
  <2>1. j < 10
    <3> SUFFICES ASSUME j >= 10 PROVE FALSE
      OBVIOUS
    <3>1. Len(Digits(j \div 10)) \in Nat
      BY TenParts, DigitsText
    <3> QED BY <1>2, <1>3, <1>4, <1>5, <1>6, <3>1
  <2>2. Numeral(k) = Numeral(j)
    BY <1>2, <1>3, <1>5, <1>6, <2>1
  <2> QED BY <1>2, <1>3, <1>6, <2>1, <2>2, NumeralsDiffer
<1>7. CASE k >= 10
  <2>1. j >= 10
    <3> SUFFICES ASSUME j < 10 PROVE FALSE
      OBVIOUS
    <3>1. Len(Digits(k \div 10)) \in Nat
      BY <1>2, TenParts, DigitsText
    <3> QED BY <1>2, <1>3, <1>4, <1>5, <1>7, <3>1
  <2>2. Digits(k \div 10) = Digits(j \div 10) /\ Numeral(k % 10) = Numeral(j % 10)
    BY <1>2, <1>3, <1>4, <1>7, <2>1
  <2>3. k \div 10 \notin Bad
    BY <1>1, <1>2, <1>7, TenParts
  <2>4. Good(k \div 10) /\ j \div 10 \in Nat
    BY <2>3, <1>2, TenParts DEF Bad
  <2>5. k \div 10 = j \div 10
    BY <2>2, <2>4
  <2>6. k % 10 = j % 10
    BY <2>2, <1>2, TenParts, NumeralsDiffer
  <2>7. k = 10 * (k \div 10) + (k % 10) /\ j = 10 * (j \div 10) + (j % 10)
    BY <1>2, TenParts
  <2> QED BY <2>5, <2>6, <2>7, <1>3
<1> QED BY <1>2, <1>6, <1>7

\* A number, a word or anything else ends here: the text is over, or the list
\* it stands in goes on or is closed.
Ended(T, q) == q = Len(T) \/ (q + 1 <= Len(T) /\ T[q + 1] \in {Comma, "]", RBrace})

\* The length of a text, and its symbols.
LEMMA TextParts ==
  ASSUME NEW w \in Texts
  PROVE  /\ Len(w) \in Nat /\ DOMAIN w = 1 .. Len(w)
         /\ \A i \in 1 .. Len(w) : w[i] \in Characters
BY DEF Texts

\* What stands in T is read there, symbol by symbol.
LEMMA FirstSymbol ==
  ASSUME NEW T \in Texts, NEW p \in Nat, NEW w \in Texts, At(T, p, w), Len(w) > 0
  PROVE  T[p + 1] = w[1] /\ p + 1 <= Len(T)
BY TextParts DEF At

\* Digits are symbols, so their text is a text.
LEMMA DigitsAreText ==
  ASSUME NEW n \in Nat
  PROVE  /\ Digits(n) \in Texts /\ Len(Digits(n)) \in Nat /\ Len(Digits(n)) > 0
         /\ \A i \in 1 .. Len(Digits(n)) : Digits(n)[i] \in NumeralSymbols
<1>1. Digits(n) \in Seq(NumeralSymbols) /\ Len(Digits(n)) > 0
  BY DigitsText
<1>2. Digits(n) \in Seq(Characters)
  BY <1>1, NumeralsDiffer
<1>3. \A i \in 1 .. Len(Digits(n)) : Digits(n)[i] \in NumeralSymbols
  BY <1>1
<1> QED BY <1>1, <1>2, <1>3 DEF Texts

\* Digits cannot go on where other digits have ended.
LEMMA DigitsNotLonger ==
  ASSUME NEW T \in Texts, NEW p \in Nat, NEW m \in Nat, NEW n \in Nat,
         At(T, p, Digits(m)), At(T, p, Digits(n)), Ended(T, p + Len(Digits(m)))
  PROVE  Len(Digits(n)) <= Len(Digits(m))
<1> DEFINE k == Len(Digits(m))
<1> SUFFICES ASSUME k < Len(Digits(n)) PROVE FALSE
  <2>1. Len(Digits(m)) \in Nat /\ Len(Digits(n)) \in Nat
    BY DigitsAreText
  <2> QED BY <2>1
<1>1. k \in Nat /\ Len(Digits(n)) \in Nat /\ Len(T) \in Nat
  <2>1. Len(Digits(m)) \in Nat /\ Len(Digits(n)) \in Nat
    BY DigitsAreText
  <2> QED BY <2>1, TextParts
<1> HIDE DEF k
<1>2. k + 1 \in 1 .. Len(Digits(n)) /\ p + (k + 1) <= Len(T) /\ p + (k + 1) = p + k + 1
  BY <1>1 DEF At
<1>3. T[p + k + 1] = Digits(n)[k + 1] /\ Digits(n)[k + 1] \in NumeralSymbols
  <2>1. T[p + (k + 1)] = Digits(n)[k + 1]
    BY <1>2 DEF At
  <2>2. Digits(n)[k + 1] \in NumeralSymbols
    BY <1>2, DigitsAreText
  <2> QED BY <1>2, <2>1, <2>2
<1>4. T[p + k + 1] \in {Comma, "]", RBrace}
  BY <1>1, <1>2 DEF Ended, k
<1> QED BY <1>3, <1>4, NumeralsDiffer

\* Two numbers written at one place, both ended, are one number.
LEMMA DigitsReadOnce ==
  ASSUME NEW T \in Texts, NEW p \in Nat, NEW m \in Nat, NEW n \in Nat,
         At(T, p, Digits(m)), At(T, p, Digits(n)),
         Ended(T, p + Len(Digits(m))), Ended(T, p + Len(Digits(n)))
  PROVE  m = n
<1>1. Digits(m) \in Texts /\ Digits(n) \in Texts
  BY DigitsAreText
<1>2. Len(Digits(n)) <= Len(Digits(m)) /\ Len(Digits(m)) <= Len(Digits(n))
  BY DigitsNotLonger
<1>3. Len(Digits(n)) = Len(Digits(m))
  BY <1>1, <1>2 DEF Texts
<1>4. Digits(m) = Digits(n)
  BY <1>1, <1>3, AtSame
<1> QED BY <1>4, DigitsDecide

\* What WriteNumber writes, and what it begins with.
LEMMA NumberText ==
  ASSUME NEW n \in Int
  PROVE  /\ WriteNumber(n) \in Texts /\ Len(WriteNumber(n)) > 0
         /\ n < 0 => /\ -n \in Nat /\ WriteNumber(n)[1] = "-"
                     /\ Len(WriteNumber(n)) = 1 + Len(Digits(-n))
                     /\ \A T \in Texts, p \in Nat :
                          At(T, p, WriteNumber(n)) => At(T, p + 1, Digits(-n))
         /\ n >= 0 => n \in Nat /\ WriteNumber(n) = Digits(n) /\ WriteNumber(n)[1] \in NumeralSymbols
<1>1. CASE n < 0
  <2>1. -n \in Nat /\ ~(n >= 0)
    BY <1>1
  <2>2. WriteNumber(n) = <<"-">> \o Digits(-n)
    BY <1>1, Zenon DEF WriteNumber
  <2>3. <<"-">> \in Texts /\ Len(<<"-">>) = 1 /\ <<"-">>[1] = "-"
    BY MarksAreCharacters, OneSymbol
  <2> DEFINE w == Digits(-n)
  <2>4. w \in Texts /\ Len(w) \in Nat
    BY <2>1, DigitsAreText DEF Texts
  <2> HIDE DEF w
  <2>5. WriteNumber(n) = <<"-">> \o w
    BY <2>2 DEF w
  <2>6. /\ WriteNumber(n) \in Texts /\ Len(WriteNumber(n)) = 1 + Len(w)
        /\ WriteNumber(n)[1] = "-"
    BY <2>3, <2>4, <2>5 DEF Texts
  <2>7. ASSUME NEW T \in Texts, NEW p \in Nat, At(T, p, WriteNumber(n))
        PROVE  At(T, p + 1, w)
    <3>1. At(T, p, <<"-">> \o w)
      BY <2>5, <2>7, Zenon
    <3>2. At(T, p + Len(<<"-">>), w)
      BY <3>1, <2>3, <2>4, AtBoth
    <3> QED BY <2>3, <3>2
  <2> QED BY <2>1, <2>4, <2>6, <2>7 DEF w
<1>2. CASE n >= 0
  <2>1. n \in Nat /\ ~(n < 0)
    BY <1>2
  <2>2. WriteNumber(n) = Digits(n)
    BY <2>1, Zenon DEF WriteNumber
  <2>3. Digits(n) \in Texts /\ Len(Digits(n)) > 0 /\ Digits(n)[1] \in NumeralSymbols
    <3>1. Digits(n) \in Texts /\ Len(Digits(n)) > 0 /\ \A i \in 1 .. Len(Digits(n)) : Digits(n)[i] \in NumeralSymbols
      BY <2>1, DigitsAreText
    <3>2. 1 \in 1 .. Len(Digits(n))
      BY <3>1 DEF Texts
    <3> QED BY <3>1, <3>2
  <2> QED BY <2>1, <2>2, <2>3
<1> QED BY <1>1, <1>2

\* At one place one number is read, if what is read ends there.
LEMMA NumberRead ==
  ASSUME NEW T \in Texts, NEW p \in Nat, NEW m \in Int, NEW n \in Int,
         At(T, p, WriteNumber(m)), At(T, p, WriteNumber(n)),
         Ended(T, p + Len(WriteNumber(m))), Ended(T, p + Len(WriteNumber(n)))
  PROVE  m = n
<1>0. /\ WriteNumber(m) \in Texts /\ Len(WriteNumber(m)) > 0
      /\ WriteNumber(n) \in Texts /\ Len(WriteNumber(n)) > 0
  BY NumberText
<1>1. T[p + 1] = WriteNumber(m)[1] /\ T[p + 1] = WriteNumber(n)[1]
  BY <1>0, FirstSymbol
<1>2. m < 0 <=> n < 0
  <2>1. "-" \notin NumeralSymbols
    BY NumeralsDiffer
  <2>2. \A i \in {m, n} : /\ i < 0 => WriteNumber(i)[1] = "-"
                          /\ i >= 0 => WriteNumber(i)[1] \in NumeralSymbols
    BY NumberText
  <2>3. (m < 0 \/ m >= 0) /\ (n < 0 \/ n >= 0)
    OBVIOUS
  <2> QED BY <1>1, <2>1, <2>2, <2>3
<1>3. CASE m < 0
  <2>1. n < 0
    BY <1>2, <1>3
  <2> DEFINE j == -m
             k == -n
  <2>2. j \in Nat /\ k \in Nat /\ Len(WriteNumber(m)) = 1 + Len(Digits(j))
        /\ Len(WriteNumber(n)) = 1 + Len(Digits(k))
        /\ At(T, p + 1, Digits(j)) /\ At(T, p + 1, Digits(k))
    BY <1>3, <2>1, NumberText
  <2> HIDE DEF j, k
  <2>3. Len(Digits(j)) \in Nat /\ Len(Digits(k)) \in Nat /\ p + 1 \in Nat
    BY <2>2, DigitsAreText
  <2>4. p + Len(WriteNumber(m)) = (p + 1) + Len(Digits(j)) /\ p + Len(WriteNumber(n)) = (p + 1) + Len(Digits(k))
    BY <2>2, <2>3
  <2>5. j = k
    BY <2>2, <2>3, <2>4, DigitsReadOnce
  <2> QED BY <2>5 DEF j, k
<1>4. CASE m >= 0
  <2>1. n >= 0
    BY <1>2, <1>4
  <2>2. m \in Nat /\ n \in Nat /\ WriteNumber(m) = Digits(m) /\ WriteNumber(n) = Digits(n)
    BY <1>4, <2>1, NumberText
  <2> QED BY <2>2, DigitsReadOnce
<1> QED BY <1>3, <1>4

-----------------------------------------------------------------------------
(* Documents. *)

\* Documents without parts.
Scalars == {<<"null">>} \cup {<<"bool", b>> : b \in BOOLEAN} \cup {<<"num", n>> : n \in Int}
           \cup {<<"str", t>> : t \in Texts}
\* No key twice.
DistinctKeys(items) == \A i, j \in DOMAIN items : items[i][1] = items[j][1] => i = j
\* Arrays of such documents.
Arrays(S) == {<<"arr", s>> : s \in Seq(S)}
\* Objects of such documents.
Objects(S) == {<<"obj", s>> : s \in {t \in Seq(Texts \X S) : DistinctKeys(t)}}

\* One step of the recursion of Trees.
TreesOne(p, n, f) == IF n = 0 THEN Scalars ELSE f[n - 1] \cup Arrays(f[n - 1]) \cup Objects(f[n - 1])
\* That recursion.
Forest == INSTANCE RecursiveFunctions WITH Body <- TreesOne

\* The documents nested at most n deep in which no object has a key twice.
Trees(n) == LET trees[k \in Nat] == TreesOne(0, k, trees) IN trees[n]

\* The recursion of Trees, as an equation.
LEMMA TreesEquation ==
  /\ Trees(0) = Scalars
  /\ \A n \in Nat : Trees(n + 1) = Trees(n) \cup Arrays(Trees(n)) \cup Objects(Trees(n))
<1> DEFINE trees == CHOOSE f : f = [k \in Nat |-> TreesOne(0, k, f)]
           rank == [k \in Nat |-> k]
<1>1. Forest!LooksLower(0, Nat, rank)
  <2> SUFFICES ASSUME NEW k \in Nat, NEW f, NEW g,
                      \A j \in Nat : rank[j] < rank[k] => f[j] = g[j]
               PROVE  TreesOne(0, k, f) = TreesOne(0, k, g)
    BY DEF Forest!LooksLower
  <2>1. k # 0 => f[k - 1] = g[k - 1]
    OBVIOUS
  <2> HIDE DEF rank
  <2> QED BY <2>1 DEF TreesOne
<1>2. \A k \in Nat : rank[k] \in Nat
  OBVIOUS
<1>3. \E f : Forest!Solves(0, Nat, f)
  <2> HIDE DEF rank
  <2> QED BY <1>1, <1>2, Forest!Solved
<1>4. \E f : f = [k \in Nat |-> TreesOne(0, k, f)]
  BY <1>3 DEF Forest!Solves
<1>5. trees = [k \in Nat |-> TreesOne(0, k, trees)]
  <2> HIDE DEF rank
  <2> QED BY <1>4
<1>6. \A k \in Nat : Trees(k) = trees[k]
  BY DEF Trees
<1> HIDE DEF trees
<1>7. \A k \in Nat : Trees(k) = TreesOne(0, k, trees)
  BY <1>5, <1>6
<1>8. Trees(0) = Scalars
  BY <1>7 DEF TreesOne
<1>9. ASSUME NEW n \in Nat
      PROVE  Trees(n + 1) = Trees(n) \cup Arrays(Trees(n)) \cup Objects(Trees(n))
  <2>1. n + 1 \in Nat /\ n + 1 # 0 /\ (n + 1) - 1 = n
    OBVIOUS
  <2>2. Trees(n + 1) = TreesOne(0, n + 1, trees)
    BY <1>7, <2>1
  <2>3. TreesOne(0, n + 1, trees) = trees[n] \cup Arrays(trees[n]) \cup Objects(trees[n])
    BY <2>1 DEF TreesOne
  <2>4. trees[n] = Trees(n)
    BY <1>6
  <2> QED BY <2>2, <2>3, <2>4
<1> QED BY <1>8, <1>9

\* Deeper bounds allow more.
LEMMA TreesGrow ==
  ASSUME NEW m \in Nat, NEW n \in Nat, m <= n
  PROVE  Trees(m) \subseteq Trees(n)
<1> DEFINE Bad == {k \in Nat : m <= k /\ ~(Trees(m) \subseteq Trees(k))}
<1> SUFFICES ASSUME Bad # {} PROVE FALSE
  OBVIOUS
<1>1. PICK k \in Bad : \A j \in Bad : k <= j
  <2>1. Bad \subseteq Nat
    OBVIOUS
  <2> HIDE DEF Bad
  <2> QED BY <2>1, Forest!LeastNumber
<1>2. k \in Nat /\ m <= k /\ ~(Trees(m) \subseteq Trees(k))
  BY <1>1
<1>3. k # m
  BY <1>2
<1>4. k - 1 \in Nat /\ m <= k - 1 /\ k - 1 \notin Bad
  <2>1. k - 1 \in Nat /\ m <= k - 1 /\ k - 1 < k
    BY <1>2, <1>3
  <2> HIDE DEF Bad
  <2>2. k - 1 \notin Bad
    BY <2>1, <1>1, <1>2
  <2> QED BY <2>1, <2>2
<1>5. Trees(m) \subseteq Trees(k - 1)
  BY <1>4
<1>6. Trees(k - 1) \subseteq Trees((k - 1) + 1)
  BY <1>4, TreesEquation
<1>7. (k - 1) + 1 = k
  BY <1>2
<1> QED BY <1>2, <1>5, <1>6, <1>7

\* What kinds of document there are.
LEMMA Kinds ==
  ASSUME NEW S
  PROVE  /\ \A v \in Scalars : /\ v[1] \in {"null", "bool", "num", "str"}
                               /\ v[1] = "null" => v = <<"null">>
                               /\ v[1] = "bool" => v[2] \in BOOLEAN /\ v = <<"bool", v[2]>>
                               /\ v[1] = "num" => v[2] \in Int /\ v = <<"num", v[2]>>
                               /\ v[1] = "str" => v[2] \in Texts /\ v = <<"str", v[2]>>
         /\ \A v \in Arrays(S) : v[1] = "arr" /\ v[2] \in Seq(S) /\ v = <<"arr", v[2]>>
         /\ \A v \in Objects(S) : /\ v[1] = "obj" /\ v[2] \in Seq(Texts \X S)
                                  /\ DistinctKeys(v[2]) /\ v = <<"obj", v[2]>>
<1>1. ASSUME NEW v \in Scalars
      PROVE  /\ v[1] \in {"null", "bool", "num", "str"}
             /\ v[1] = "null" => v = <<"null">>
             /\ v[1] = "bool" => v[2] \in BOOLEAN /\ v = <<"bool", v[2]>>
             /\ v[1] = "num" => v[2] \in Int /\ v = <<"num", v[2]>>
             /\ v[1] = "str" => v[2] \in Texts /\ v = <<"str", v[2]>>
  <2>1. CASE v = <<"null">>
    BY <2>1
  <2>2. CASE \E b \in BOOLEAN : v = <<"bool", b>>
    BY <2>2
  <2>3. CASE \E n \in Int : v = <<"num", n>>
    BY <2>3
  <2>4. CASE \E t \in Texts : v = <<"str", t>>
    BY <2>4
  <2> QED BY <2>1, <2>2, <2>3, <2>4 DEF Scalars
<1>2. ASSUME NEW v \in Arrays(S)
      PROVE  v[1] = "arr" /\ v[2] \in Seq(S) /\ v = <<"arr", v[2]>>
  BY DEF Arrays
<1>3. ASSUME NEW v \in Objects(S)
      PROVE  /\ v[1] = "obj" /\ v[2] \in Seq(Texts \X S)
             /\ DistinctKeys(v[2]) /\ v = <<"obj", v[2]>>
  BY DEF Objects
<1> QED BY <1>1, <1>2, <1>3

\* The documents whose texts are compared.
Docs == Trees(Nesting)
\* The least bound a document keeps.
Least(v, n) == n \in Nat /\ v \in Trees(n) /\ \A m \in Nat : v \in Trees(m) => n <= m
\* How deep a document nests.
depth == [v \in Docs |-> CHOOSE n : Least(v, n)]

\* v is an array of documents of S.
ArrayOf(v, S) == v[1] = "arr" /\ v[2] \in Seq(S) /\ v = <<"arr", v[2]>>
\* v is an object of documents of S in which no key comes twice.
ObjectOf(v, S) == /\ v[1] = "obj" /\ v[2] \in Seq(Texts \X S)
                  /\ DistinctKeys(v[2]) /\ v = <<"obj", v[2]>>

\* Every document has a depth.
LEMMA DepthOf ==
  ASSUME NEW v \in Docs
  PROVE  Least(v, depth[v])
<1>1. Nesting \in Nat
  BY CanonicalAssumption
<1> DEFINE S == {n \in Nat : v \in Trees(n)}
<1>2. \E n \in S : \A m \in S : n <= m
  <2>1. S \subseteq Nat /\ S # {}
    BY <1>1 DEF Docs
  <2> HIDE DEF S
  <2> QED BY <2>1, Forest!LeastNumber
<1>3. \E n : Least(v, n)
  BY <1>2 DEF Least
<1>4. Least(v, CHOOSE n : Least(v, n))
  BY <1>3
<1> QED BY <1>4 DEF depth

\* A document is a scalar, or an array or an object of documents less deep.
LEMMA Shape ==
  ASSUME NEW v \in Docs
  PROVE  /\ depth[v] \in Nat
         /\ \/ v \in Scalars
            \/ ArrayOf(v, {x \in Docs : depth[x] < depth[v]})
            \/ ObjectOf(v, {x \in Docs : depth[x] < depth[v]})
<1> DEFINE n == depth[v]
           S == {x \in Docs : depth[x] < depth[v]}
<1>1. n \in Nat /\ v \in Trees(n) /\ \A m \in Nat : v \in Trees(m) => n <= m
  BY DepthOf DEF Least
<1>2. CASE n = 0
  <2>1. v \in Scalars
    BY <1>1, <1>2, TreesEquation
  <2> QED BY <1>1, <2>1
<1>3. CASE n # 0
  <2> DEFINE m == n - 1
  <2> HIDE DEF n
  <2>1. m \in Nat /\ m + 1 = n /\ m < n
    BY <1>1, <1>3
  <2> HIDE DEF m
  <2>2. v \notin Trees(m)
    BY <1>1, <2>1
  <2>3. v \in Arrays(Trees(m)) \/ v \in Objects(Trees(m))
    BY <1>1, <2>1, <2>2, TreesEquation
  <2>4. Trees(m) \subseteq S
    <3> SUFFICES ASSUME NEW x \in Trees(m) PROVE x \in S
      OBVIOUS
    <3>1. n <= Nesting /\ Nesting \in Nat
      BY <1>1, CanonicalAssumption DEF Docs
    <3>2. Trees(m) \subseteq Docs
      BY <2>1, <3>1, <1>1, TreesGrow DEF Docs
    <3>3. x \in Docs
      BY <3>2
    <3>4. Least(x, depth[x])
      BY <3>3, DepthOf
    <3>5. depth[x] \in Nat /\ depth[x] <= m
      BY <3>4, <2>1 DEF Least
    <3>6. depth[x] < n
      BY <3>5, <2>1, <1>1
    <3> QED BY <3>3, <3>6 DEF n
  <2> HIDE DEF S
  <2>5. ASSUME v \in Arrays(Trees(m))
        PROVE  ArrayOf(v, S)
    <3>1. v[1] = "arr" /\ v[2] \in Seq(Trees(m)) /\ v = <<"arr", v[2]>>
      BY <2>5, Kinds
    <3>2. v[2] \in Seq(S)
      BY <3>1, <2>4
    <3> QED BY <3>1, <3>2 DEF ArrayOf
  <2>6. ASSUME v \in Objects(Trees(m))
        PROVE  ObjectOf(v, S)
    <3>1. /\ v[1] = "obj" /\ v[2] \in Seq(Texts \X Trees(m))
          /\ DistinctKeys(v[2]) /\ v = <<"obj", v[2]>>
      BY <2>6, Kinds
    <3>2. Texts \X Trees(m) \subseteq Texts \X S
      BY <2>4
    <3>3. v[2] \in Seq(Texts \X S)
      BY <3>1, <3>2
    <3> QED BY <3>1, <3>3 DEF ObjectOf
  <2> QED BY <2>3, <2>5, <2>6, <1>1 DEF S, n
<1> QED BY <1>2, <1>3

\* A document's parts are documents, and less deep.
LEMMA PartsShallower ==
  ASSUME NEW v \in Docs
  PROVE  /\ \A x \in PartsOf(v) : x \in Docs /\ depth[x] < depth[v]
         /\ IsArray(v) => \A i \in DOMAIN v[2] : v[2][i] \in PartsOf(v)
         /\ IsObject(v) => \A i \in DOMAIN v[2] : v[2][i][2] \in PartsOf(v)
<1> DEFINE S == {x \in Docs : depth[x] < depth[v]}
<1> HIDE DEF S
<1>1. CASE v \in Scalars
  <2>1. v[1] \in {"null", "bool", "num", "str"}
    BY <1>1, Kinds
  <2>2. ~IsArray(v) /\ ~IsObject(v)
    BY <2>1 DEF IsArray, IsObject
  <2> QED BY <2>2 DEF PartsOf
<1>2. CASE ArrayOf(v, S)
  <2>1. IsArray(v) /\ ~IsObject(v)
    BY <1>2 DEF ArrayOf, IsArray, IsObject
  <2>2. PartsOf(v) = {v[2][i] : i \in DOMAIN v[2]}
    BY <2>1 DEF PartsOf
  <2>3. v[2] \in Seq(S)
    BY <1>2 DEF ArrayOf
  <2>4. \A i \in DOMAIN v[2] : v[2][i] \in S
    BY <2>3
  <2> QED BY <2>1, <2>2, <2>4 DEF S
<1>3. CASE ObjectOf(v, S)
  <2>1. IsObject(v) /\ ~IsArray(v)
    BY <1>3 DEF ObjectOf, IsArray, IsObject
  <2>2. PartsOf(v) = {v[2][i][2] : i \in DOMAIN v[2]}
    BY <2>1 DEF PartsOf
  <2>3. v[2] \in Seq(Texts \X S)
    BY <1>3 DEF ObjectOf
  <2>4. \A i \in DOMAIN v[2] : v[2][i][2] \in S
    <3>1. \A i \in DOMAIN v[2] : v[2][i] \in Texts \X S
      BY <2>3
    <3> QED BY <3>1
  <2> QED BY <2>1, <2>2, <2>4 DEF S
<1> QED BY <1>1, <1>2, <1>3, Shape DEF S

\* One step of the recursion of Inside.
InsideOne(v, n, f) ==
  IF n = 0 THEN {v} ELSE LET near == f[n - 1] IN near \cup UNION {PartsOf(x) : x \in near}
\* That recursion.
Reach == INSTANCE RecursiveFunctions WITH Body <- InsideOne

\* A document is inside itself, and so are the parts of what is inside it.
LEMMA InsideClosed ==
  ASSUME NEW v \in Docs
  PROVE  /\ v \in Inside(v) /\ Inside(v) \subseteq Docs
         /\ \A x \in Inside(v) : PartsOf(x) \subseteq Inside(v)
<1> DEFINE N == Nesting
           upto == CHOOSE f : f = [n \in 0 .. N |-> InsideOne(v, n, f)]
           rank == [n \in 0 .. N |-> n]
<1>0. N \in Nat
  BY CanonicalAssumption
<1> HIDE DEF N
<1>1. Reach!LooksLower(v, 0 .. N, rank)
  <2> SUFFICES ASSUME NEW k \in 0 .. N, NEW f, NEW g,
                      \A j \in 0 .. N : rank[j] < rank[k] => f[j] = g[j]
               PROVE  InsideOne(v, k, f) = InsideOne(v, k, g)
    BY DEF Reach!LooksLower
  <2>1. k # 0 => f[k - 1] = g[k - 1]
    <3>1. k # 0 => k - 1 \in 0 .. N /\ rank[k - 1] < rank[k]
      BY <1>0
    <3> HIDE DEF rank
    <3> QED BY <3>1
  <2> HIDE DEF rank
  <2> QED BY <2>1 DEF InsideOne
<1>2. \A k \in 0 .. N : rank[k] \in Nat
  BY <1>0
<1>3. \E f : Reach!Solves(v, 0 .. N, f)
  <2> HIDE DEF rank
  <2> QED BY <1>1, <1>2, Reach!Solved
<1>4. \E f : f = [n \in 0 .. N |-> InsideOne(v, n, f)]
  BY <1>3 DEF Reach!Solves
<1>5. upto = [n \in 0 .. N |-> InsideOne(v, n, upto)]
  <2> HIDE DEF rank
  <2> QED BY <1>4
<1>6. Inside(v) = upto[N]
  BY DEF Inside, InsideOne, N
<1> HIDE DEF upto
<1>7. upto[0] = {v}
  <2>1. 0 \in 0 .. N
    BY <1>0
  <2>2. upto[0] = InsideOne(v, 0, upto)
    BY <1>5, <2>1
  <2> QED BY <2>2 DEF InsideOne
<1>8. \A k \in 1 .. N : upto[k] = upto[k - 1] \cup UNION {PartsOf(x) : x \in upto[k - 1]}
  <2> SUFFICES ASSUME NEW k \in 1 .. N
               PROVE  upto[k] = upto[k - 1] \cup UNION {PartsOf(x) : x \in upto[k - 1]}
    OBVIOUS
  <2>1. k \in 0 .. N /\ k # 0
    BY <1>0
  <2>2. upto[k] = InsideOne(v, k, upto)
    BY <1>5, <2>1
  <2> QED BY <2>1, <2>2 DEF InsideOne
<1> HIDE DEF rank
<1> DEFINE Good(k) == /\ v \in upto[k] /\ upto[k] \subseteq Docs
                      /\ \A x \in upto[k] : (k > 0 /\ x \in upto[k - 1]) \/ depth[x] <= N - k
           Bad == {k \in 0 .. N : ~Good(k)}
<1>9. \A x \in Docs : depth[x] \in Nat /\ depth[x] <= N
  <2> SUFFICES ASSUME NEW x \in Docs PROVE depth[x] \in Nat /\ depth[x] <= N
    OBVIOUS
  <2>1. Least(x, depth[x]) /\ x \in Trees(N)
    BY DepthOf DEF Docs, N
  <2> QED BY <2>1, <1>0 DEF Least
<1>10. Bad = {}
  <2> SUFFICES ASSUME Bad # {} PROVE FALSE
    OBVIOUS
  <2>1. PICK k \in Bad : \A j \in Bad : k <= j
    <3>1. Bad \subseteq Nat
      BY <1>0
    <3> HIDE DEF Bad
    <3> QED BY <3>1, Reach!LeastNumber
  <2>2. k \in 0 .. N /\ ~Good(k)
    BY <2>1
  <2>3. k # 0
    <3>1. Good(0)
      BY <1>0, <1>7, <1>9
    <3> QED BY <2>2, <3>1
  <2> DEFINE j == k - 1
  <2>4. j \in 0 .. N /\ j < k /\ k \in 1 .. N /\ j \in Nat
    BY <1>0, <2>2, <2>3
  <2>5. j \notin Bad
    <3> HIDE DEF Bad, Good, j
    <3> QED BY <2>1, <2>2, <2>4, <1>0
  <2>6. Good(j)
    BY <2>4, <2>5
  <2>7. upto[k] = upto[j] \cup UNION {PartsOf(x) : x \in upto[j]}
    BY <1>8, <2>4
  <2>8. upto[k] \subseteq Docs /\ v \in upto[k]
    <3> HIDE DEF Bad, j
    <3> QED BY <2>6, <2>7, PartsShallower
  <2>9. ASSUME NEW x \in upto[k], x \notin upto[j]
        PROVE  depth[x] <= N - k
    <3>1. PICK y \in upto[j] : x \in PartsOf(y)
      BY <2>7, <2>9
    <3>2. y \in Docs /\ x \in Docs /\ depth[x] < depth[y]
      BY <2>6, <3>1, PartsShallower
    <3>3. ~(j > 0 /\ y \in upto[j - 1])
      <4> SUFFICES ASSUME j > 0, y \in upto[j - 1] PROVE FALSE
        OBVIOUS
      <4>1. j \in 1 .. N
        BY <2>4, <1>0
      <4>2. upto[j] = upto[j - 1] \cup UNION {PartsOf(z) : z \in upto[j - 1]}
        BY <1>8, <4>1
      <4>3. x \in upto[j]
        BY <4>2, <3>1
      <4> QED BY <4>3, <2>9
    <3>4. depth[y] <= N - j
      BY <2>6, <3>3
    <3>5. depth[y] \in Nat /\ depth[x] \in Nat
      BY <1>9, <3>2
    <3> QED BY <3>2, <3>4, <3>5, <1>0, <2>4
  <2>10. Good(k)
    BY <2>4, <2>8, <2>9
  <2> QED BY <2>2, <2>10
<1>11. Good(N)
  <2>1. N \in 0 .. N
    BY <1>0
  <2> QED BY <2>1, <1>10
<1>12. ASSUME NEW x \in upto[N], NEW y \in PartsOf(x)
       PROVE  y \in upto[N]
  <2>1. x \in Docs /\ y \in Docs /\ depth[y] < depth[x]
    BY <1>11, PartsShallower
  <2>2. depth[x] \in Nat /\ depth[y] \in Nat
    BY <2>1, <1>9
  <2>3. ~(depth[x] <= N - N)
    BY <2>1, <2>2, <1>0
  <2>4. N > 0 /\ x \in upto[N - 1]
    BY <1>11, <2>3
  <2>5. N \in 1 .. N
    BY <2>4, <1>0
  <2>6. upto[N] = upto[N - 1] \cup UNION {PartsOf(z) : z \in upto[N - 1]}
    BY <1>8, <2>5
  <2> QED BY <2>4, <2>6
<1> QED BY <1>6, <1>11, <1>12

-----------------------------------------------------------------------------
(* Sorted keys. *)

\* The rank of a character is its place in the alphabet.
LEMMA RankOf ==
  /\ \A c \in Characters : Rank[c] \in Nat
  /\ \A c, d \in Characters : Rank[c] = Rank[d] => c = d
<1>1. ASSUME NEW c \in Characters
      PROVE  Rank[c] \in Nat /\ Alphabet[Rank[c]] = c
  <2>1. \E i \in DOMAIN Alphabet : Alphabet[i] = c
    BY DEF Characters
  <2>2. Rank[c] = CHOOSE i \in DOMAIN Alphabet : Alphabet[i] = c
    BY DEF Rank
  <2>3. Rank[c] \in DOMAIN Alphabet /\ Alphabet[Rank[c]] = c
    BY <2>1, <2>2
  <2>4. DOMAIN Alphabet \subseteq Nat
    BY CanonicalAssumption
  <2> QED BY <2>3, <2>4
<1> QED BY <1>1

\* strcmp is a strict order, and any two different keys are ordered.
LEMMA KeyOrder ==
  ASSUME NEW a \in Texts, NEW b \in Texts
  PROVE  /\ ~KeyBefore(a, a)
         /\ a # b => KeyBefore(a, b) \/ KeyBefore(b, a)
         /\ \A c \in Texts : KeyBefore(a, b) /\ KeyBefore(b, c) => KeyBefore(a, c)
<1>1. ~KeyBefore(a, a)
  <2> SUFFICES ASSUME NEW i \in DOMAIN a, Rank[a[i]] < Rank[a[i]] PROVE FALSE
    BY DEF KeyBefore
  <2>1. Rank[a[i]] \in Nat
    BY TextParts, RankOf
  <2> QED BY <2>1
<1>2. ASSUME a # b, ~KeyBefore(a, b)
      PROVE  KeyBefore(b, a)
  <2> DEFINE Diff == {i \in 1 .. Len(b) : i \notin DOMAIN a \/ a[i] # b[i]}
  <2>1. CASE Diff # {}
    <3>1. PICK i \in Diff : \A j \in Diff : i <= j
      <4>1. Diff \subseteq Nat
        OBVIOUS
      <4> HIDE DEF Diff
      <4> QED BY <2>1, <4>1, Flatten!LeastNumber
    <3>2. i \in 1 .. Len(b) /\ i \in DOMAIN b
      BY TextParts
    <3>3. \A j \in 1 .. i - 1 : j \in DOMAIN a /\ j \in DOMAIN b /\ a[j] = b[j]
      <4> SUFFICES ASSUME NEW j \in 1 .. i - 1 PROVE j \in DOMAIN a /\ j \in DOMAIN b /\ a[j] = b[j]
        OBVIOUS
      <4>1. j \in 1 .. Len(b) /\ j < i
        BY <3>2, TextParts
      <4>2. j \notin Diff
        <5> HIDE DEF Diff
        <5> QED BY <3>1, <3>2, <4>1
      <4> QED BY <4>1, <4>2, TextParts
    <3>4. i \in DOMAIN a /\ ~(Rank[a[i]] < Rank[b[i]])
      BY <1>2, <3>2, <3>3 DEF KeyBefore
    <3>5. a[i] # b[i] /\ a[i] \in Characters /\ b[i] \in Characters
      BY <3>1, <3>2, <3>4, TextParts
    <3>6. Rank[b[i]] < Rank[a[i]]
      <4>1. Rank[a[i]] \in Nat /\ Rank[b[i]] \in Nat /\ Rank[a[i]] # Rank[b[i]]
        BY <3>5, RankOf
      <4> QED BY <3>4, <4>1
    <3> QED BY <3>3, <3>4, <3>6 DEF KeyBefore
  <2>2. CASE Diff = {}
    <3>1. \A i \in 1 .. Len(b) : i \in DOMAIN a /\ a[i] = b[i]
      BY <2>2
    <3>2. Len(b) \in Nat /\ DOMAIN b = 1 .. Len(b) /\ Len(a) \in Nat /\ DOMAIN a = 1 .. Len(a)
      BY TextParts
    <3>3. Len(a) # Len(b)
      <4> SUFFICES ASSUME Len(a) = Len(b) PROVE FALSE
        OBVIOUS
      <4>1. \A i \in 1 .. Len(a) : a[i] = b[i]
        BY <3>1
      <4>2. a = b
        BY <4>1 DEF Texts
      <4> QED BY <4>2, <1>2
    <3>4. Len(b) + 1 \in DOMAIN a
      <4>1. Len(b) = 0 \/ Len(b) \in 1 .. Len(b)
        BY <3>2
      <4>2. Len(b) <= Len(a)
        BY <4>1, <3>1, <3>2
      <4> DEFINE la == Len(a)
                 lb == Len(b)
      <4>3. la \in Nat /\ lb \in Nat /\ lb <= la /\ la # lb
        BY <4>2, <3>2, <3>3
      <4> HIDE DEF la, lb, Diff
      <4>4. lb + 1 \in 1 .. la
        BY <4>3
      <4> QED BY <4>4, <3>2 DEF la, lb
    <3>5. \A j \in 1 .. (Len(b) + 1) - 1 : j \in DOMAIN b /\ b[j] = a[j]
      BY <3>1, <3>2
    <3>6. Len(b) + 1 \notin DOMAIN b
      BY <3>2
    <3> QED BY <3>4, <3>5, <3>6 DEF KeyBefore
  <2> QED BY <2>1, <2>2
<1>3. ASSUME NEW c \in Texts, KeyBefore(a, b), KeyBefore(b, c)
      PROVE  KeyBefore(a, c)
  <2>1. PICK i \in DOMAIN b : /\ \A k \in 1 .. i - 1 : k \in DOMAIN a /\ a[k] = b[k]
                              /\ i \in DOMAIN a => Rank[a[i]] < Rank[b[i]]
    BY <1>3 DEF KeyBefore
  <2>2. PICK j \in DOMAIN c : /\ \A k \in 1 .. j - 1 : k \in DOMAIN b /\ b[k] = c[k]
                              /\ j \in DOMAIN b => Rank[b[j]] < Rank[c[j]]
    BY <1>3 DEF KeyBefore
  <2>3. /\ DOMAIN a = 1 .. Len(a) /\ DOMAIN b = 1 .. Len(b) /\ DOMAIN c = 1 .. Len(c)
        /\ Len(a) \in Nat /\ Len(b) \in Nat /\ Len(c) \in Nat
        /\ \A k \in DOMAIN a : Rank[a[k]] \in Nat
        /\ \A k \in DOMAIN b : Rank[b[k]] \in Nat
        /\ \A k \in DOMAIN c : Rank[c[k]] \in Nat
    BY TextParts, RankOf
  <2>4. CASE i < j
    <3>1. i \in DOMAIN c /\ i \in 1 .. j - 1 /\ b[i] = c[i]
      BY <2>2, <2>3, <2>4
    <3>2. \A k \in 1 .. i - 1 : k \in DOMAIN a /\ a[k] = c[k]
      BY <2>1, <2>2, <2>3, <2>4
    <3>3. i \in DOMAIN a => Rank[a[i]] < Rank[c[i]]
      BY <2>1, <3>1
    <3> QED BY <3>1, <3>2, <3>3 DEF KeyBefore
  <2>5. CASE i = j
    <3>1. \A k \in 1 .. j - 1 : k \in DOMAIN a /\ a[k] = c[k]
      BY <2>1, <2>2, <2>5
    <3>2. j \in DOMAIN a => Rank[a[j]] < Rank[c[j]]
      <4> SUFFICES ASSUME j \in DOMAIN a PROVE Rank[a[j]] < Rank[c[j]]
        OBVIOUS
      <4>1. Rank[a[j]] < Rank[b[j]] /\ Rank[b[j]] < Rank[c[j]]
        BY <2>1, <2>2, <2>5
      <4>2. Rank[a[j]] \in Nat /\ Rank[b[j]] \in Nat /\ Rank[c[j]] \in Nat
        BY <2>3, <2>5
      <4> QED BY <4>1, <4>2
    <3> QED BY <3>1, <3>2 DEF KeyBefore
  <2>6. CASE i > j
    <3>1. j \in 1 .. i - 1 /\ j \in DOMAIN b /\ a[j] = b[j]
      BY <2>1, <2>2, <2>3, <2>6
    <3>2. \A k \in 1 .. j - 1 : k \in DOMAIN a /\ a[k] = c[k]
      BY <2>1, <2>2, <2>3, <2>6
    <3>3. j \in DOMAIN a => Rank[a[j]] < Rank[c[j]]
      BY <2>2, <3>1
    <3> QED BY <3>2, <3>3 DEF KeyBefore
  <2> QED BY <2>3, <2>4, <2>5, <2>6
<1> QED BY <1>1, <1>2, <1>3

\* The keys of a set that stand before k, and the set's n-th key.
Below(K, k) == {l \in K : KeyBefore(l, k)}
\* The key with n - 1 smaller ones.
Nth(K, n) == CHOOSE k \in K : Cardinality(Below(K, k)) = n - 1

\* The keys of a finite set have the places from 0 on, each its own.
LEMMA Places ==
  ASSUME NEW K, K \subseteq Texts, IsFiniteSet(K)
  PROVE  /\ Cardinality(K) \in Nat
         /\ \A k \in K : Cardinality(Below(K, k)) \in 0 .. Cardinality(K) - 1
         /\ \A k, l \in K : Cardinality(Below(K, k)) = Cardinality(Below(K, l)) => k = l
         /\ \A n \in 0 .. Cardinality(K) - 1 : \E k \in K : Cardinality(Below(K, k)) = n
<1> DEFINE size == Cardinality(K)
           place == [k \in K |-> Cardinality(Below(K, k))]
<1>1. size \in Nat
  BY FS_CardinalityType
<1>2. \A k \in K : IsFiniteSet(Below(K, k)) /\ Cardinality(Below(K, k)) \in Nat
  <2> SUFFICES ASSUME NEW k \in K PROVE IsFiniteSet(Below(K, k)) /\ Cardinality(Below(K, k)) \in Nat
    OBVIOUS
  <2>1. Below(K, k) \in SUBSET K
    BY DEF Below
  <2>2. IsFiniteSet(Below(K, k))
    BY <2>1, FS_Subset
  <2> QED BY <2>2, FS_CardinalityType
<1>3. ASSUME NEW k \in K
      PROVE  Cardinality(Below(K, k)) <= size - 1
  <2>1. IsFiniteSet(K \ {k}) /\ Cardinality(K \ {k}) = size - 1
    BY FS_RemoveElement
  <2>2. Below(K, k) \in SUBSET (K \ {k})
    BY KeyOrder DEF Below
  <2> QED BY <2>1, <2>2, FS_Subset
<1>4. ASSUME NEW k \in K, NEW l \in K, KeyBefore(k, l)
      PROVE  Cardinality(Below(K, k)) # Cardinality(Below(K, l))
  <2>1. Below(K, k) \in SUBSET Below(K, l)
    <3>1. \A m \in K : KeyBefore(m, k) => KeyBefore(m, l)
      BY <1>4, KeyOrder
    <3> QED BY <3>1 DEF Below
  <2>2. k \in Below(K, l) /\ k \notin Below(K, k)
    BY <1>4, KeyOrder DEF Below
  <2> QED BY <2>1, <2>2, <1>2, FS_Subset
<1>5. \A k, l \in K : Cardinality(Below(K, k)) = Cardinality(Below(K, l)) => k = l
  BY <1>4, KeyOrder
<1>6. \A k \in K : Cardinality(Below(K, k)) \in 0 .. size - 1
  <2> HIDE DEF size
  <2> QED BY <1>1, <1>2, <1>3
<1>7. IsFiniteSet(0 .. size - 1) /\ Cardinality(0 .. size - 1) = size
  <2> HIDE DEF size
  <2>1. 0 \in Int /\ size - 1 \in Int
    BY <1>1
  <2>2. IsFiniteSet(0 .. size - 1)
        /\ Cardinality(0 .. size - 1) = IF 0 > size - 1 THEN 0 ELSE (size - 1) - 0 + 1
    BY <2>1, FS_Interval
  <2> QED BY <2>2, <1>1
<1>8. place \in Injection(K, 0 .. size - 1)
  <2>1. place \in [K -> 0 .. size - 1]
    BY <1>6
  <2>2. \A k, l \in K : place[k] = place[l] => k = l
    BY <1>5
  <2> HIDE DEF place, size
  <2> QED BY <2>1, <2>2 DEF Injection, IsInjective
<1>9. place \in Surjection(K, 0 .. size - 1)
  <2> HIDE DEF place
  <2> QED BY <1>7, <1>8, FS_Injection
<1>10. \A n \in 0 .. size - 1 : \E k \in K : place[k] = n
  <2> HIDE DEF place, size
  <2> QED BY <1>9 DEF Surjection
<1> HIDE DEF size
<1> QED BY <1>1, <1>5, <1>6, <1>10 DEF size

\* The keys of an object's items.
ObjectKeys(items) == {items[i][1] : i \in DOMAIN items}

\* Items of distinct keys have as many keys, and stand behind as many items as
\* their key stands behind keys.
LEMMA KeysCounted ==
  ASSUME NEW S, NEW items \in Seq(Texts \X S), DistinctKeys(items)
  PROVE  LET K == ObjectKeys(items)
         IN  /\ K \subseteq Texts /\ IsFiniteSet(K) /\ Cardinality(K) = Len(items)
             /\ \A i \in DOMAIN items :
                  Cardinality(Behind(items, i)) = Cardinality(Below(K, items[i][1]))
<1> DEFINE K == ObjectKeys(items)
           key == [i \in DOMAIN items |-> items[i][1]]
<1>1. DOMAIN items = 1 .. Len(items) /\ Len(items) \in Nat
  OBVIOUS
<1>2. IsFiniteSet(1 .. Len(items)) /\ Cardinality(1 .. Len(items)) = Len(items)
  <2>1. 1 \in Int /\ Len(items) \in Int
    BY <1>1
  <2>2. /\ IsFiniteSet(1 .. Len(items))
        /\ Cardinality(1 .. Len(items)) = IF 1 > Len(items) THEN 0 ELSE Len(items) - 1 + 1
    BY <2>1, FS_Interval
  <2> QED BY <2>2, <1>1
<1>3. K \subseteq Texts
  <2>1. \A i \in DOMAIN items : items[i] \in Texts \X S
    OBVIOUS
  <2>2. \A i \in DOMAIN items : items[i][1] \in Texts
    BY <2>1
  <2> QED BY <2>2 DEF ObjectKeys
<1>4. key \in Bijection(DOMAIN items, K)
  <2>1. key \in [DOMAIN items -> K]
    BY DEF ObjectKeys
  <2>2. \A i, j \in DOMAIN items : key[i] = key[j] => i = j
    BY DEF DistinctKeys
  <2>3. \A k \in K : \E i \in DOMAIN items : key[i] = k
    BY DEF ObjectKeys
  <2> HIDE DEF key, K
  <2> QED BY <2>1, <2>2, <2>3 DEF Bijection, Injection, Surjection, IsInjective
<1>5. IsFiniteSet(K) /\ Cardinality(K) = Len(items)
  <2>1. IsFiniteSet(DOMAIN items) /\ ExistsBijection(DOMAIN items, K)
    BY <1>1, <1>2, <1>4 DEF ExistsBijection
  <2> HIDE DEF K
  <2> QED BY <2>1, <1>1, <1>2, FS_Bijection
<1>6. ASSUME NEW i \in DOMAIN items
      PROVE  Cardinality(Behind(items, i)) = Cardinality(Below(K, items[i][1]))
  <2> DEFINE behind == Behind(items, i)
             below == Below(K, items[i][1])
             f == [j \in behind |-> items[j][1]]
  <2>1. behind = {j \in DOMAIN items : KeyBefore(items[j][1], items[i][1])}
    <3>1. \A j \in DOMAIN items : items[j][1] = items[i][1] => j = i
      BY DEF DistinctKeys
    <3>2. \A j \in DOMAIN items : ~(items[j][1] = items[i][1] /\ j < i)
      BY <3>1, <1>1
    <3> QED BY <3>2 DEF Behind
  <2>2. f \in Bijection(behind, below)
    <3>1. \A j \in behind : items[j][1] \in below
      BY <2>1 DEF Below, ObjectKeys
    <3>2. f \in [behind -> below]
      BY <3>1
    <3>3. \A j, k \in behind : f[j] = f[k] => j = k
      BY <2>1 DEF DistinctKeys
    <3>4. \A k \in below : \E j \in behind : f[j] = k
      BY <2>1 DEF Below, ObjectKeys
    <3> HIDE DEF f, behind, below
    <3> QED BY <3>2, <3>3, <3>4 DEF Bijection, Injection, Surjection, IsInjective
  <2>3. IsFiniteSet(behind)
    <3>1. behind \in SUBSET (1 .. Len(items))
      BY <2>1, <1>1
    <3> HIDE DEF behind
    <3> QED BY <3>1, <1>2, FS_Subset
  <2>4. ExistsBijection(behind, below)
    BY <2>2 DEF ExistsBijection
  <2> HIDE DEF behind, below
  <2>5. Cardinality(below) = Cardinality(behind)
    BY <2>3, <2>4, FS_Bijection
  <2> QED BY <2>5 DEF behind, below
<1> QED BY <1>3, <1>5, <1>6

\* The n-th item written is the one with the n-th key.
LEMMA Sorted ==
  ASSUME NEW S, NEW items \in Seq(Texts \X S), DistinctKeys(items)
  PROVE  LET K == ObjectKeys(items)
             kids == SortKeys(items)
         IN  /\ kids \in Seq(Texts \X S) /\ Len(kids) = Len(items) /\ Cardinality(K) = Len(items)
             /\ \A n \in 1 .. Len(items) :
                  \E i \in DOMAIN items : kids[n] = items[i] /\ items[i][1] = Nth(K, n)
             /\ \A k \in K : \E n \in 1 .. Len(items) : Nth(K, n) = k
<1> DEFINE K == ObjectKeys(items)
           kids == SortKeys(items)
           Place(k) == Cardinality(Below(K, k))
<1>1. DOMAIN items = 1 .. Len(items) /\ Len(items) \in Nat
  OBVIOUS
<1>2. /\ K \subseteq Texts /\ IsFiniteSet(K) /\ Cardinality(K) = Len(items)
      /\ \A i \in DOMAIN items : Cardinality(Behind(items, i)) = Place(items[i][1])
  BY KeysCounted
<1>3. /\ \A k \in K : Place(k) \in 0 .. Len(items) - 1
      /\ \A k, l \in K : Place(k) = Place(l) => k = l
      /\ \A n \in 0 .. Len(items) - 1 : \E k \in K : Place(k) = n
  <2> HIDE DEF K
  <2> QED BY <1>2, Places
<1>4. ASSUME NEW n \in 1 .. Len(items)
      PROVE  \E i \in DOMAIN items : kids[n] = items[i] /\ items[i][1] = Nth(K, n)
  <2> DEFINE Q(i) == Cardinality(Behind(items, i)) = n - 1
  <2>1. n - 1 \in 0 .. Len(items) - 1
    BY <1>1
  <2>2. PICK k \in K : Place(k) = n - 1
    BY <2>1, <1>3
  <2>3. Nth(K, n) = k
    <3>1. \A l \in K : Place(l) = n - 1 => l = k
      BY <2>2, <1>3
    <3> HIDE DEF K
    <3> QED BY <2>2, <3>1 DEF Nth
  <2>4. PICK j \in DOMAIN items : items[j][1] = k
    BY DEF ObjectKeys
  <2>5. Q(j)
    BY <1>2, <2>2, <2>4
  <2> DEFINE i == CHOOSE m \in DOMAIN items : Q(m)
  <2>6. i \in DOMAIN items /\ Q(i)
    <3> HIDE DEF Q
    <3> QED BY <2>5
  <2>7. kids[n] = items[i]
    BY <1>1 DEF SortKeys
  <2> HIDE DEF i
  <2>8. items[i][1] \in K
    BY <2>6 DEF ObjectKeys
  <2>9. Place(items[i][1]) = n - 1
    BY <1>2, <2>6
  <2>10. items[i][1] = k
    BY <2>2, <2>8, <2>9, <1>3
  <2> QED BY <2>3, <2>6, <2>7, <2>10
<1>5. \A k \in K : \E n \in 1 .. Len(items) : Nth(K, n) = k
  <2> SUFFICES ASSUME NEW k \in K PROVE \E n \in 1 .. Len(items) : Nth(K, n) = k
    OBVIOUS
  <2>1. Place(k) \in 0 .. Len(items) - 1
    BY <1>3
  <2> DEFINE n == Place(k) + 1
  <2>2. n \in 1 .. Len(items) /\ n - 1 = Place(k)
    BY <2>1, <1>1
  <2>3. \A l \in K : Place(l) = n - 1 => l = k
    BY <2>2, <1>3
  <2> HIDE DEF n
  <2>4. Nth(K, n) = k
    <3> HIDE DEF K
    <3> QED BY <2>2, <2>3 DEF Nth
  <2> QED BY <2>2, <2>4
<1>6. kids \in Seq(Texts \X S) /\ Len(kids) = Len(items)
  <2>1. DOMAIN kids = 1 .. Len(items)
    BY <1>1 DEF SortKeys
  <2>2. \A n \in 1 .. Len(items) : kids[n] \in Texts \X S
    BY <1>4
  <2>3. kids = [n \in 1 .. Len(items) |-> kids[n]]
    BY <1>1 DEF SortKeys
  <2> HIDE DEF kids
  <2> QED BY <1>1, <2>1, <2>2, <2>3
<1> HIDE DEF K, kids
<1> QED BY <1>2, <1>4, <1>5, <1>6 DEF K, kids

-----------------------------------------------------------------------------
(* The text of a document and what it says, from those of its parts. *)

\* Emit and Meaning ask their functions about the document's parts only.
EmitBody(p, x, f) == EmitOne(x, f)
\* That recursion.
Writing == INSTANCE RecursiveFunctions WITH Body <- EmitBody
\* One step of the recursion of Meaning.
SaysBody(p, x, f) == SaysOne(x, f)
\* That recursion.
Saying == INSTANCE RecursiveFunctions WITH Body <- SaysBody

\* The texts an array or an object lists: those of its parts, with their keys.
Pieces(v, f) ==
  IF v[1] = "arr" THEN [i \in DOMAIN v[2] |-> f[v[2][i]]]
  ELSE LET kids == SortKeys(v[2])
       IN  [i \in DOMAIN kids |-> WriteString(kids[i][1]) \o <<":">> \o f[kids[i][2]]]
\* The text of a document, by its kind, over the texts of its parts.
LEMMA EmitKinds ==
  ASSUME NEW v, NEW f
  PROVE  /\ v[1] = "null" => EmitOne(v, f) = <<"n", "u", "l", "l">>
         /\ v[1] = "bool" => EmitOne(v, f) = IF v[2] THEN <<"t", "r", "u", "e">>
                                             ELSE <<"f", "a", "l", "s", "e">>
         /\ v[1] = "num" => EmitOne(v, f) = WriteNumber(v[2])
         /\ v[1] = "str" => EmitOne(v, f) = WriteString(v[2])
         /\ v[1] = "arr" => EmitOne(v, f) = <<"[">> \o Joined(Pieces(v, f)) \o <<"]">>
         /\ v[1] = "obj" => EmitOne(v, f) = <<LBrace>> \o Joined(Pieces(v, f)) \o <<RBrace>>
<1>1. CASE v[1] = "null"
  BY <1>1, Zenon DEF EmitOne
<1>2. CASE v[1] = "bool"
  BY <1>2, Zenon DEF EmitOne
<1>3. CASE v[1] = "num"
  BY <1>3, Zenon DEF EmitOne
<1>4. CASE v[1] = "str"
  BY <1>4, Zenon DEF EmitOne
<1>5. CASE v[1] = "arr"
  BY <1>5, Zenon DEF EmitOne, Pieces
<1>6. CASE v[1] = "obj"
  BY <1>6, Zenon DEF EmitOne, Pieces, LBrace, RBrace
<1>7. v[1] = "null" => v[1] \notin {"bool", "num", "str", "arr", "obj"}
  OBVIOUS
<1> QED BY <1>1, <1>2, <1>3, <1>4, <1>5, <1>6, Zenon

\* What a document says, by its kind.
LEMMA SaysKinds ==
  ASSUME NEW v, NEW f
  PROVE  /\ v[1] \in {"null", "bool", "num", "str"} => SaysOne(v, f) = v
         /\ v[1] = "arr" => SaysOne(v, f) = <<"arr", [i \in DOMAIN v[2] |-> f[v[2][i]]]>>
         /\ v[1] = "obj" => SaysOne(v, f) = <<"obj", [k \in ObjectKeys(v[2]) |-> f[GetText(v, k)]]>>
<1>1. v[1] \in {"null", "bool", "num", "str"} => SaysOne(v, f) = v
  BY DEF SaysOne
<1>2. v[1] = "arr" => SaysOne(v, f) = <<"arr", [i \in DOMAIN v[2] |-> f[v[2][i]]]>>
  BY DEF SaysOne
<1>3. v[1] = "obj" => SaysOne(v, f) = <<"obj", [k \in ObjectKeys(v[2]) |-> f[GetText(v, k)]]>>
  BY DEF SaysOne, ObjectKeys
<1> QED BY <1>1, <1>2, <1>3

\* Looking up a key of an object finds the item of that key.
LEMMA ItemFound ==
  ASSUME NEW S, NEW v, ObjectOf(v, S), NEW i \in DOMAIN v[2]
  PROVE  GetText(v, v[2][i][1]) = v[2][i][2]
<1> DEFINE items == v[2]
           k == items[i][1]
           I == {j \in 1 .. Len(items) : items[j][1] = k}
<1>1. IsObject(v) /\ items \in Seq(Texts \X S) /\ DistinctKeys(items)
  BY DEF ObjectOf, IsObject
<1>2. DOMAIN items = 1 .. Len(items) /\ i \in Nat /\ i # 0
  BY <1>1
<1>3. I = {i}
  BY <1>1, <1>2 DEF DistinctKeys
<1>4. Min(I) = i
  BY <1>2, <1>3 DEF Min
<1>5. SelectInSeq(items, LAMBDA item : item[1] = k) = i
  BY <1>3, <1>4 DEF SelectInSeq
<1> HIDE DEF I, k, items
<1>6. GetText(v, k) = items[i][2]
  BY <1>1, <1>2, <1>5 DEF GetText, items
<1> QED BY <1>6 DEF k, items

\* What Emit writes and what a document says depends on its parts only.
LEMMA EmitLooks ==
  ASSUME NEW v \in Docs, NEW f, NEW g, \A x \in PartsOf(v) : f[x] = g[x]
  PROVE  EmitOne(v, f) = EmitOne(v, g) /\ SaysOne(v, f) = SaysOne(v, g)
<1> DEFINE S == {x \in Docs : depth[x] < depth[v]}
<1> HIDE DEF S
<1>1. CASE v \in Scalars
  <2>1. v[1] \in {"null", "bool", "num", "str"}
    BY <1>1, Kinds
  <2>2. EmitOne(v, f) = EmitOne(v, g)
    <3>1. CASE v[1] = "null"
      BY <3>1, EmitKinds
    <3>2. CASE v[1] = "bool"
      BY <3>2, EmitKinds
    <3>3. CASE v[1] = "num"
      BY <3>3, EmitKinds
    <3>4. CASE v[1] = "str"
      BY <3>4, EmitKinds
    <3> QED BY <2>1, <3>1, <3>2, <3>3, <3>4
  <2>3. SaysOne(v, f) = v /\ SaysOne(v, g) = v
    BY <2>1, SaysKinds
  <2> QED BY <2>2, <2>3
<1>2. CASE ArrayOf(v, S)
  <2>1. v[1] = "arr" /\ IsArray(v)
    BY <1>2 DEF ArrayOf, IsArray
  <2>2. \A i \in DOMAIN v[2] : f[v[2][i]] = g[v[2][i]]
    BY <2>1, PartsShallower
  <2>3. Pieces(v, f) = Pieces(v, g)
    BY <2>1, <2>2 DEF Pieces
  <2>4. EmitOne(v, f) = EmitOne(v, g)
    BY <2>1, <2>3, EmitKinds
  <2>5. [i \in DOMAIN v[2] |-> f[v[2][i]]] = [i \in DOMAIN v[2] |-> g[v[2][i]]]
    BY <2>2
  <2>6. SaysOne(v, f) = SaysOne(v, g)
    BY <2>1, <2>5, SaysKinds
  <2> QED BY <2>4, <2>6
<1>3. CASE ObjectOf(v, S)
  <2>1. /\ v[1] = "obj" /\ IsObject(v) /\ v[1] # "arr"
        /\ v[2] \in Seq(Texts \X S) /\ DistinctKeys(v[2])
    BY <1>3 DEF ObjectOf, IsObject
  <2>2. \A i \in DOMAIN v[2] : f[v[2][i][2]] = g[v[2][i][2]]
    BY <2>1, PartsShallower
  <2> DEFINE kids == SortKeys(v[2])
  <2>3. /\ DOMAIN kids = 1 .. Len(v[2])
        /\ \A n \in 1 .. Len(v[2]) : \E i \in DOMAIN v[2] : kids[n] = v[2][i]
    <3>1. kids \in Seq(Texts \X S) /\ Len(kids) = Len(v[2])
      BY <2>1, Sorted
    <3>2. \A n \in 1 .. Len(v[2]) : \E i \in DOMAIN v[2] : kids[n] = v[2][i]
      <4> DEFINE items == v[2]
      <4>1. items \in Seq(Texts \X S) /\ DistinctKeys(items)
        BY <2>1
      <4> HIDE DEF items
      <4>2. \A n \in 1 .. Len(items) :
              \E i \in DOMAIN items : SortKeys(items)[n] = items[i] /\ items[i][1] = Nth(ObjectKeys(items), n)
        BY <4>1, Sorted
      <4> QED BY <4>2 DEF items
    <3> HIDE DEF kids
    <3>3. DOMAIN kids = 1 .. Len(kids)
      BY <3>1
    <3> QED BY <3>1, <3>2, <3>3
  <2>4. \A n \in DOMAIN kids : f[kids[n][2]] = g[kids[n][2]]
    <3> HIDE DEF kids
    <3> QED BY <2>2, <2>3
  <2>5. Pieces(v, f) = Pieces(v, g)
    BY <2>1, <2>4 DEF Pieces
  <2>6. EmitOne(v, f) = EmitOne(v, g)
    <3>1. \A h : EmitOne(v, h) = <<LBrace>> \o Joined(Pieces(v, h)) \o <<RBrace>>
      BY <2>1, EmitKinds
    <3> QED BY <2>5, <3>1, Zenon
  <2>7. \A k \in ObjectKeys(v[2]) : f[GetText(v, k)] = g[GetText(v, k)]
    <3> SUFFICES ASSUME NEW i \in DOMAIN v[2]
                 PROVE  f[GetText(v, v[2][i][1])] = g[GetText(v, v[2][i][1])]
      BY DEF ObjectKeys
    <3>1. GetText(v, v[2][i][1]) = v[2][i][2]
      BY <1>3, ItemFound
    <3> QED BY <3>1, <2>2
  <2>8. [k \in ObjectKeys(v[2]) |-> f[GetText(v, k)]] = [k \in ObjectKeys(v[2]) |-> g[GetText(v, k)]]
    BY <2>7
  <2>9. SaysOne(v, f) = SaysOne(v, g)
    BY <2>1, <2>8, SaysKinds
  <2> QED BY <2>6, <2>9
<1> QED BY <1>1, <1>2, <1>3, Shape DEF S

\* The text of every document.
Emitted == [x \in Docs |-> Emit(x)]
\* What every document says.
Said == [x \in Docs |-> Meaning(x)]

\* The recursions of Emit and Meaning, as equations.
LEMMA Equations ==
  \A v \in Docs : Emit(v) = EmitOne(v, Emitted) /\ Meaning(v) = SaysOne(v, Said)
<1> DEFINE parts == [x \in Docs |-> PartsOf(x)]
           inside == [x \in Docs |-> Inside(x)]
<1>1. \A x \in Docs : /\ x \in inside[x] /\ inside[x] \subseteq Docs
                      /\ \A y \in inside[x] : parts[y] \subseteq inside[x]
                      /\ depth[x] \in Nat /\ \A y \in parts[x] : depth[y] < depth[x]
  BY InsideClosed, Shape, PartsShallower
<1>2. \A x \in Docs : \A f, g :
        (\A y \in parts[x] : f[y] = g[y]) => EmitBody(0, x, f) = EmitBody(0, x, g)
  BY EmitLooks DEF EmitBody
<1>3. \A x \in Docs : \A f, g :
        (\A y \in parts[x] : f[y] = g[y]) => SaysBody(0, x, f) = SaysBody(0, x, g)
  BY EmitLooks DEF SaysBody
<1>4. Writing!Covered(Docs, depth, parts, inside) /\ Writing!LooksAt(0, Docs, parts)
  <2> HIDE DEF parts, inside
  <2> QED BY <1>1, <1>2 DEF Writing!Covered, Writing!LooksAt
<1>5. Saying!Covered(Docs, depth, parts, inside) /\ Saying!LooksAt(0, Docs, parts)
  <2> HIDE DEF parts, inside
  <2> QED BY <1>1, <1>3 DEF Saying!Covered, Saying!LooksAt
<1>6. ASSUME NEW v \in Docs
      PROVE  \E f : Writing!Solves(0, inside[v], f) /\ Emitted[v] = f[v]
  <2>1. \E f : Writing!Solves(0, inside[v], f)
    <3> HIDE DEF parts, inside
    <3> QED BY <1>4, Writing!SolvedInside
  <2>2. Emitted[v] = (CHOOSE f : f = [x \in Inside(v) |-> EmitOne(x, f)])[v]
    BY DEF Emitted, Emit
  <2>3. \E f : f = [x \in Inside(v) |-> EmitOne(x, f)]
    BY <2>1 DEF Writing!Solves, EmitBody
  <2> DEFINE Q(f) == f = [x \in Inside(v) |-> EmitOne(x, f)]
             g == CHOOSE f : Q(f)
  <2>4. Q(g)
    <3>1. \E f : Q(f)
      BY <2>3
    <3> HIDE DEF Q
    <3> QED BY <3>1
  <2>5. Emitted[v] = g[v]
    BY <2>2
  <2> HIDE DEF g
  <2>6. Writing!Solves(0, inside[v], g)
    BY <2>4 DEF Writing!Solves, EmitBody
  <2> QED BY <2>5, <2>6
<1>7. ASSUME NEW v \in Docs
      PROVE  \E f : Saying!Solves(0, inside[v], f) /\ Said[v] = f[v]
  <2>1. \E f : Saying!Solves(0, inside[v], f)
    <3> HIDE DEF parts, inside
    <3> QED BY <1>5, Saying!SolvedInside
  <2>2. Said[v] = (CHOOSE f : f = [x \in Inside(v) |-> SaysOne(x, f)])[v]
    BY DEF Said, Meaning
  <2>3. \E f : f = [x \in Inside(v) |-> SaysOne(x, f)]
    BY <2>1 DEF Saying!Solves, SaysBody
  <2> DEFINE Q(f) == f = [x \in Inside(v) |-> SaysOne(x, f)]
             g == CHOOSE f : Q(f)
  <2>4. Q(g)
    <3>1. \E f : Q(f)
      BY <2>3
    <3> HIDE DEF Q
    <3> QED BY <3>1
  <2>5. Said[v] = g[v]
    BY <2>2
  <2> HIDE DEF g
  <2>6. Saying!Solves(0, inside[v], g)
    BY <2>4 DEF Saying!Solves, SaysBody
  <2> QED BY <2>5, <2>6
<1> HIDE DEF parts, inside
<1>8. \A v \in Docs : Emitted[v] = EmitBody(0, v, Emitted)
  BY <1>4, <1>6, Writing!SolvedTogether
<1>9. \A v \in Docs : Said[v] = SaysBody(0, v, Said)
  BY <1>5, <1>7, Saying!SolvedTogether
<1>10. \A v \in Docs : Emitted[v] = Emit(v) /\ Said[v] = Meaning(v)
  BY DEF Emitted, Said
<1> QED BY <1>8, <1>9, <1>10 DEF EmitBody, SaysBody

\* An array and an object of Docs; every other document is a scalar.
LEMMA KindOf ==
  ASSUME NEW v \in Docs
  PROVE  /\ v[1] \in {"null", "bool", "num", "str"} => v \in Scalars
         /\ v[1] = "arr" => v[2] \in Seq(Docs) /\ \A i \in DOMAIN v[2] : v[2][i] \in PartsOf(v)
         /\ v[1] = "obj" => ObjectOf(v, Docs)
         /\ v[1] \in {"null", "bool", "num", "str", "arr", "obj"}
<1> DEFINE S == {x \in Docs : depth[x] < depth[v]}
<1>1. S \subseteq Docs
  OBVIOUS
<1> HIDE DEF S
<1>2. CASE v \in Scalars
  <2>1. v[1] \in {"null", "bool", "num", "str"}
    BY <1>2, Kinds
  <2> QED BY <1>2, <2>1
<1>3. CASE ArrayOf(v, S)
  <2>1. v[1] = "arr" /\ v[2] \in Seq(S)
    BY <1>3 DEF ArrayOf
  <2>2. v[2] \in Seq(Docs)
    BY <1>1, <2>1
  <2>3. \A i \in DOMAIN v[2] : v[2][i] \in PartsOf(v)
    BY <2>1, PartsShallower DEF IsArray
  <2> QED BY <2>1, <2>2, <2>3
<1>4. CASE ObjectOf(v, S)
  <2>1. v[1] = "obj" /\ v[2] \in Seq(Texts \X S) /\ DistinctKeys(v[2]) /\ v = <<"obj", v[2]>>
    BY <1>4 DEF ObjectOf
  <2>2. Texts \X S \subseteq Texts \X Docs
    BY <1>1
  <2>3. v[2] \in Seq(Texts \X Docs)
    BY <2>1, <2>2
  <2>4. ObjectOf(v, Docs)
    BY <2>1, <2>3 DEF ObjectOf
  <2> QED BY <2>1, <2>4
<1> QED BY <1>2, <1>3, <1>4, Shape DEF S

\* An object is written key by key, in the order of the set of its keys.
LEMMA ObjectPieces ==
  ASSUME NEW v \in Docs, v[1] = "obj"
  PROVE  LET K == ObjectKeys(v[2])
             N == Cardinality(K)
         IN  /\ N \in Nat /\ K \subseteq Texts
             /\ \A n \in 1 .. N : Nth(K, n) \in K
             /\ \A k \in K : \E n \in 1 .. N : Nth(K, n) = k
             /\ \A k \in K : GetText(v, k) \in PartsOf(v)
             /\ \A f : Pieces(v, f) = [n \in 1 .. N |->
                         WriteString(Nth(K, n)) \o <<":">> \o f[GetText(v, Nth(K, n))]]
<1> DEFINE items == v[2]
           K == ObjectKeys(items)
           N == Cardinality(K)
           kids == SortKeys(items)
<1>1. ObjectOf(v, Docs) /\ items \in Seq(Texts \X Docs) /\ DistinctKeys(items) /\ IsObject(v)
  BY KindOf DEF ObjectOf, IsObject
<1>2. \A i \in DOMAIN items : /\ items[i][1] \in K
                              /\ GetText(v, items[i][1]) = items[i][2]
                              /\ items[i][2] \in PartsOf(v)
  BY <1>1, ItemFound, PartsShallower DEF ObjectKeys
<1>3. \A k \in K : GetText(v, k) \in PartsOf(v)
  BY <1>2 DEF ObjectKeys
<1>4. v[1] # "arr"
  OBVIOUS
<1>10. \A f : Pieces(v, f) = [i \in DOMAIN kids |-> WriteString(kids[i][1]) \o <<":">> \o f[kids[i][2]]]
  BY <1>4 DEF Pieces
<1> HIDE DEF items
<1>5. /\ kids \in Seq(Texts \X Docs) /\ Len(kids) = Len(items) /\ N = Len(items)
      /\ \A n \in 1 .. Len(items) : \E i \in DOMAIN items : kids[n] = items[i] /\ items[i][1] = Nth(K, n)
      /\ \A k \in K : \E n \in 1 .. Len(items) : Nth(K, n) = k
  BY <1>1, Sorted
<1>6. K \subseteq Texts
  BY <1>1, KeysCounted
<1>7. N \in Nat /\ DOMAIN kids = 1 .. N
  <2> HIDE DEF kids, K
  <2>1. Len(kids) \in Nat /\ DOMAIN kids = 1 .. Len(kids)
    BY <1>5
  <2> QED BY <2>1, <1>5
<1> HIDE DEF kids, K, N
<1>8. \A n \in 1 .. N : Nth(K, n) \in K /\ kids[n][1] = Nth(K, n) /\ kids[n][2] = GetText(v, Nth(K, n))
  BY <1>2, <1>5
<1>9. \A f : Pieces(v, f) = [n \in 1 .. N |->
                WriteString(Nth(K, n)) \o <<":">> \o f[GetText(v, Nth(K, n))]]
  BY <1>7, <1>8, <1>10
<1> QED BY <1>3, <1>5, <1>6, <1>7, <1>8, <1>9 DEF K, N, items

-----------------------------------------------------------------------------
(* Lists. *)

\* What a value begins with; an item of a list begins with no other symbol.
Openings == NumeralSymbols \cup {"n", "t", "f", "-", Quote, "[", LBrace}
\* Texts that may be listed.
Items(texts) ==
  texts \in Seq(Texts) /\ \A i \in 1 .. Len(texts) : Len(texts[i]) > 0 /\ texts[i][1] \in Openings
\* What closes a list.
Closing == {"]", RBrace}

\* The texts of a list with the commas between them.
Separated(texts) == [i \in DOMAIN texts |-> IF i = 1 THEN texts[i] ELSE <<Comma>> \o texts[i]]

\* The texts of a list with their commas, and how they begin.
LEMMA SeparatedParts ==
  ASSUME NEW texts, Items(texts)
  PROVE  /\ Separated(texts) \in Seq(Texts) /\ Len(Separated(texts)) = Len(texts)
         /\ Joined(texts) = FlattenSeq(Separated(texts)) /\ Joined(texts) \in Texts
         /\ \A i \in 1 .. Len(texts) : /\ Len(Separated(texts)[i]) > 0
                                       /\ Separated(texts)[i][1] \notin Closing
         /\ \A i \in 2 .. Len(texts) : Separated(texts)[i][1] = Comma
         /\ Len(texts) > 0 => Separated(texts)[1] = texts[1]
         /\ \A i \in 2 .. Len(texts) : Separated(texts)[i] = <<Comma>> \o texts[i]
<1> DEFINE sep == Separated(texts)
<1>1. DOMAIN texts = 1 .. Len(texts) /\ Len(texts) \in Nat /\ \A i \in 1 .. Len(texts) : texts[i] \in Texts
  BY DEF Items
<1>2. <<Comma>> \in Texts /\ Len(<<Comma>>) = 1 /\ <<Comma>>[1] = Comma
  BY MarksAreCharacters, OneSymbol
<1>3. /\ Len(texts) > 0 => sep[1] = texts[1]
      /\ \A i \in 2 .. Len(texts) : sep[i] = <<Comma>> \o texts[i]
  BY <1>1 DEF Separated
<1>4. \A w \in Texts : /\ <<Comma>> \o w \in Texts /\ Len(<<Comma>> \o w) > 0
                       /\ (<<Comma>> \o w)[1] = Comma
  BY <1>2 DEF Texts
<1>5. Comma \notin Closing /\ Openings \cap Closing = {}
  <2>1. Comma \notin Closing
    BY MarksDiffer DEF Closing
  <2>2. NumeralSymbols \cap Closing = {}
    BY NumeralsDiffer DEF Closing
  <2>3. {"n", "t", "f", "-", Quote, "[", LBrace} \cap Closing = {}
    BY MarksDiffer DEF Closing
  <2> QED BY <2>1, <2>2, <2>3 DEF Openings
<1> HIDE DEF sep
<1>6. ASSUME NEW i \in 1 .. Len(texts)
      PROVE  /\ sep[i] \in Texts /\ Len(sep[i]) > 0 /\ sep[i][1] \notin Closing
             /\ i # 1 => sep[i][1] = Comma
  <2>1. CASE i = 1
    <3>1. sep[i] = texts[i] /\ Len(texts[i]) > 0 /\ texts[i][1] \in Openings
      BY <2>1, <1>1, <1>3 DEF Items
    <3> QED BY <3>1, <2>1, <1>1, <1>5
  <2>2. CASE i # 1
    <3>1. i \in 2 .. Len(texts)
      BY <2>2, <1>1
    <3>2. sep[i] = <<Comma>> \o texts[i] /\ texts[i] \in Texts
      BY <3>1, <1>1, <1>3
    <3> QED BY <3>2, <1>4, <1>5
  <2> QED BY <2>1, <2>2
<1>7. sep \in Seq(Texts) /\ Len(sep) = Len(texts)
  <2>1. sep = [i \in 1 .. Len(texts) |-> sep[i]]
    BY <1>1 DEF Separated, sep
  <2> QED BY <1>1, <1>6, <2>1
<1>8. Joined(texts) = FlattenSeq(sep)
  BY Zenon DEF Joined, Separated, Comma, sep
<1>9. FlattenSeq(sep) \in Texts
  BY <1>7, Flattened
<1>10. \A i \in 2 .. Len(texts) : i \in 1 .. Len(texts) /\ i # 1
  BY <1>1
<1> QED BY <1>3, <1>6, <1>7, <1>8, <1>9, <1>10 DEF sep

\* Where the i-th text itself stands: from the second on behind a comma.
From(r, i) == IF i = 1 THEN r ELSE r + 1
\* Each text of a joined list stands behind its comma.
LEMMA SeparatedStands ==
  ASSUME NEW T \in Texts, NEW r \in Nat, NEW texts, Items(texts), NEW z \in Closing,
         NEW i \in 1 .. Len(texts), Stands(T, r, Separated(texts), z, i)
  PROVE  /\ From(r, i) \in Nat /\ At(T, From(r, i), texts[i])
         /\ Ended(T, From(r, i) + Len(texts[i]))
<1> DEFINE sep == Separated(texts)
           s == From(r, i)
<1>1. Len(texts) \in Nat /\ texts[i] \in Texts /\ Len(texts[i]) \in Nat
  <2>1. Len(texts) \in Nat /\ texts[i] \in Texts
    BY DEF Items
  <2> QED BY <2>1, TextParts
<1>2. <<Comma>> \in Texts /\ Len(<<Comma>>) = 1
  BY MarksAreCharacters, OneSymbol
<1>3. At(T, r, sep[i]) /\ At(T, r + Len(sep[i]), <<Following(sep, z, i)>>)
  BY DEF Stands
<1>4. s \in Nat /\ At(T, s, texts[i]) /\ r + Len(sep[i]) = s + Len(texts[i])
  <2>1. CASE i = 1
    <3>1. sep[i] = texts[i]
      BY <2>1, <1>1, SeparatedParts
    <3> QED BY <2>1, <3>1, <1>3 DEF From
  <2>2. CASE i # 1
    <3>1. i \in 2 .. Len(texts)
      BY <2>2, <1>1
    <3>2. sep[i] = <<Comma>> \o texts[i]
      BY <3>1, SeparatedParts
    <3>3. Len(sep[i]) = 1 + Len(texts[i])
      BY <3>2, <1>1, <1>2 DEF Texts
    <3>4. At(T, r, <<Comma>> \o texts[i])
      BY <3>2, <1>3, Zenon
    <3>5. At(T, r + Len(<<Comma>>), texts[i])
      BY <3>4, <1>1, <1>2, AtBoth
    <3>6. s = r + 1
      BY <2>2 DEF From
    <3> HIDE DEF sep, s
    <3>7. r + Len(<<Comma>>) = s
      BY <3>6, <1>2
    <3>8. At(T, s, texts[i])
      BY <3>5, <3>7, Zenon
    <3> DEFINE ls == Len(sep[i])
               lt == Len(texts[i])
    <3>10. ls = 1 + lt /\ lt \in Nat
      BY <3>3, <1>1
    <3> HIDE DEF ls, lt
    <3>11. s \in Nat /\ r + ls = s + lt
      BY <3>6, <3>10
    <3>9. s \in Nat /\ r + Len(sep[i]) = s + Len(texts[i])
      BY <3>11 DEF ls, lt
    <3> QED BY <3>8, <3>9
  <2> QED BY <2>1, <2>2
<1>5. Following(sep, z, i) \in {Comma, "]", RBrace} /\ Following(sep, z, i) \in Characters
  <2>1. CASE i < Len(sep)
    <3>1. i + 1 \in 2 .. Len(texts)
      BY <2>1, <1>1, SeparatedParts
    <3>2. Following(sep, z, i) = Comma
      BY <2>1, <3>1, SeparatedParts DEF Following
    <3> QED BY <3>2, MarksAreCharacters
  <2>2. CASE ~(i < Len(sep))
    <3>1. Following(sep, z, i) = z
      BY <2>2 DEF Following
    <3> QED BY <3>1, MarksAreCharacters DEF Closing
  <2> QED BY <2>1, <2>2
<1>6. Ended(T, s + Len(texts[i]))
  <2>1. At(T, s + Len(texts[i]), <<Following(sep, z, i)>>) /\ s + Len(texts[i]) \in Nat
    BY <1>1, <1>3, <1>4
  <2> DEFINE q == s + Len(texts[i])
             c == Following(sep, z, i)
  <2>2. q \in Nat /\ At(T, q, <<c>>) /\ c \in Characters /\ c \in {Comma, "]", RBrace}
    BY <2>1, <1>5
  <2> HIDE DEF q, c
  <2>3. q + 1 <= Len(T) /\ T[q + 1] = c
    BY <2>2, AtSymbol
  <2>4. Ended(T, q)
    BY <2>2, <2>3 DEF Ended
  <2> QED BY <2>4 DEF q
<1> QED BY <1>4, <1>6

\* A list is read as one list, if each of its items is read as one text.
LEMMA JoinedRead ==
  ASSUME NEW T \in Texts, NEW q \in Nat, NEW z \in Closing,
         NEW us, Items(us), NEW ws, Items(ws),
         At(T, q, Joined(us)), At(T, q + Len(Joined(us)), <<z>>),
         At(T, q, Joined(ws)), At(T, q + Len(Joined(ws)), <<z>>),
         \A i \in 1 .. Len(us), s \in Nat :
           /\ i <= Len(ws) /\ At(T, s, us[i]) /\ At(T, s, ws[i])
           /\ Ended(T, s + Len(us[i])) /\ Ended(T, s + Len(ws[i]))
           => us[i] = ws[i]
  PROVE  us = ws
<1>1. z \in Characters
  BY MarksAreCharacters DEF Closing
<1>2. Closed(T, q, Separated(us), z) /\ Closed(T, q, Separated(ws), z)
  <2> SUFFICES ASSUME NEW t, Items(t), At(T, q, Joined(t)), At(T, q + Len(Joined(t)), <<z>>)
               PROVE  Closed(T, q, Separated(t), z)
    OBVIOUS
  <2>1. Joined(t) = FlattenSeq(Separated(t)) /\ Len(Separated(t)) = Len(t)
    BY SeparatedParts
  <2>2. \A i \in 1 .. Len(t) : Len(Separated(t)[i]) > 0 /\ Separated(t)[i][1] # z
    <3> SUFFICES ASSUME NEW i \in 1 .. Len(t)
                 PROVE  Len(Separated(t)[i]) > 0 /\ Separated(t)[i][1] # z
      OBVIOUS
    <3>1. Len(Separated(t)[i]) > 0 /\ Separated(t)[i][1] \notin Closing
      BY SeparatedParts
    <3> QED BY <3>1
  <2> QED BY <2>1, <2>2 DEF Closed
<1>3. /\ Len(Separated(us)) = Len(us) /\ Len(us) \in Nat /\ Separated(us) \in Seq(Texts)
      /\ Len(Separated(ws)) = Len(ws) /\ Len(ws) \in Nat /\ Separated(ws) \in Seq(Texts)
  BY SeparatedParts DEF Items
<1>4. ASSUME NEW i \in 1 .. Len(us), NEW r \in Nat, i <= Len(ws),
             Stands(T, r, Separated(us), z, i), Stands(T, r, Separated(ws), z, i)
      PROVE  us[i] = ws[i]
  <2>1. i \in 1 .. Len(ws)
    BY <1>3, <1>4
  <2>2. From(r, i) \in Nat /\ At(T, From(r, i), us[i]) /\ Ended(T, From(r, i) + Len(us[i]))
    BY <1>4, SeparatedStands
  <2>3. At(T, From(r, i), ws[i]) /\ Ended(T, From(r, i) + Len(ws[i]))
    BY <1>4, <2>1, SeparatedStands
  <2> QED BY <1>4, <2>2, <2>3
<1>5. \A i \in 1 .. Len(us) : i <= Len(ws) /\ us[i] = ws[i] => Separated(us)[i] = Separated(ws)[i]
  <2> SUFFICES ASSUME NEW i \in 1 .. Len(us), i <= Len(ws), us[i] = ws[i]
               PROVE  Separated(us)[i] = Separated(ws)[i]
    OBVIOUS
  <2>1. i \in DOMAIN us /\ i \in DOMAIN ws
    BY <1>3 DEF Items
  <2> QED BY <2>1 DEF Separated
<1>6. OneReading(T, Separated(us), Separated(ws), z)
  BY <1>3, <1>4, <1>5 DEF OneReading
<1>7. Separated(us) = Separated(ws)
  BY <1>1, <1>2, <1>3, <1>6, ListRead
<1>8. Len(us) = Len(ws)
  BY <1>3, <1>7
<1>9. ASSUME NEW i \in 1 .. Len(us)
      PROVE  us[i] = ws[i]
  <2>1. us[i] \in Texts /\ ws[i] \in Texts /\ i \in 1 .. Len(ws)
    BY <1>8 DEF Items
  <2>2. CASE i = 1
    BY <2>1, <2>2, <1>7, <1>8, SeparatedParts
  <2>3. CASE i # 1
    <3>1. i \in 2 .. Len(us) /\ i \in 2 .. Len(ws)
      BY <2>3, <1>3, <1>8
    <3>2. <<Comma>> \o us[i] = <<Comma>> \o ws[i]
      <4>1. Separated(us)[i] = <<Comma>> \o us[i]
        BY <3>1, SeparatedParts
      <4>2. Separated(ws)[i] = <<Comma>> \o ws[i]
        BY <3>1, SeparatedParts
      <4> QED BY <4>1, <4>2, <1>7, Zenon
    <3>3. <<Comma>> \in Texts /\ Len(<<Comma>>) = 1
      BY MarksAreCharacters, OneSymbol
    <3> DEFINE a == us[i]
               b == ws[i]
    <3>4. a \in Texts /\ b \in Texts /\ <<Comma>> \o a = <<Comma>> \o b
      BY <2>1, <3>2
    <3> HIDE DEF a, b
    <3>5. a = b
      <4>1. Len(<<Comma>> \o a) = 1 + Len(a) /\ Len(<<Comma>> \o b) = 1 + Len(b) /\ Len(a) \in Nat /\ Len(b) \in Nat
        BY <3>3, <3>4 DEF Texts
      <4>2. Len(a) = Len(b)
        BY <3>4, <4>1
      <4>3. \A j \in 1 .. Len(a) : (<<Comma>> \o a)[1 + j] = a[j] /\ (<<Comma>> \o b)[1 + j] = b[j]
        BY <3>3, <3>4, <4>2 DEF Texts
      <4>4. \A j \in 1 .. Len(a) : a[j] = b[j]
        BY <3>4, <4>3
      <4> QED BY <3>4, <4>2, <4>4, SameText
    <3> QED BY <3>5 DEF a, b
  <2> QED BY <2>2, <2>3
<1> QED BY <1>8, <1>9 DEF Items

-----------------------------------------------------------------------------
(* The text of a document. *)

\* The three words are texts.
LEMMA WordTexts ==
  /\ <<"n", "u", "l", "l">> \in Texts /\ Len(<<"n", "u", "l", "l">>) = 4
  /\ <<"t", "r", "u", "e">> \in Texts /\ Len(<<"t", "r", "u", "e">>) = 4
  /\ <<"f", "a", "l", "s", "e">> \in Texts /\ Len(<<"f", "a", "l", "s", "e">>) = 5
BY MarksAreCharacters DEF Texts

\* What a document's text begins with.
Opener(v) ==
  IF v[1] = "null" THEN {"n"}
  ELSE IF v[1] = "bool" THEN (IF v[2] THEN {"t"} ELSE {"f"})
  ELSE IF v[1] = "num" THEN NumeralSymbols \cup {"-"}
  ELSE IF v[1] = "str" THEN {Quote}
  ELSE IF v[1] = "arr" THEN {"["} ELSE {LBrace}

\* One symbol opens documents of one kind only.
LEMMA OneOpener ==
  ASSUME NEW v \in Docs, NEW w \in Docs, NEW c, c \in Opener(v), c \in Opener(w)
  PROVE  v[1] = w[1] /\ (v[1] = "bool" => v[2] = w[2])
<1>1. /\ v[1] \in {"null", "bool", "num", "str", "arr", "obj"}
      /\ w[1] \in {"null", "bool", "num", "str", "arr", "obj"}
      /\ v[1] = "bool" => v[2] \in BOOLEAN
      /\ w[1] = "bool" => w[2] \in BOOLEAN
  BY KindOf, Kinds
<1>2. NumeralSymbols \cap {"n", "t", "f", Quote, "[", LBrace} = {}
  BY NumeralsDiffer
<1>3. /\ Quote \notin {"n", "t", "f", "-", "[", LBrace} 
      /\ LBrace \notin {"n", "t", "f", "-", "["}
  BY MarksDiffer
<1> QED BY <1>1, <1>2, <1>3 DEF Opener

\* The texts an array or an object lists.
Listed(v) == Pieces(v, Emitted)
\* The text of a document, by its kind.
LEMMA TextOf ==
  ASSUME NEW v \in Docs
  PROVE  /\ v[1] = "null" => Emit(v) = <<"n", "u", "l", "l">>
         /\ v[1] = "bool" => Emit(v) = IF v[2] THEN <<"t", "r", "u", "e">>
                                       ELSE <<"f", "a", "l", "s", "e">>
         /\ v[1] = "num" => Emit(v) = WriteNumber(v[2])
         /\ v[1] = "str" => Emit(v) = WriteString(v[2])
         /\ v[1] = "arr" => Emit(v) = Bracket("[", Joined(Listed(v)), "]")
         /\ v[1] = "obj" => Emit(v) = Bracket(LBrace, Joined(Listed(v)), RBrace)
<1>1. Emit(v) = EmitOne(v, Emitted)
  BY Equations
<1> DEFINE e == Emit(v)
           g == EmitOne(v, Emitted)
<1>2. /\ v[1] = "null" => g = <<"n", "u", "l", "l">>
      /\ v[1] = "bool" => g = IF v[2] THEN <<"t", "r", "u", "e">>
                                           ELSE <<"f", "a", "l", "s", "e">>
      /\ v[1] = "num" => g = WriteNumber(v[2])
      /\ v[1] = "str" => g = WriteString(v[2])
      /\ v[1] = "arr" => g = Bracket("[", Joined(Listed(v)), "]")
      /\ v[1] = "obj" => g = Bracket(LBrace, Joined(Listed(v)), RBrace)
  BY EmitKinds, Zenon DEF Listed, Bracket
<1>3. e = g
  BY <1>1
<1> HIDE DEF e, g
<1>4. /\ v[1] = "null" => e = <<"n", "u", "l", "l">>
      /\ v[1] = "bool" => e = IF v[2] THEN <<"t", "r", "u", "e">>
                                           ELSE <<"f", "a", "l", "s", "e">>
      /\ v[1] = "num" => e = WriteNumber(v[2])
      /\ v[1] = "str" => e = WriteString(v[2])
      /\ v[1] = "arr" => e = Bracket("[", Joined(Listed(v)), "]")
      /\ v[1] = "obj" => e = Bracket(LBrace, Joined(Listed(v)), RBrace)
  BY <1>2, <1>3, Zenon
<1> QED BY <1>4, Zenon DEF e

\* A text has symbols and begins with what opens it.
OpensRight(v) == Emit(v) \in Texts /\ Len(Emit(v)) > 0 /\ Emit(v)[1] \in Opener(v)

\* What opens a document opens an item of a list.
LEMMA OpenersOpen ==
  ASSUME NEW v \in Docs
  PROVE  Opener(v) \subseteq Openings
BY DEF Opener, Openings

\* One item of an object: its key, a colon and its value.
Item(k, w) == WriteString(k) \o <<":">> \o w
\* Its text begins with a quote, and holds the key and the value.
LEMMA ItemText ==
  ASSUME NEW k \in Texts, NEW w \in Texts
  PROVE  /\ Item(k, w) \in Texts /\ Len(Item(k, w)) > 0 /\ Item(k, w)[1] = Quote
         /\ Len(Item(k, w)) = Len(WriteString(k)) + 1 + Len(w)
         /\ \A T \in Texts, p \in Nat : At(T, p, Item(k, w)) =>
              At(T, p, WriteString(k)) /\ At(T, p + Len(WriteString(k)) + 1, w)
<1> DEFINE s == WriteString(k)
           t == s \o <<":">>
           u == Item(k, w)
<1>1. s \in Texts /\ Len(s) > 0 /\ s[1] = Quote /\ Len(s) \in Nat /\ Len(w) \in Nat
  <2>1. s \in Texts /\ Len(s) > 0 /\ s[1] = Quote
    BY StringText
  <2> QED BY <2>1, TextParts
<1>2. <<":">> \in Texts /\ Len(<<":">>) = 1
  BY MarksAreCharacters, OneSymbol
<1>3. u = t \o w
  BY DEF Item
<1> HIDE DEF s, u
<1>4. t \in Texts /\ Len(t) = Len(s) + 1 /\ t[1] = Quote
  BY <1>1, <1>2 DEF Texts
<1>5. u \in Texts /\ Len(u) = Len(s) + 1 + Len(w) /\ u[1] = Quote /\ Len(u) > 0
  <2> HIDE DEF t
  <2>3. t \in Texts /\ w \in Texts
    BY <1>4
  <2>4. Len(t) \in Nat /\ Len(t) > 0
    BY <1>1, <1>4
  <2>1. u = t \o w /\ t \in Texts /\ w \in Texts /\ Len(t) \in Nat /\ Len(t) > 0
    BY <1>3, <2>3, <2>4, Zenon
  <2>2. u \in Texts /\ Len(u) = Len(t) + Len(w) /\ u[1] = t[1]
    BY ONLY <2>1 DEF Texts
  <2> QED BY <2>1, <2>2, <1>1, <1>4
<1>6. ASSUME NEW T \in Texts, NEW p \in Nat, At(T, p, u)
      PROVE  At(T, p, s) /\ At(T, p + Len(s) + 1, w)
  <2>1. At(T, p, t) /\ At(T, p + Len(t), w)
    <3> HIDE DEF t
    <3>1. At(T, p, t \o w)
      BY <1>3, <1>6, Zenon
    <3> QED BY <3>1, <1>4, AtBoth
  <2>2. At(T, p, s)
    BY <2>1, <1>1, <1>2, AtBoth
  <2>3. p + Len(t) = p + Len(s) + 1
    <3> HIDE DEF t
    <3> QED BY <1>4, <1>1
  <2> HIDE DEF t
  <2>4. At(T, p + Len(s) + 1, w)
    BY <2>1, <2>3, Zenon
  <2> QED BY <2>2, <2>4
<1> HIDE DEF t
<1> QED BY <1>5, <1>6, Zenon DEF s, u

\* If the texts of its parts open right, an array or an object lists items.
LEMMA ListedItems ==
  ASSUME NEW v \in Docs, \A x \in PartsOf(v) : OpensRight(x), v[1] \in {"arr", "obj"}
  PROVE  Items(Listed(v))
<1>1. \A x \in PartsOf(v) : x \in Docs /\ Emitted[x] = Emit(x)
  BY PartsShallower DEF Emitted
<1>2. CASE v[1] = "arr"
  <2>1. v[2] \in Seq(Docs) /\ \A i \in DOMAIN v[2] : v[2][i] \in PartsOf(v)
    BY <1>2, KindOf
  <2> DEFINE s == v[2]
  <2>2. s \in Seq(Docs) /\ \A i \in DOMAIN s : s[i] \in PartsOf(v)
    BY <2>1
  <2>3. Listed(v) = [i \in DOMAIN s |-> Emitted[s[i]]]
    BY <1>2 DEF Listed, Pieces
  <2> HIDE DEF s
  <2>4. Len(s) \in Nat /\ DOMAIN s = 1 .. Len(s)
    BY <2>2
  <2>5. \A i \in 1 .. Len(s) : /\ Emitted[s[i]] \in Texts /\ Len(Emitted[s[i]]) > 0
                               /\ Emitted[s[i]][1] \in Openings
    BY <1>1, <2>2, <2>4, OpenersOpen DEF OpensRight
  <2>6. Listed(v) = [i \in 1 .. Len(s) |-> Emitted[s[i]]]
    BY <2>3, <2>4
  <2>7. Listed(v) \in Seq(Texts) /\ Len(Listed(v)) = Len(s)
    BY <2>4, <2>5, <2>6
  <2> QED BY <2>5, <2>6, <2>7 DEF Items
<1>3. CASE v[1] = "obj"
  <2> DEFINE K == ObjectKeys(v[2])
             N == Cardinality(K)
             key == [n \in 1 .. N |-> Nth(K, n)]
             part == [n \in 1 .. N |-> GetText(v, Nth(K, n))]
  <2>1. /\ N \in Nat /\ K \subseteq Texts /\ \A n \in 1 .. N : Nth(K, n) \in K
        /\ \A k \in K : GetText(v, k) \in PartsOf(v)
    BY <1>3, ObjectPieces
  <2>2. \A f : Pieces(v, f) = [n \in 1 .. N |->
                 WriteString(Nth(K, n)) \o <<":">> \o f[GetText(v, Nth(K, n))]]
    BY <1>3, ObjectPieces
  <2>3. Listed(v) = [n \in 1 .. N |-> WriteString(key[n]) \o <<":">> \o Emitted[part[n]]]
    BY <2>2 DEF Listed
  <2>4. \A n \in 1 .. N : key[n] \in Texts /\ part[n] \in PartsOf(v)
    BY <2>1
  <2> HIDE DEF K, N, key, part
  <2>5. \A n \in 1 .. N : Emitted[part[n]] \in Texts
    BY <1>1, <2>4 DEF OpensRight
  <2>6. ASSUME NEW n \in 1 .. N
        PROVE  Listed(v)[n] \in Texts /\ Len(Listed(v)[n]) > 0 /\ Listed(v)[n][1] = Quote
    <3>1. Listed(v)[n] = Item(key[n], Emitted[part[n]])
      BY <2>3 DEF Item
    <3>2. key[n] \in Texts /\ Emitted[part[n]] \in Texts
      BY <2>4, <2>5
    <3> DEFINE u == Item(key[n], Emitted[part[n]])
    <3>3. u \in Texts /\ Len(u) > 0 /\ u[1] = Quote
      BY <3>2, ItemText
    <3> QED BY <3>1, <3>3, Zenon
  <2>7. Listed(v) = [n \in 1 .. N |-> Listed(v)[n]]
    BY <2>3
  <2>8. Listed(v) \in Seq(Texts) /\ Len(Listed(v)) = N
    BY <2>1, <2>6, <2>7
  <2> QED BY <2>6, <2>8 DEF Items, Openings
<1> QED BY <1>2, <1>3

\* Every text of a document opens right.
LEMMA TextOpens ==
  \A v \in Docs : OpensRight(v)
<1> DEFINE Bad == {v \in Docs : ~OpensRight(v)}
<1> SUFFICES ASSUME Bad # {} PROVE FALSE
  OBVIOUS
<1>1. PICK v \in Bad : \A w \in Bad : depth[v] <= depth[w]
  <2>1. \A w \in Bad : depth[w] \in Nat
    BY Shape
  <2> HIDE DEF Bad
  <2> QED BY <2>1, Flatten!LeastRank
<1>2. v \in Docs /\ ~OpensRight(v)
  BY <1>1
<1>3. \A x \in PartsOf(v) : OpensRight(x)
  <2> SUFFICES ASSUME NEW x \in PartsOf(v) PROVE OpensRight(x)
    OBVIOUS
  <2>1. x \in Docs /\ depth[x] < depth[v] /\ depth[x] \in Nat /\ depth[v] \in Nat
    BY <1>2, PartsShallower, Shape
  <2>2. x \notin Bad
    <3> HIDE DEF Bad
    <3> QED BY <1>1, <2>1
  <2> QED BY <2>1, <2>2
<1> HIDE DEF Bad
<1>4. v[1] \in {"null", "bool", "num", "str"} => v \in Scalars
  BY <1>2, KindOf
<1>5. CASE v[1] = "null"
  <2>1. Emit(v) = <<"n", "u", "l", "l">>
    BY <1>2, <1>5, TextOf
  <2> QED BY <2>1, <1>2, <1>5, WordTexts DEF OpensRight, Opener
<1>6. CASE v[1] = "bool"
  <2>1. Emit(v) = IF v[2] THEN <<"t", "r", "u", "e">> ELSE <<"f", "a", "l", "s", "e">>
    BY <1>2, <1>6, TextOf
  <2> QED BY <2>1, <1>2, <1>6, WordTexts DEF OpensRight, Opener
<1>7. CASE v[1] = "num"
  <2>1. Emit(v) = WriteNumber(v[2]) /\ v[2] \in Int
    BY <1>2, <1>4, <1>7, TextOf, Kinds
  <2>2. WriteNumber(v[2]) \in Texts /\ Len(WriteNumber(v[2])) > 0
    BY <2>1, NumberText
  <2>3. WriteNumber(v[2])[1] \in NumeralSymbols \cup {"-"}
    <3>1. CASE v[2] < 0
      BY <2>1, <3>1, NumberText
    <3>2. CASE v[2] >= 0
      BY <2>1, <3>2, NumberText
    <3> QED BY <2>1, <3>1, <3>2
  <2> QED BY <2>1, <2>2, <2>3, <1>2, <1>7 DEF OpensRight, Opener
<1>8. CASE v[1] = "str"
  <2>1. Emit(v) = WriteString(v[2]) /\ v[2] \in Texts
    BY <1>2, <1>4, <1>8, TextOf, Kinds
  <2>2. WriteString(v[2]) \in Texts /\ Len(WriteString(v[2])) > 0 /\ WriteString(v[2])[1] = Quote
    BY <2>1, StringText
  <2> QED BY <2>1, <2>2, <1>2, <1>8 DEF OpensRight, Opener
<1>9. CASE v[1] = "arr"
  <2>1. Emit(v) = Bracket("[", Joined(Listed(v)), "]")
    BY <1>2, <1>9, TextOf
  <2>2. Joined(Listed(v)) \in Texts
    BY <1>2, <1>3, <1>9, ListedItems, SeparatedParts
  <2> DEFINE w == Joined(Listed(v))
             e == Emit(v)
  <2>5. e = Bracket("[", w, "]") /\ w \in Texts /\ "[" \in Characters /\ "]" \in Characters
    BY <2>1, <2>2, MarksAreCharacters
  <2>3. Emit(v) \in Texts /\ Len(Emit(v)) = Len(Joined(Listed(v))) + 2 /\ Emit(v)[1] = "["
    <3> HIDE DEF w, e
    <3>1. e \in Texts /\ Len(e) = Len(w) + 2 /\ e[1] = "["
      BY <2>5, Bracketed
    <3> QED BY <3>1 DEF w, e
  <2>4. Len(Joined(Listed(v))) \in Nat
    BY <2>2, TextParts
  <2> QED BY <2>3, <2>4, <1>2, <1>9 DEF OpensRight, Opener
<1>10. CASE v[1] = "obj"
  <2>1. Emit(v) = Bracket(LBrace, Joined(Listed(v)), RBrace)
    BY <1>2, <1>10, TextOf
  <2>2. Joined(Listed(v)) \in Texts
    BY <1>2, <1>3, <1>10, ListedItems, SeparatedParts
  <2> DEFINE w == Joined(Listed(v))
             e == Emit(v)
  <2>5. e = Bracket(LBrace, w, RBrace) /\ w \in Texts /\ LBrace \in Characters /\ RBrace \in Characters
    BY <2>1, <2>2, MarksAreCharacters
  <2>3. Emit(v) \in Texts /\ Len(Emit(v)) = Len(Joined(Listed(v))) + 2 /\ Emit(v)[1] = LBrace
    <3> HIDE DEF w, e
    <3>1. e \in Texts /\ Len(e) = Len(w) + 2 /\ e[1] = LBrace
      BY <2>5, Bracketed
    <3> QED BY <3>1 DEF w, e
  <2>4. Len(Joined(Listed(v))) \in Nat
    BY <2>2, TextParts
  <2> QED BY <2>3, <2>4, <1>2, <1>10 DEF OpensRight, Opener
<1>11. v[1] \in {"null", "bool", "num", "str", "arr", "obj"}
  BY <1>2, KindOf
<1> QED BY <1>5, <1>6, <1>7, <1>8, <1>9, <1>10, <1>11

-----------------------------------------------------------------------------
(* What is said decides the text. *)

\* What a document says, by its kind.
LEMMA MeaningOf ==
  ASSUME NEW v \in Docs
  PROVE  /\ v[1] \in {"null", "bool", "num", "str"} => Meaning(v) = v
         /\ v[1] = "arr" => Meaning(v) = <<"arr", [i \in DOMAIN v[2] |-> Meaning(v[2][i])]>>
         /\ v[1] = "obj" => Meaning(v) = <<"obj", [k \in ObjectKeys(v[2]) |-> Meaning(GetText(v, k))]>>
         /\ Meaning(v)[1] = v[1]
<1>1. Meaning(v) = SaysOne(v, Said)
  BY Equations
<1>2. \A x \in PartsOf(v) : Said[x] = Meaning(x)
  BY PartsShallower DEF Said
<1>3. CASE v[1] \in {"null", "bool", "num", "str"}
  BY <1>1, <1>3, SaysKinds
<1>4. CASE v[1] = "arr"
  <2>1. \A i \in DOMAIN v[2] : Said[v[2][i]] = Meaning(v[2][i])
    BY <1>2, <1>4, KindOf
  <2>2. [i \in DOMAIN v[2] |-> Said[v[2][i]]] = [i \in DOMAIN v[2] |-> Meaning(v[2][i])]
    BY <2>1
  <2>3. Meaning(v) = <<"arr", [i \in DOMAIN v[2] |-> Said[v[2][i]]]>>
    BY <1>1, <1>4, SaysKinds
  <2>4. Meaning(v) = <<"arr", [i \in DOMAIN v[2] |-> Meaning(v[2][i])]>>
    BY <2>2, <2>3, Zenon
  <2> QED BY <1>4, <2>4
<1>5. CASE v[1] = "obj"
  <2>1. \A k \in ObjectKeys(v[2]) : Said[GetText(v, k)] = Meaning(GetText(v, k))
    BY <1>2, <1>5, ObjectPieces
  <2>2. [k \in ObjectKeys(v[2]) |-> Said[GetText(v, k)]] = [k \in ObjectKeys(v[2]) |-> Meaning(GetText(v, k))]
    BY <2>1
  <2>3. Meaning(v) = <<"obj", [k \in ObjectKeys(v[2]) |-> Said[GetText(v, k)]]>>
    BY <1>1, <1>5, SaysKinds
  <2>4. Meaning(v) = <<"obj", [k \in ObjectKeys(v[2]) |-> Meaning(GetText(v, k))]>>
    BY <2>2, <2>3, Zenon
  <2> QED BY <1>5, <2>4
<1> QED BY <1>3, <1>4, <1>5, KindOf

\* What two documents that say the same have in common, part by part.
SameParts(v, w) ==
  /\ v[1] = w[1]
  /\ v[1] \in {"null", "bool", "num", "str"} => v = w
  /\ v[1] = "arr" => /\ DOMAIN v[2] = DOMAIN w[2]
                     /\ \A i \in DOMAIN v[2] : Meaning(v[2][i]) = Meaning(w[2][i])
  /\ v[1] = "obj" => /\ ObjectKeys(v[2]) = ObjectKeys(w[2])
                     /\ \A k \in ObjectKeys(v[2]) : Meaning(GetText(v, k)) = Meaning(GetText(w, k))

\* Documents with the same parts say the same, and no others do.
LEMMA SameMeaning ==
  ASSUME NEW v \in Docs, NEW w \in Docs
  PROVE  Meaning(v) = Meaning(w) <=> SameParts(v, w)
<1>1. CASE v[1] \in {"null", "bool", "num", "str"}
  <2>1. Meaning(v) = v
    BY <1>1, MeaningOf
  <2>2. Meaning(w)[1] = w[1] /\ (w[1] \in {"null", "bool", "num", "str"} => Meaning(w) = w)
    BY MeaningOf
  <2> QED BY <1>1, <2>1, <2>2 DEF SameParts
<1>2. CASE v[1] = "arr"
  <2> DEFINE f == [i \in DOMAIN v[2] |-> Meaning(v[2][i])]
             g == [i \in DOMAIN w[2] |-> Meaning(w[2][i])]
  <2>1. Meaning(v) = <<"arr", f>> /\ Meaning(v)[1] = v[1] /\ Meaning(w)[1] = w[1]
    BY <1>2, MeaningOf
  <2>2. w[1] = "arr" => Meaning(w) = <<"arr", g>>
    BY MeaningOf
  <2>3. f = g <=> /\ DOMAIN v[2] = DOMAIN w[2]
                  /\ \A i \in DOMAIN v[2] : Meaning(v[2][i]) = Meaning(w[2][i])
    <3>1. ASSUME f = g PROVE /\ DOMAIN v[2] = DOMAIN w[2]
                             /\ \A i \in DOMAIN v[2] : Meaning(v[2][i]) = Meaning(w[2][i])
      <4>1. DOMAIN f = DOMAIN v[2] /\ DOMAIN g = DOMAIN w[2]
        OBVIOUS
      <4>2. \A i \in DOMAIN v[2] : f[i] = Meaning(v[2][i])
        OBVIOUS
      <4>3. \A i \in DOMAIN w[2] : g[i] = Meaning(w[2][i])
        OBVIOUS
      <4> HIDE DEF f, g
      <4> QED BY <3>1, <4>1, <4>2, <4>3
    <3> QED BY <3>1
  <2> HIDE DEF f, g
  <2>4. Meaning(v) = Meaning(w) <=> v[1] = w[1] /\ f = g
    BY <1>2, <2>1, <2>2
  <2> QED BY <1>2, <2>3, <2>4 DEF SameParts
<1>3. CASE v[1] = "obj"
  <2> DEFINE K == ObjectKeys(v[2])
             L == ObjectKeys(w[2])
             f == [k \in K |-> Meaning(GetText(v, k))]
             g == [k \in L |-> Meaning(GetText(w, k))]
  <2>1. Meaning(v) = <<"obj", f>> /\ Meaning(v)[1] = v[1] /\ Meaning(w)[1] = w[1]
    BY <1>3, MeaningOf
  <2>2. w[1] = "obj" => Meaning(w) = <<"obj", g>>
    BY MeaningOf
  <2> HIDE DEF K, L
  <2>3. f = g <=> K = L /\ \A k \in K : Meaning(GetText(v, k)) = Meaning(GetText(w, k))
    <3>1. ASSUME f = g PROVE K = L /\ \A k \in K : Meaning(GetText(v, k)) = Meaning(GetText(w, k))
      <4>1. DOMAIN f = K /\ DOMAIN g = L
        OBVIOUS
      <4>2. \A k \in K : f[k] = Meaning(GetText(v, k))
        OBVIOUS
      <4>3. \A k \in L : g[k] = Meaning(GetText(w, k))
        OBVIOUS
      <4> HIDE DEF f, g
      <4> QED BY <3>1, <4>1, <4>2, <4>3
    <3> QED BY <3>1
  <2> HIDE DEF f, g
  <2>4. Meaning(v) = Meaning(w) <=> v[1] = w[1] /\ f = g
    BY <1>3, <2>1, <2>2
  <2> QED BY <1>3, <2>3, <2>4 DEF SameParts, K, L
<1> QED BY <1>1, <1>2, <1>3, KindOf

\* Documents that say the same have one text.
LEMMA OneText ==
  \A v, w \in Docs : Meaning(v) = Meaning(w) => Emit(v) = Emit(w)
<1> DEFINE Good(v) == \A w \in Docs : Meaning(v) = Meaning(w) => Emit(v) = Emit(w)
           Bad == {v \in Docs : ~Good(v)}
<1> SUFFICES ASSUME Bad # {} PROVE FALSE
  OBVIOUS
<1>1. PICK v \in Bad : \A x \in Bad : depth[v] <= depth[x]
  <2>1. \A x \in Bad : depth[x] \in Nat
    BY Shape
  <2> HIDE DEF Bad
  <2> QED BY <2>1, Flatten!LeastRank
<1>2. v \in Docs /\ ~Good(v)
  BY <1>1
<1>3. \A x \in PartsOf(v) : Good(x)
  <2> SUFFICES ASSUME NEW x \in PartsOf(v) PROVE Good(x)
    OBVIOUS
  <2>1. x \in Docs /\ depth[x] < depth[v] /\ depth[x] \in Nat /\ depth[v] \in Nat
    BY <1>2, PartsShallower, Shape
  <2>2. x \notin Bad
    <3> HIDE DEF Bad
    <3> QED BY <1>1, <2>1
  <2> QED BY <2>1, <2>2
<1> HIDE DEF Bad
<1>4. PICK w \in Docs : Meaning(v) = Meaning(w) /\ Emit(v) # Emit(w)
  BY <1>2
<1>5. SameParts(v, w)
  BY <1>2, <1>4, SameMeaning
<1>6. /\ \A x \in PartsOf(v) : x \in Docs /\ Emitted[x] = Emit(x)
      /\ \A x \in PartsOf(w) : x \in Docs /\ Emitted[x] = Emit(x)
  BY <1>2, PartsShallower DEF Emitted
<1>7. CASE v[1] \in {"null", "bool", "num", "str"}
  BY <1>4, <1>5, <1>7 DEF SameParts
<1>8. CASE v[1] = "arr"
  <2>1. w[1] = "arr" /\ DOMAIN v[2] = DOMAIN w[2]
        /\ \A i \in DOMAIN v[2] : Meaning(v[2][i]) = Meaning(w[2][i])
    BY <1>5, <1>8 DEF SameParts
  <2>2. /\ \A i \in DOMAIN v[2] : v[2][i] \in PartsOf(v)
        /\ \A i \in DOMAIN w[2] : w[2][i] \in PartsOf(w)
    BY <1>2, <1>8, <2>1, KindOf
  <2>3. \A i \in DOMAIN v[2] : Emitted[v[2][i]] = Emitted[w[2][i]]
    BY <1>3, <1>6, <2>1, <2>2
  <2>4. Listed(v) = Listed(w)
    BY <1>8, <2>1, <2>3 DEF Listed, Pieces
  <2>5. Emit(v) = Bracket("[", Joined(Listed(v)), "]") /\ Emit(w) = Bracket("[", Joined(Listed(w)), "]")
    BY <1>2, <1>8, <2>1, TextOf
  <2> QED BY <1>4, <2>4, <2>5, Zenon
<1>9. CASE v[1] = "obj"
  <2> DEFINE K == ObjectKeys(v[2])
             N == Cardinality(K)
  <2>1. w[1] = "obj" /\ ObjectKeys(w[2]) = K /\ \A k \in K : Meaning(GetText(v, k)) = Meaning(GetText(w, k))
    BY <1>5, <1>9 DEF SameParts
  <2>2. /\ \A n \in 1 .. N : Nth(K, n) \in K
        /\ \A k \in K : GetText(v, k) \in PartsOf(v)
        /\ \A f : Pieces(v, f) = [n \in 1 .. N |->
                    WriteString(Nth(K, n)) \o <<":">> \o f[GetText(v, Nth(K, n))]]
    BY <1>2, <1>9, ObjectPieces
  <2>3. /\ \A k \in K : GetText(w, k) \in PartsOf(w)
        /\ \A f : Pieces(w, f) = [n \in 1 .. N |->
                    WriteString(Nth(K, n)) \o <<":">> \o f[GetText(w, Nth(K, n))]]
    BY <2>1, ObjectPieces
  <2> HIDE DEF K, N
  <2>4. \A k \in K : Emitted[GetText(v, k)] = Emitted[GetText(w, k)]
    BY <1>3, <1>6, <2>1, <2>2, <2>3
  <2>5. Listed(v) = Listed(w)
    <3>1. \A n \in 1 .. N : Emitted[GetText(v, Nth(K, n))] = Emitted[GetText(w, Nth(K, n))]
      BY <2>2, <2>4
    <3>2. Listed(v) = [n \in 1 .. N |-> WriteString(Nth(K, n)) \o <<":">> \o Emitted[GetText(v, Nth(K, n))]]
      BY <2>2 DEF Listed
    <3>3. Listed(w) = [n \in 1 .. N |-> WriteString(Nth(K, n)) \o <<":">> \o Emitted[GetText(w, Nth(K, n))]]
      BY <2>3 DEF Listed
    <3> QED BY <3>1, <3>2, <3>3
  <2>6. Emit(v) = Bracket(LBrace, Joined(Listed(v)), RBrace) /\ Emit(w) = Bracket(LBrace, Joined(Listed(w)), RBrace)
    BY <1>2, <1>9, <2>1, TextOf
  <2> QED BY <1>4, <2>5, <2>6, Zenon
<1> QED BY <1>2, <1>7, <1>8, <1>9, KindOf

-----------------------------------------------------------------------------
(* The text decides what is said. *)

\* Whatever documents a text is read as, from one place to an end, say the same.
ReadsOnce(v) ==
  \A w \in Docs, T \in Texts, p \in Nat :
    /\ At(T, p, Emit(v)) /\ Ended(T, p + Len(Emit(v)))
    /\ At(T, p, Emit(w)) /\ Ended(T, p + Len(Emit(w)))
    => Meaning(v) = Meaning(w)

\* A text that is read once anywhere is of one meaning.
LEMMA WholeText ==
  ASSUME NEW v \in Docs, NEW w \in Docs, ReadsOnce(v), Emit(v) = Emit(w)
  PROVE  Meaning(v) = Meaning(w)
<1> DEFINE T == Emit(v)
<1>1. T \in Texts /\ Len(T) \in Nat
  <2>1. T \in Texts
    BY TextOpens DEF OpensRight
  <2> QED BY <2>1, TextParts
<1>2. At(T, 0, T) /\ 0 + Len(T) = Len(T)
  BY <1>1, AtStart
<1>3. Ended(T, 0 + Len(T))
  BY <1>2 DEF Ended
<1> QED BY <1>1, <1>2, <1>3 DEF ReadsOnce

\* Two arrays, or two objects, read at one place list the same texts, if the
\* items of both can each be read as one text.
LEMMA ListsRead ==
  ASSUME NEW T \in Texts, NEW p \in Nat, NEW v \in Docs, NEW w \in Docs,
         v[1] = w[1], v[1] \in {"arr", "obj"}, At(T, p, Emit(v)), At(T, p, Emit(w)),
         \A i \in 1 .. Len(Listed(v)), s \in Nat :
           /\ i <= Len(Listed(w)) /\ At(T, s, Listed(v)[i]) /\ At(T, s, Listed(w)[i])
           /\ Ended(T, s + Len(Listed(v)[i])) /\ Ended(T, s + Len(Listed(w)[i]))
           => Listed(v)[i] = Listed(w)[i]
  PROVE  Listed(v) = Listed(w)
<1>1. Items(Listed(v)) /\ Items(Listed(w))
  BY PartsShallower, TextOpens, ListedItems
<1>2. Joined(Listed(v)) \in Texts /\ Joined(Listed(w)) \in Texts
  BY <1>1, SeparatedParts
<1> DEFINE z == IF v[1] = "arr" THEN "]" ELSE RBrace
           a == IF v[1] = "arr" THEN "[" ELSE LBrace
<1>3. z \in Closing /\ z \in Characters /\ a \in Characters
  BY MarksAreCharacters DEF Closing
<1>4. Emit(v) = Bracket(a, Joined(Listed(v)), z) /\ Emit(w) = Bracket(a, Joined(Listed(w)), z)
  <2>1. CASE v[1] = "arr"
    BY <2>1, TextOf
  <2>2. CASE v[1] = "obj"
    <3>1. v[1] # "arr"
      BY <2>2
    <3> QED BY <2>2, <3>1, TextOf
  <2> QED BY <2>1, <2>2
<1> HIDE DEF a, z
<1>5. /\ At(T, p + 1, Joined(Listed(v))) /\ At(T, p + 1 + Len(Joined(Listed(v))), <<z>>)
      /\ At(T, p + 1, Joined(Listed(w))) /\ At(T, p + 1 + Len(Joined(Listed(w))), <<z>>)
  <2>1. At(T, p, Bracket(a, Joined(Listed(v)), z)) /\ At(T, p, Bracket(a, Joined(Listed(w)), z))
    BY <1>4, Zenon
  <2> QED BY <1>2, <1>3, <2>1, Bracketed
<1>6. p + 1 \in Nat
  OBVIOUS
<1> QED BY <1>1, <1>3, <1>5, <1>6, JoinedRead

\* Texts are read once: of the documents that stand at one place and end there,
\* all say the same.
LEMMA TextDecides ==
  \A v \in Docs : ReadsOnce(v)
<1> DEFINE Bad == {v \in Docs : ~ReadsOnce(v)}
<1> SUFFICES ASSUME Bad # {} PROVE FALSE
  OBVIOUS
<1>1. PICK v \in Bad : \A x \in Bad : depth[v] <= depth[x]
  <2>1. \A x \in Bad : depth[x] \in Nat
    BY Shape
  <2> HIDE DEF Bad
  <2> QED BY <2>1, Flatten!LeastRank
<1>2. v \in Docs /\ ~ReadsOnce(v)
  BY <1>1
<1>3. \A x \in PartsOf(v) : x \in Docs /\ ReadsOnce(x)
  <2> SUFFICES ASSUME NEW x \in PartsOf(v) PROVE x \in Docs /\ ReadsOnce(x)
    OBVIOUS
  <2>1. x \in Docs /\ depth[x] < depth[v] /\ depth[x] \in Nat /\ depth[v] \in Nat
    BY <1>2, PartsShallower, Shape
  <2>2. x \notin Bad
    <3> HIDE DEF Bad
    <3> QED BY <1>1, <2>1
  <2> QED BY <2>1, <2>2
<1> HIDE DEF Bad
<1>4. PICK w \in Docs, T \in Texts, p \in Nat :
        /\ At(T, p, Emit(v)) /\ Ended(T, p + Len(Emit(v)))
        /\ At(T, p, Emit(w)) /\ Ended(T, p + Len(Emit(w)))
        /\ Meaning(v) # Meaning(w)
  BY <1>2 DEF ReadsOnce
<1>5. v[1] = w[1] /\ (v[1] = "bool" => v[2] = w[2])
  <2>1. OpensRight(v) /\ OpensRight(w)
    BY <1>2, TextOpens
  <2>2. T[p + 1] = Emit(v)[1] /\ T[p + 1] = Emit(w)[1]
    BY <1>4, <2>1, FirstSymbol DEF OpensRight
  <2>3. T[p + 1] \in Opener(v) /\ T[p + 1] \in Opener(w)
    BY <2>1, <2>2 DEF OpensRight
  <2> QED BY <1>2, <2>3, OneOpener
<1>6. \A x \in PartsOf(w) : x \in Docs
  BY PartsShallower
<1>7. \A x \in PartsOf(v), y \in PartsOf(w), s \in Nat :
        /\ At(T, s, Emit(x)) /\ Ended(T, s + Len(Emit(x)))
        /\ At(T, s, Emit(y)) /\ Ended(T, s + Len(Emit(y)))
        => Emit(x) = Emit(y)
  BY <1>3, <1>6, OneText DEF ReadsOnce
<1>8. \A x \in PartsOf(v), y \in PartsOf(w) : Emit(x) = Emit(y) => Meaning(x) = Meaning(y)
  BY <1>3, <1>6, WholeText
<1>9. /\ \A x \in PartsOf(v) : Emitted[x] = Emit(x)
      /\ \A x \in PartsOf(w) : Emitted[x] = Emit(x)
  BY <1>3, <1>6 DEF Emitted
<1>10. /\ v[1] \in {"null", "bool", "num", "str"} => v \in Scalars
       /\ w[1] \in {"null", "bool", "num", "str"} => w \in Scalars
  BY <1>2, KindOf
<1>11. ~SameParts(v, w)
  BY <1>2, <1>4, SameMeaning
<1>12. v[1] # "null"
  <2> SUFFICES ASSUME v[1] = "null" PROVE FALSE
    OBVIOUS
  <2>1. v = <<"null">> /\ w = <<"null">>
    BY <1>5, <1>10, Kinds
  <2> QED BY <2>1, <1>4, Zenon
<1>13. v[1] # "bool"
  <2> SUFFICES ASSUME v[1] = "bool" PROVE FALSE
    OBVIOUS
  <2>1. v = <<"bool", v[2]>> /\ w = <<"bool", w[2]>> /\ v[2] = w[2]
    BY <1>5, <1>10, Kinds
  <2>2. v = w
    BY <2>1, Zenon
  <2> QED BY <2>2, <1>4
<1>14. v[1] # "num"
  <2> SUFFICES ASSUME v[1] = "num" PROVE FALSE
    OBVIOUS
  <2>1. v[2] \in Int /\ v = <<"num", v[2]>> /\ w[2] \in Int /\ w = <<"num", w[2]>>
    BY <1>5, <1>10, Kinds
  <2>2. Emit(v) = WriteNumber(v[2]) /\ Emit(w) = WriteNumber(w[2])
    BY <1>2, <1>5, TextOf
  <2>3. v[2] = w[2]
    BY <1>4, <2>1, <2>2, NumberRead
  <2>4. v = w
    BY <2>1, <2>3, Zenon
  <2> QED BY <2>4, <1>4
<1>15. v[1] # "str"
  <2> SUFFICES ASSUME v[1] = "str" PROVE FALSE
    OBVIOUS
  <2>1. v[2] \in Texts /\ v = <<"str", v[2]>> /\ w[2] \in Texts /\ w = <<"str", w[2]>>
    BY <1>5, <1>10, Kinds
  <2>2. Emit(v) = WriteString(v[2]) /\ Emit(w) = WriteString(w[2])
    BY <1>2, <1>5, TextOf
  <2>3. v[2] = w[2]
    BY <1>4, <2>1, <2>2, StringRead
  <2>4. v = w
    BY <2>1, <2>3, Zenon
  <2> QED BY <2>4, <1>4
<1>16. v[1] # "arr"
  <2> SUFFICES ASSUME v[1] = "arr" PROVE FALSE
    OBVIOUS
  <2> DEFINE s == v[2]
             t == w[2]
  <2>1. /\ s \in Seq(Docs) /\ \A i \in DOMAIN s : s[i] \in PartsOf(v)
        /\ t \in Seq(Docs) /\ \A i \in DOMAIN t : t[i] \in PartsOf(w)
    BY <1>2, <1>5, KindOf
  <2>2. Listed(v) = [i \in DOMAIN s |-> Emitted[s[i]]] /\ Listed(w) = [i \in DOMAIN t |-> Emitted[t[i]]]
    BY <1>5 DEF Listed, Pieces
  <2> HIDE DEF s, t
  <2>3. /\ Len(s) \in Nat /\ DOMAIN s = 1 .. Len(s) /\ Len(t) \in Nat /\ DOMAIN t = 1 .. Len(t)
    BY <2>1
  <2>4. /\ Len(Listed(v)) = Len(s) /\ Len(Listed(w)) = Len(t)
        /\ \A i \in 1 .. Len(s) : Listed(v)[i] = Emit(s[i])
        /\ \A i \in 1 .. Len(t) : Listed(w)[i] = Emit(t[i])
    <3>1. Listed(v) = [i \in 1 .. Len(s) |-> Emitted[s[i]]] /\ Listed(w) = [i \in 1 .. Len(t) |-> Emitted[t[i]]]
      BY <2>2, <2>3
    <3>2. Len(Listed(v)) = Len(s) /\ Len(Listed(w)) = Len(t)
      BY <3>1, <2>3
    <3>3. \A i \in 1 .. Len(s) : Listed(v)[i] = Emit(s[i])
      BY <3>1, <2>1, <2>3, <1>9
    <3>4. \A i \in 1 .. Len(t) : Listed(w)[i] = Emit(t[i])
      BY <3>1, <2>1, <2>3, <1>9
    <3> QED BY <3>2, <3>3, <3>4
  <2>5. ASSUME NEW i \in 1 .. Len(Listed(v)), NEW q \in Nat, i <= Len(Listed(w)),
               At(T, q, Listed(v)[i]), At(T, q, Listed(w)[i]),
               Ended(T, q + Len(Listed(v)[i])), Ended(T, q + Len(Listed(w)[i]))
        PROVE  Listed(v)[i] = Listed(w)[i]
    <3>1. i \in 1 .. Len(s) /\ i \in 1 .. Len(t)
      BY <2>3, <2>4, <2>5
    <3>2. Listed(v)[i] = Emit(s[i]) /\ Listed(w)[i] = Emit(t[i]) /\ s[i] \in PartsOf(v) /\ t[i] \in PartsOf(w)
      BY <3>1, <2>1, <2>3, <2>4
    <3> QED BY <3>2, <2>5, <1>7
  <2>6. Listed(v) = Listed(w)
    BY <1>2, <1>4, <1>5, <2>5, ListsRead
  <2>7. Len(s) = Len(t)
    BY <2>4, <2>6
  <2>8. \A i \in DOMAIN s : Meaning(s[i]) = Meaning(t[i])
    <3> SUFFICES ASSUME NEW i \in DOMAIN s PROVE Meaning(s[i]) = Meaning(t[i])
      OBVIOUS
    <3>1. s[i] \in PartsOf(v) /\ t[i] \in PartsOf(w) /\ Emit(s[i]) = Emit(t[i])
      BY <2>1, <2>3, <2>4, <2>6, <2>7
    <3> QED BY <3>1, <1>8
  <2>9. SameParts(v, w)
    BY <1>5, <2>3, <2>7, <2>8 DEF SameParts, s, t
  <2> QED BY <2>9, <1>11
<1>17. v[1] # "obj"
  <2> SUFFICES ASSUME v[1] = "obj" PROVE FALSE
    OBVIOUS
  <2> DEFINE K == ObjectKeys(v[2])
             M == Cardinality(K)
             keyV == [n \in 1 .. M |-> Nth(K, n)]
             partV == [n \in 1 .. M |-> GetText(v, Nth(K, n))]
             L == ObjectKeys(w[2])
             N == Cardinality(L)
             keyW == [n \in 1 .. N |-> Nth(L, n)]
             partW == [n \in 1 .. N |-> GetText(w, Nth(L, n))]
  <2>1. /\ M \in Nat /\ K \subseteq Texts /\ \A n \in 1 .. M : Nth(K, n) \in K
        /\ \A k \in K : \E n \in 1 .. M : Nth(K, n) = k
        /\ \A k \in K : GetText(v, k) \in PartsOf(v)
        /\ \A f : Pieces(v, f) = [n \in 1 .. M |->
                    WriteString(Nth(K, n)) \o <<":">> \o f[GetText(v, Nth(K, n))]]
    BY <1>2, ObjectPieces
  <2>2. /\ N \in Nat /\ L \subseteq Texts /\ \A n \in 1 .. N : Nth(L, n) \in L
        /\ \A k \in L : \E n \in 1 .. N : Nth(L, n) = k
        /\ \A k \in L : GetText(w, k) \in PartsOf(w)
        /\ \A f : Pieces(w, f) = [n \in 1 .. N |->
                    WriteString(Nth(L, n)) \o <<":">> \o f[GetText(w, Nth(L, n))]]
    BY <1>5, ObjectPieces
  <2> HIDE DEF K, M, L, N
  <2>3. /\ \A n \in 1 .. M : keyV[n] \in K /\ keyV[n] \in Texts /\ partV[n] \in PartsOf(v)
                             /\ partV[n] = GetText(v, keyV[n])
        /\ \A k \in K : \E n \in 1 .. M : keyV[n] = k
    BY <2>1
  <2>4. /\ \A n \in 1 .. N : keyW[n] \in L /\ keyW[n] \in Texts /\ partW[n] \in PartsOf(w)
                             /\ partW[n] = GetText(w, keyW[n])
        /\ \A k \in L : \E n \in 1 .. N : keyW[n] = k
    BY <2>2
  <2>5. Listed(v) = [n \in 1 .. M |-> WriteString(keyV[n]) \o <<":">> \o Emitted[partV[n]]]
    BY <2>1 DEF Listed
  <2>6. Listed(w) = [n \in 1 .. N |-> WriteString(keyW[n]) \o <<":">> \o Emitted[partW[n]]]
    BY <2>2 DEF Listed
  <2> HIDE DEF keyV, partV, keyW, partW
  <2>7. /\ Len(Listed(v)) = M /\ Len(Listed(w)) = N
        /\ \A n \in 1 .. M : Listed(v)[n] = WriteString(keyV[n]) \o <<":">> \o Emit(partV[n])
        /\ \A n \in 1 .. N : Listed(w)[n] = WriteString(keyW[n]) \o <<":">> \o Emit(partW[n])
    <3>1. Len(Listed(v)) = M /\ Len(Listed(w)) = N
      BY <2>1, <2>2, <2>5, <2>6
    <3>2. \A n \in 1 .. M : Listed(v)[n] = WriteString(keyV[n]) \o <<":">> \o Emit(partV[n])
      BY <2>3, <2>5, <1>9
    <3>3. \A n \in 1 .. N : Listed(w)[n] = WriteString(keyW[n]) \o <<":">> \o Emit(partW[n])
      BY <2>4, <2>6, <1>9
    <3> QED BY <3>1, <3>2, <3>3
  <2>14. /\ \A n \in 1 .. M : Listed(v)[n] = Item(keyV[n], Emit(partV[n]))
         /\ \A n \in 1 .. N : Listed(w)[n] = Item(keyW[n], Emit(partW[n]))
    BY <2>7 DEF Item
  <2>8. /\ \A x \in PartsOf(v) : Emit(x) \in Texts
        /\ \A x \in PartsOf(w) : Emit(x) \in Texts
    BY <1>3, <1>6, TextOpens DEF OpensRight
  <2>9. ASSUME NEW i \in 1 .. M, i \in 1 .. N, NEW S \in Texts, NEW q \in Nat,
               At(S, q, Listed(v)[i]), At(S, q, Listed(w)[i])
        PROVE  /\ keyV[i] = keyW[i]
               /\ \E r \in Nat : /\ At(S, r, Emit(partV[i])) /\ At(S, r, Emit(partW[i]))
                                 /\ q + Len(Listed(v)[i]) = r + Len(Emit(partV[i]))
                                 /\ q + Len(Listed(w)[i]) = r + Len(Emit(partW[i]))
    <3> DEFINE a == keyV[i]
               x == Emit(partV[i])
               u == Listed(v)[i]
               b == keyW[i]
               y == Emit(partW[i])
               t == Listed(w)[i]
    <3>1. /\ a \in Texts /\ x \in Texts /\ u = Item(a, x) /\ At(S, q, u)
          /\ b \in Texts /\ y \in Texts /\ t = Item(b, y) /\ At(S, q, t)
      BY <2>3, <2>4, <2>14, <2>8, <2>9
    <3> HIDE DEF a, x, u, b, y, t
    <3>2. /\ Len(u) = Len(WriteString(a)) + 1 + Len(x)
          /\ At(S, q, WriteString(a)) /\ At(S, q + Len(WriteString(a)) + 1, x)
      <4>1. At(S, q, Item(a, x)) /\ Len(u) = Len(Item(a, x))
        BY <3>1, Zenon
      <4> QED BY <4>1, <3>1, <2>9, ItemText
    <3>3. /\ Len(t) = Len(WriteString(b)) + 1 + Len(y)
          /\ At(S, q, WriteString(b)) /\ At(S, q + Len(WriteString(b)) + 1, y)
      <4>1. At(S, q, Item(b, y)) /\ Len(t) = Len(Item(b, y))
        BY <3>1, Zenon
      <4> QED BY <4>1, <3>1, <2>9, ItemText
    <3>4. a = b
      BY <3>1, <3>2, <3>3, StringRead
    <3>5. Len(WriteString(a)) \in Nat /\ Len(x) \in Nat /\ Len(y) \in Nat
      <4>1. WriteString(a) \in Texts
        BY <3>1, StringText
      <4> QED BY <4>1, <3>1, TextParts
    <3> DEFINE r == q + Len(WriteString(a)) + 1
    <3>6. r \in Nat /\ q + Len(u) = r + Len(x) /\ q + Len(t) = r + Len(y)
      BY <3>2, <3>3, <3>4, <3>5
    <3>7. At(S, r, x) /\ At(S, r, y)
      BY <3>2, <3>3, <3>4, Zenon
    <3> HIDE DEF r
    <3> QED BY <3>4, <3>6, <3>7 DEF a, x, u, b, y, t
  <2>10. ASSUME NEW i \in 1 .. Len(Listed(v)), NEW q \in Nat, i <= Len(Listed(w)),
                At(T, q, Listed(v)[i]), At(T, q, Listed(w)[i]),
                Ended(T, q + Len(Listed(v)[i])), Ended(T, q + Len(Listed(w)[i]))
         PROVE  Listed(v)[i] = Listed(w)[i]
    <3>1. i \in 1 .. M /\ i \in 1 .. N
      BY <2>1, <2>2, <2>7, <2>10
    <3>2. keyV[i] = keyW[i]
      BY <3>1, <2>9, <2>10
    <3>3. PICK r \in Nat : /\ At(T, r, Emit(partV[i])) /\ At(T, r, Emit(partW[i]))
                           /\ q + Len(Listed(v)[i]) = r + Len(Emit(partV[i]))
                           /\ q + Len(Listed(w)[i]) = r + Len(Emit(partW[i]))
      BY <3>1, <2>9, <2>10
    <3>4. Ended(T, r + Len(Emit(partV[i]))) /\ Ended(T, r + Len(Emit(partW[i])))
      BY <3>3, <2>10, Zenon
    <3>5. partV[i] \in PartsOf(v) /\ partW[i] \in PartsOf(w)
      BY <3>1, <2>3, <2>4
    <3>6. Emit(partV[i]) = Emit(partW[i])
      BY <3>3, <3>4, <3>5, <1>7
    <3>7. Listed(v)[i] = WriteString(keyV[i]) \o <<":">> \o Emit(partV[i])
      BY <3>1, <2>7
    <3>8. Listed(w)[i] = WriteString(keyW[i]) \o <<":">> \o Emit(partW[i])
      BY <3>1, <2>7
    <3> QED BY <3>2, <3>6, <3>7, <3>8, Zenon
  <2>11. Listed(v) = Listed(w)
    BY <1>2, <1>4, <1>5, <2>10, ListsRead
  <2>12. M = N
    BY <2>7, <2>11
  <2>13. ASSUME NEW i \in 1 .. M
         PROVE  keyV[i] = keyW[i] /\ Meaning(partV[i]) = Meaning(partW[i])
    <3> DEFINE S == Listed(v)[i]
    <3>1. i \in 1 .. N /\ S = Listed(w)[i]
      BY <2>11, <2>12
    <3>2. S \in Texts /\ partV[i] \in PartsOf(v) /\ partW[i] \in PartsOf(w)
      <4>1. S = Item(keyV[i], Emit(partV[i])) /\ keyV[i] \in Texts /\ Emit(partV[i]) \in Texts
        BY <2>3, <2>14, <2>8
      <4>2. partV[i] \in PartsOf(v) /\ partW[i] \in PartsOf(w)
        BY <3>1, <2>3, <2>4
      <4> HIDE DEF S
      <4>3. Item(keyV[i], Emit(partV[i])) \in Texts
        BY <4>1, ItemText
      <4> QED BY <4>1, <4>2, <4>3, Zenon
    <3>3. At(S, 0, S)
      BY <3>2, AtStart
    <3>4. keyV[i] = keyW[i]
      BY <3>1, <3>2, <3>3, <2>9
    <3>5. PICK r \in Nat : At(S, r, Emit(partV[i])) /\ At(S, r, Emit(partW[i]))
                           /\ 0 + Len(S) = r + Len(Emit(partV[i]))
                           /\ 0 + Len(S) = r + Len(Emit(partW[i]))
      BY <3>1, <3>2, <3>3, <2>9
    <3>6. Ended(S, r + Len(Emit(partV[i]))) /\ Ended(S, r + Len(Emit(partW[i])))
      <4>1. Len(S) \in Nat
        BY <3>2, TextParts
      <4>2. r + Len(Emit(partV[i])) = Len(S) /\ r + Len(Emit(partW[i])) = Len(S)
        BY <3>5, <4>1
      <4> QED BY <4>2 DEF Ended
    <3>7. partW[i] \in Docs /\ ReadsOnce(partV[i])
      BY <3>2, <1>3, <1>6
    <3> HIDE DEF S
    <3>8. Meaning(partV[i]) = Meaning(partW[i])
      BY <3>2, <3>5, <3>6, <3>7 DEF ReadsOnce
    <3> QED BY <3>4, <3>8
  <2>16. K = L /\ \A k \in K : Meaning(GetText(v, k)) = Meaning(GetText(w, k))
    BY <2>3, <2>4, <2>12, <2>13
  <2>15. SameParts(v, w)
    BY <1>5, <2>16 DEF SameParts, K, L
  <2> QED BY <2>15, <1>11
<1> QED BY <1>2, <1>12, <1>13, <1>14, <1>15, <1>16, <1>17, KindOf

\* One text, one meaning, for every two documents.
THEOREM CanonicalDecidesMeaning ==
  \A v, w \in Docs : Canonical(v) = Canonical(w) <=> Meaning(v) = Meaning(w)
<1> SUFFICES ASSUME NEW v \in Docs, NEW w \in Docs
             PROVE  Canonical(v) = Canonical(w) <=> Meaning(v) = Meaning(w)
  OBVIOUS
<1>1. v # Missing /\ w # Missing
  <2>1. v[1] # "none" /\ w[1] # "none"
    BY KindOf
  <2> QED BY <2>1 DEF Missing
<1>2. Canonical(v) = Emit(v) /\ Canonical(w) = Emit(w)
  BY <1>1 DEF Canonical
<1> QED BY <1>2, OneText, TextDecides, WholeText

-----------------------------------------------------------------------------
(* How long texts are. *)

\* A code has at most six symbols.
LEMMA EscapedLength ==
  ASSUME NEW c \in Characters
  PROVE  Len(Escaped(c)) \in 1 .. 6
<1>1. CASE Plain(c)
  BY <1>1, Codes, OneSymbol
<1>2. CASE c \in DOMAIN Short
  BY <1>2, Codes
<1>3. CASE c = "SOH"
  BY <1>3, Codes
<1>4. CASE c = "ESC"
  BY <1>4, Codes
<1> QED BY <1>1, <1>2, <1>3, <1>4, Codes

\* Joining texts of at most six symbols.
LEMMA FlatLength ==
  ASSUME NEW texts \in Seq(Texts), \A i \in 1 .. Len(texts) : Len(texts[i]) \in 1 .. 6
  PROVE  Len(FlattenSeq(texts)) <= 6 * Len(texts)
<1> DEFINE n == Len(texts)
<1>1. n \in Nat
  OBVIOUS
<1>2. PICK ends : Laid(texts, ends)
  BY Flattened
<1>3. /\ ends \in [0 .. n -> Nat] /\ ends[0] = 0 /\ Len(FlattenSeq(texts)) = ends[n]
      /\ \A i \in 1 .. n : ends[i] = ends[i - 1] + Len(texts[i])
  BY <1>2 DEF Laid
<1> HIDE DEF n
<1> DEFINE Bad == {i \in 0 .. n : ~(ends[i] <= 6 * i)}
<1>4. Bad = {}
  <2> SUFFICES ASSUME Bad # {} PROVE FALSE
    OBVIOUS
  <2>1. PICK i \in Bad : \A j \in Bad : i <= j
    <3>1. Bad \subseteq Nat
      OBVIOUS
    <3> HIDE DEF Bad
    <3> QED BY <3>1, Flatten!LeastNumber
  <2>2. i \in 1 .. n /\ i - 1 \in 0 .. n /\ ~(ends[i] <= 6 * i)
    BY <1>1, <1>3, <2>1
  <2>3. i - 1 \notin Bad
    <3> HIDE DEF Bad
    <3> QED BY <2>1, <2>2
  <2>4. ends[i - 1] <= 6 * (i - 1) /\ ends[i - 1] \in Nat
    BY <1>3, <2>2, <2>3
  <2>5. Len(texts[i]) \in 1 .. 6
    BY <2>2 DEF n
  <2>6. ends[i] = ends[i - 1] + Len(texts[i]) /\ i \in Int
    BY <1>3, <2>2
  <2> HIDE DEF Bad
  <2>7. ends[i] <= 6 * i
    <3> DEFINE a == ends[i - 1]
               b == ends[i]
               l == Len(texts[i])
    <3>1. a \in Nat /\ a <= 6 * (i - 1) /\ b = a + l /\ l \in 1 .. 6 /\ i \in Int
      BY <2>4, <2>5, <2>6
    <3> HIDE DEF a, b, l
    <3>2. b <= 6 * i
      BY <3>1
    <3> QED BY <3>2 DEF b
  <2> QED BY <2>2, <2>7
<1>5. \A i \in 0 .. n : ends[i] <= 6 * i
  BY <1>4
<1>6. n \in 0 .. n
  BY <1>1
<1>7. Len(FlattenSeq(texts)) <= 6 * n
  <2> HIDE DEF Bad
  <2> QED BY <1>3, <1>5, <1>6
<1> QED BY <1>7 DEF n

\* The text of a string.
LEMMA StringLength ==
  ASSUME NEW s \in Texts
  PROVE  Len(WriteString(s)) \in Nat /\ Len(WriteString(s)) <= 6 * Len(s) + 2
<1> DEFINE F == FlattenSeq(BytesOf(s))
<1>1. /\ BytesOf(s) \in Seq(Texts) /\ Len(BytesOf(s)) = Len(s)
      /\ \A i \in 1 .. Len(s) : Len(BytesOf(s)[i]) \in 1 .. 6
  BY BytesAreTexts, EscapedLength
<1>2. F \in Texts /\ Len(F) <= 6 * Len(s)
  BY <1>1, Flattened, FlatLength
<1>3. Quote \in Characters
  BY MarksAreCharacters
<1>4. WriteString(s) = Bracket(Quote, F, Quote)
  BY DEF WriteString, BytesOf, Bracket, Quote
<1> HIDE DEF F
<1>5. Len(Bracket(Quote, F, Quote)) = Len(F) + 2
  BY <1>2, <1>3, Bracketed
<1>6. Len(F) \in Nat /\ Len(s) \in Nat
  BY <1>2, TextParts
<1> QED BY <1>2, <1>4, <1>5, <1>6

\* The text of a small number.
LEMMA NumberLength ==
  ASSUME NEW n \in -9 .. 99
  PROVE  Len(WriteNumber(n)) \in 1 .. 2
<1>1. CASE n < 0
  <2>1. Len(WriteNumber(n)) = 1 + Len(Digits(-n)) /\ -n \in Nat /\ -n < 10
    <3>1. n \in Int
      OBVIOUS
    <3>2. Len(WriteNumber(n)) = 1 + Len(Digits(-n))
      BY <1>1, <3>1, NumberText, Zenon
    <3> QED BY <1>1, <3>2
  <2>2. Digits(-n) = <<Numeral(-n)>>
    BY <2>1, DigitsOfSmall
  <2>3. Len(<<Numeral(-n)>>) = 1
    OBVIOUS
  <2>4. Len(Digits(-n)) = 1
    BY <2>2, <2>3, Zenon
  <2>5. Len(WriteNumber(n)) = 1 + 1
    BY <2>1, <2>4, Zenon
  <2> QED BY <2>5
<1>2. CASE n \in 0 .. 9
  <2>1. n \in Int /\ n >= 0 /\ n \in Nat /\ n < 10
    BY <1>2
  <2>2. WriteNumber(n) = Digits(n)
    BY <2>1, NumberText, Zenon
  <2>3. Digits(n) = <<Numeral(n)>>
    BY <2>1, DigitsOfSmall
  <2>4. Len(<<Numeral(n)>>) = 1
    OBVIOUS
  <2>5. Len(WriteNumber(n)) = 1
    BY <2>2, <2>3, <2>4, Zenon
  <2> QED BY <2>5
<1>3. CASE n \in 10 .. 99
  <2>1. n \in Int /\ n \in Nat /\ n >= 0 /\ n >= 10 /\ n \div 10 \in Nat /\ n \div 10 < 10
    BY <1>3
  <2>2. WriteNumber(n) = Digits(n \div 10) \o <<Numeral(n % 10)>> /\ Digits(n \div 10) = <<Numeral(n \div 10)>>
    <3>1. WriteNumber(n) = Digits(n)
      BY <2>1, NumberText, Zenon
    <3>2. Digits(n) = Digits(n \div 10) \o <<Numeral(n % 10)>>
      BY <2>1, DigitsOfLarge, Zenon
    <3>3. Digits(n \div 10) = <<Numeral(n \div 10)>>
      BY <2>1, DigitsOfSmall, Zenon
    <3> QED BY <3>1, <3>2, <3>3, Zenon
  <2>3. \A a, b : Len(<<a>> \o <<b>>) = 2
    OBVIOUS
  <2>4. WriteNumber(n) = <<Numeral(n \div 10)>> \o <<Numeral(n % 10)>>
    BY <2>2, Zenon
  <2>5. Len(WriteNumber(n)) = 2
    BY <2>3, <2>4, Zenon
  <2> QED BY <2>5
<1> QED BY <1>1, <1>2, <1>3

\* A list of at most two texts, joined.
LEMMA JoinedLength ==
  ASSUME NEW texts, Items(texts), NEW B \in Nat, \A i \in 1 .. Len(texts) : Len(texts[i]) <= B
  PROVE  /\ Len(Joined(texts)) \in Nat
         /\ Len(texts) <= 1 => Len(Joined(texts)) <= B
         /\ Len(texts) <= 2 => Len(Joined(texts)) <= 2 * B + 1
<1> DEFINE sep == Separated(texts)
<1>1. /\ sep \in Seq(Texts) /\ Len(sep) = Len(texts) /\ Joined(texts) = FlattenSeq(sep)
      /\ Joined(texts) \in Texts
      /\ Len(texts) > 0 => sep[1] = texts[1]
      /\ \A i \in 2 .. Len(texts) : sep[i] = <<Comma>> \o texts[i]
  BY SeparatedParts
<1>2. Len(texts) \in Nat /\ \A i \in 1 .. Len(texts) : texts[i] \in Texts /\ Len(texts[i]) \in Nat
  BY TextParts DEF Items
<1>3. Len(Joined(texts)) \in Nat
  BY <1>1, TextParts
<1> HIDE DEF sep
<1>4. PICK ends : Laid(sep, ends)
  BY <1>1, Flattened
<1>5. /\ ends[0] = 0 /\ Len(Joined(texts)) = ends[Len(texts)]
      /\ \A i \in 1 .. Len(texts) : ends[i] = ends[i - 1] + Len(sep[i])
  BY <1>1, <1>4 DEF Laid
<1>6. Len(texts) > 0 => ends[1] <= B /\ ends[1] \in Nat
  BY <1>1, <1>2, <1>5
<1>7. Len(texts) = 2 => ends[2] <= 2 * B + 1
  <2> SUFFICES ASSUME Len(texts) = 2 PROVE ends[2] <= 2 * B + 1
    OBVIOUS
  <2>1. ends[2] = ends[1] + Len(sep[2]) /\ sep[2] = <<Comma>> \o texts[2] /\ texts[2] \in Texts
        /\ Len(texts[2]) \in Nat /\ Len(texts[2]) <= B
    BY <1>1, <1>2, <1>5
  <2>2. Len(<<Comma>> \o texts[2]) = 1 + Len(texts[2])
    BY <2>1 DEF Texts
  <2> QED BY <1>6, <2>1, <2>2
<1> DEFINE n == Len(texts)
<1>8. n = 0 \/ n = 1 \/ n = 2 \/ n > 2
  <2>1. n \in Nat
    BY <1>2
  <2> HIDE DEF n
  <2> QED BY <2>1
<1> QED BY <1>3, <1>5, <1>6, <1>7, <1>8

\* The text of a short array or object.
LEMMA ListLength ==
  ASSUME NEW v \in Docs, v[1] \in {"arr", "obj"}, NEW B \in Nat,
         \A i \in 1 .. Len(Listed(v)) : Len(Listed(v)[i]) <= B
  PROVE  /\ Len(Emit(v)) \in Nat
         /\ Len(Listed(v)) <= 1 => Len(Emit(v)) <= B + 2
         /\ Len(Listed(v)) <= 2 => Len(Emit(v)) <= 2 * B + 3
<1> DEFINE w == Joined(Listed(v))
<1>1. \A x \in PartsOf(v) : OpensRight(x)
  BY PartsShallower, TextOpens
<1>2. Items(Listed(v))
  BY <1>1, ListedItems
<1>3. w \in Texts /\ Len(w) \in Nat
  BY <1>2, SeparatedParts, TextParts
<1>4. /\ Len(Listed(v)) <= 1 => Len(w) <= B
      /\ Len(Listed(v)) <= 2 => Len(w) <= 2 * B + 1
  BY <1>2, JoinedLength
<1>5. Emit(v) = Bracket("[", w, "]") \/ Emit(v) = Bracket(LBrace, w, RBrace)
  BY TextOf
<1> HIDE DEF w
<1>6. Len(Bracket("[", w, "]")) = Len(w) + 2 /\ Len(Bracket(LBrace, w, RBrace)) = Len(w) + 2
  <2>1. {"[", "]", LBrace, RBrace} \subseteq Characters
    BY MarksAreCharacters
  <2>2. Len(Bracket("[", w, "]")) = Len(w) + 2
    BY <1>3, <2>1, Bracketed
  <2>3. Len(Bracket(LBrace, w, RBrace)) = Len(w) + 2
    BY <1>3, <2>1, Bracketed
  <2> QED BY <2>2, <2>3
<1>7. Len(Emit(v)) = Len(w) + 2
  BY <1>5, <1>6, Zenon
<1> QED BY <1>3, <1>4, <1>7

\* The text of an array of at most two documents.
LEMMA ArrayLength ==
  ASSUME NEW v \in Docs, v[1] = "arr", NEW B \in Nat, \A x \in PartsOf(v) : Len(Emit(x)) <= B
  PROVE  /\ Len(Emit(v)) \in Nat
         /\ Len(v[2]) <= 1 => Len(Emit(v)) <= B + 2
         /\ Len(v[2]) <= 2 => Len(Emit(v)) <= 2 * B + 3
<1> DEFINE s == v[2]
<1>1. s \in Seq(Docs) /\ \A i \in DOMAIN s : s[i] \in PartsOf(v)
  BY KindOf
<1>2. Listed(v) = [i \in DOMAIN s |-> Emitted[s[i]]]
  BY DEF Listed, Pieces
<1> HIDE DEF s
<1>3. Len(s) \in Nat /\ DOMAIN s = 1 .. Len(s) /\ \A i \in 1 .. Len(s) : Emitted[s[i]] = Emit(s[i])
  BY <1>1 DEF Emitted
<1>4. Len(Listed(v)) = Len(s) /\ \A i \in 1 .. Len(s) : Listed(v)[i] = Emit(s[i])
  BY <1>2, <1>3
<1>5. \A i \in 1 .. Len(Listed(v)) : Len(Listed(v)[i]) <= B
  BY <1>1, <1>3, <1>4
<1> QED BY <1>4, <1>5, ListLength DEF s

\* The text of an object of at most two items with short keys.
LEMMA ObjectLength ==
  ASSUME NEW v \in Docs, v[1] = "obj", NEW B \in Nat, \A x \in PartsOf(v) : Len(Emit(x)) <= B,
         \A k \in ObjectKeys(v[2]) : Len(k) <= 2
  PROVE  /\ Len(Emit(v)) \in Nat
         /\ Len(v[2]) <= 1 => Len(Emit(v)) <= B + 17
         /\ Len(v[2]) <= 2 => Len(Emit(v)) <= 2 * B + 33
<1> DEFINE K == ObjectKeys(v[2])
           N == Cardinality(K)
<1>1. /\ N \in Nat /\ K \subseteq Texts /\ \A n \in 1 .. N : Nth(K, n) \in K
      /\ \A k \in K : GetText(v, k) \in PartsOf(v)
      /\ \A f : Pieces(v, f) = [n \in 1 .. N |->
                  WriteString(Nth(K, n)) \o <<":">> \o f[GetText(v, Nth(K, n))]]
  BY ObjectPieces
<1>2. N = Len(v[2])
  BY KindOf, KeysCounted DEF ObjectOf
<1> HIDE DEF K, N
<1>3. Listed(v) = [n \in 1 .. N |-> Item(Nth(K, n), Emitted[GetText(v, Nth(K, n))])]
  BY <1>1, Zenon DEF Listed, Item
<1>4. Len(Listed(v)) = N
  BY <1>1, <1>3
<1>5. ASSUME NEW n \in 1 .. N
      PROVE  Len(Listed(v)[n]) <= B + 15
  <2> DEFINE k == Nth(K, n)
             w == Emitted[GetText(v, k)]
  <2>1. k \in Texts /\ Len(k) <= 2 /\ GetText(v, k) \in PartsOf(v)
    BY <1>1 DEF K
  <2>2. w \in Texts /\ Len(w) <= B
    <3>1. w = Emit(GetText(v, k)) /\ GetText(v, k) \in Docs
      BY <2>1, PartsShallower DEF Emitted
    <3> QED BY <2>1, <3>1, TextOpens DEF OpensRight
  <2>3. Listed(v)[n] = Item(k, w)
    BY <1>3
  <2> HIDE DEF k, w
  <2>4. Len(Item(k, w)) = Len(WriteString(k)) + 1 + Len(w)
    BY <2>1, <2>2, ItemText
  <2>5. Len(WriteString(k)) \in Nat /\ Len(WriteString(k)) <= 6 * Len(k) + 2
    BY <2>1, StringLength
  <2>6. Len(k) \in Nat /\ Len(w) \in Nat
    BY <2>1, <2>2, TextParts
  <2>7. Len(WriteString(k)) + 1 + Len(w) <= B + 15
    BY <2>1, <2>2, <2>5, <2>6
  <2> QED BY <2>3, <2>4, <2>7, Zenon
<1>6. B + 15 \in Nat /\ \A i \in 1 .. Len(Listed(v)) : Len(Listed(v)[i]) <= B + 15
  BY <1>4, <1>5
<1>7. /\ Len(Emit(v)) \in Nat
      /\ N <= 1 => Len(Emit(v)) <= (B + 15) + 2
      /\ N <= 2 => Len(Emit(v)) <= 2 * (B + 15) + 3
  BY <1>4, <1>6, ListLength
<1> QED BY <1>2, <1>7

=============================================================================
