---------------------------- MODULE Uptane_proofs ----------------------------
(***************************************************************************)
(* What the Uptane library does with every document, for every digest      *)
(* length and every alphabet: dates, hexadecimal, signatures, pins and     *)
(* manifests; then what the calls of UptaneCases find out, call by call.   *)
(***************************************************************************)
EXTENDS UptaneCases, CanonicalJson_proofs, SequenceTheorems, WellFoundedInduction

-----------------------------------------------------------------------------
(* The calendar. *)

\* days_from_civil in three parts: the days before the year, which begins in
\* March, the days before the month, and those of the month.
MarchFirst(y) == 365 * y + y \div 4 - y \div 100 + y \div 400
YearBegins(y, m) == MarchFirst(IF m <= 2 THEN y - 1 ELSE y) - 719469
MonthBegins(m) == (153 * (m + (IF m > 2 THEN -3 ELSE 9)) + 2) \div 5

\* The two parts are integers for every year and month.
LEMMA PartsAreNumbers ==
  ASSUME NEW y \in Int, NEW m \in Int
  PROVE  YearBegins(y, m) \in Int /\ MonthBegins(m) \in Int
BY SMT DEF MonthBegins, YearBegins, MarchFirst

\* days_from_civil's one formula is the sum of the three parts.
LEMMA ThreeParts ==
  ASSUME NEW y \in Int, NEW m \in 1 .. 12, NEW d \in Int
  PROVE  DaysFromCivil(y, m, d) = YearBegins(y, m) + MonthBegins(m) + d
<1>1. CASE m <= 2
  BY SMT, <1>1 DEF DaysFromCivil, YearBegins, MonthBegins, MarchFirst
<1>2. CASE m > 2
  BY SMT, <1>2 DEF DaysFromCivil, YearBegins, MonthBegins, MarchFirst
<1> QED BY SMT, <1>1, <1>2

\* A March-based year is one day longer when the February that ends it is in a
\* leap year.
LEMMA YearLength ==
  ASSUME NEW y \in Int
  PROVE  YearBegins(y, 3) = YearBegins(y, 2) + IF Leap(y) THEN 366 ELSE 365
BY SMT DEF YearBegins, MarchFirst, Leap

\* January and February belong to the year before; from March on the year has
\* begun.
LEMMA YearBeginsInMarch ==
  ASSUME NEW y \in Int
  PROVE  /\ YearBegins(y, 1) = YearBegins(y, 2) /\ YearBegins(y + 1, 1) = YearBegins(y, 12)
         /\ \A m \in 3 .. 12 : YearBegins(y, m) = YearBegins(y, 3)
BY SMT DEF YearBegins

\* The days of the year before each month, March being the first: the formula
\* of fifths gives the calendar's table.
LEMMA MonthsFollow ==
  /\ MonthBegins(1) = 306 /\ MonthBegins(2) = 337 /\ MonthBegins(3) = 0 /\ MonthBegins(4) = 31
  /\ MonthBegins(5) = 61 /\ MonthBegins(6) = 92 /\ MonthBegins(7) = 122 /\ MonthBegins(8) = 153
  /\ MonthBegins(9) = 184 /\ MonthBegins(10) = 214 /\ MonthBegins(11) = 245 /\ MonthBegins(12) = 275
BY SMT DEF MonthBegins

\* MonthDays by cases.
LEMMA MonthLength ==
  ASSUME NEW y \in Int, NEW m \in 1 .. 12
  PROVE  MonthDays(y, m) = IF m = 2 THEN (IF Leap(y) THEN 29 ELSE 28)
                           ELSE IF m \in {4, 6, 9, 11} THEN 30 ELSE 31
BY SMT DEF MonthDays

NextDay(y, m, d) ==
  IF d < MonthDays(y, m) THEN <<y, m, d + 1>>
  ELSE IF m < 12 THEN <<y, m + 1, 1>> ELSE <<y + 1, 1, 1>>

\* Each month begins where the one before it ends.
LEMMA MonthStarts ==
  ASSUME NEW y \in Int, NEW m \in 1 .. 11
  PROVE  YearBegins(y, m + 1) + MonthBegins(m + 1)
           = YearBegins(y, m) + MonthBegins(m) + MonthDays(y, m)
<1>1. YearBegins(y, 1) \in Int /\ YearBegins(y, 2) \in Int /\ YearBegins(y, 3) \in Int
  BY PartsAreNumbers
<1>2. CASE m = 1
  BY SMT, <1>1, <1>2, YearBeginsInMarch, MonthsFollow, MonthLength
<1>3. CASE m = 2
  BY SMT, <1>1, <1>3, YearLength, MonthsFollow, MonthLength
<1>4. CASE m \in 3 .. 11
  <2>1. YearBegins(y, m) = YearBegins(y, 3) /\ YearBegins(y, m + 1) = YearBegins(y, 3)
    BY SMT, <1>4, YearBeginsInMarch
  <2>2. MonthBegins(m + 1) = MonthBegins(m) + IF m \in {4, 6, 9, 11} THEN 30 ELSE 31
    BY SMT, <1>4, MonthsFollow
  <2>3. MonthDays(y, m) = IF m \in {4, 6, 9, 11} THEN 30 ELSE 31
    BY SMT, <1>4, MonthLength
  <2>4. MonthBegins(m) \in Int
    BY PartsAreNumbers
  <2> QED BY SMT, <1>1, <2>1, <2>2, <2>3, <2>4
<1> QED BY SMT, <1>2, <1>3, <1>4

\* days_from_civil counts days: it is 0 on 1970-01-01, and the day after any
\* date, through months, leap years and centuries, is one more.
THEOREM DaysAreCounted ==
  /\ DaysFromCivil(1970, 1, 1) = 0
  /\ \A y \in Int, m \in 1 .. 12, d \in Int :
       LET n == NextDay(y, m, d)
       IN  d \in 1 .. MonthDays(y, m)
             => DaysFromCivil(n[1], n[2], n[3]) = DaysFromCivil(y, m, d) + 1
<1>1. DaysFromCivil(1970, 1, 1) = 0
  BY SMT DEF DaysFromCivil
<1>2. ASSUME NEW y \in Int, NEW m \in 1 .. 12, NEW d \in 1 .. MonthDays(y, m)
      PROVE  LET n == NextDay(y, m, d)
             IN  DaysFromCivil(n[1], n[2], n[3]) = DaysFromCivil(y, m, d) + 1
  <2>0. MonthDays(y, m) \in Int /\ d \in Int
    BY SMT, MonthLength
  <2>1. YearBegins(y, m) \in Int /\ MonthBegins(m) \in Int
    BY PartsAreNumbers
  <2>2. DaysFromCivil(y, m, d) = YearBegins(y, m) + MonthBegins(m) + d
    BY <2>0, ThreeParts
  <2>3. CASE d < MonthDays(y, m)
    <3>1. NextDay(y, m, d) = <<y, m, d + 1>> /\ d + 1 \in Int
      BY SMT, <2>0, <2>3 DEF NextDay
    <3>2. DaysFromCivil(y, m, d + 1) = YearBegins(y, m) + MonthBegins(m) + (d + 1)
      BY <3>1, ThreeParts
    <3> QED BY SMT, <2>0, <2>1, <2>2, <3>1, <3>2
  <2>4. CASE d = MonthDays(y, m) /\ m < 12
    <3>1. NextDay(y, m, d) = <<y, m + 1, 1>> /\ m + 1 \in 1 .. 12 /\ m \in 1 .. 11 /\ 1 \in Int
      BY SMT, <2>0, <2>4 DEF NextDay
    <3>2. YearBegins(y, m + 1) \in Int /\ MonthBegins(m + 1) \in Int
      BY <3>1, PartsAreNumbers
    <3>3. DaysFromCivil(y, m + 1, 1) = YearBegins(y, m + 1) + MonthBegins(m + 1) + 1
      BY <3>1, ThreeParts
    <3>4. YearBegins(y, m + 1) + MonthBegins(m + 1) = YearBegins(y, m) + MonthBegins(m) + d
      BY <2>4, <3>1, MonthStarts
    <3> QED BY SMT, <2>0, <2>1, <2>2, <3>1, <3>2, <3>3, <3>4
  <2>5. CASE d = MonthDays(y, m) /\ m = 12
    <3>1. NextDay(y, m, d) = <<y + 1, 1, 1>> /\ y + 1 \in Int /\ 1 \in 1 .. 12 /\ 1 \in Int
      BY SMT, <2>0, <2>5 DEF NextDay
    <3>2. DaysFromCivil(y + 1, 1, 1) = YearBegins(y + 1, 1) + MonthBegins(1) + 1
      BY <3>1, ThreeParts
    <3>3. YearBegins(y + 1, 1) = YearBegins(y, m)
      BY <2>5, YearBeginsInMarch
    <3>4. MonthBegins(1) = MonthBegins(m) + 31 /\ d = 31
      BY SMT, <2>5, MonthsFollow, MonthLength
    <3> QED BY SMT, <2>1, <2>2, <3>1, <3>2, <3>3, <3>4
  <2> QED BY SMT, <2>0, <2>3, <2>4, <2>5
<1> QED BY SMT, <1>1, <1>2

-----------------------------------------------------------------------------
(* Hexadecimal. *)

\* No two hexadecimal digits are the same character, in either case or across
\* them.
LEMMA DigitsDiffer ==
  \A i, j \in 1 .. 16 : i # j => /\ HexDigits[i] # HexDigits[j] /\ HexUpper[i] # HexUpper[j]
                                 /\ HexDigits[i] # HexUpper[j]
BY SMTT(60) DEF HexDigits, HexUpper

\* hexval reads each digit back, in either case.
LEMMA ValueOfDigit ==
  ASSUME NEW i \in 1 .. 16
  PROVE  HexVal(HexDigits[i]) = i - 1 /\ HexVal(HexUpper[i]) = i - 1
<1>1. ASSUME NEW c \in {HexDigits[i], HexUpper[i]}
      PROVE  HexVal(c) = i - 1
  <2>1. \A j \in 1 .. 16 : c \in {HexDigits[j], HexUpper[j]} => j = i
    BY DigitsDiffer
  <2>2. (CHOOSE j \in 1 .. 16 : c \in {HexDigits[j], HexUpper[j]}) = i
    BY <2>1
  <2> QED BY <2>1, <2>2 DEF HexVal
<1> QED BY <1>1

\* hexval is -1 or a half byte, whatever the character.
LEMMA HexValRange ==
  ASSUME NEW c
  PROVE  HexVal(c) \in -1 .. 15
<1>1. CASE \E i \in 1 .. 16 : c \in {HexDigits[i], HexUpper[i]}
  <2> DEFINE P(i) == c \in {HexDigits[i], HexUpper[i]}
  <2>1. PICK i \in 1 .. 16 : P(i)
    BY <1>1
  <2>2. (CHOOSE j \in 1 .. 16 : P(j)) \in 1 .. 16
    <3> HIDE DEF P
    <3> QED BY <2>1
  <2> QED BY <1>1, <2>2 DEF HexVal
<1>2. CASE ~\E i \in 1 .. 16 : c \in {HexDigits[i], HexUpper[i]}
  BY <1>2 DEF HexVal
<1> QED BY <1>1, <1>2

Byte == 0 .. 255
\* akt_hex_encode writes two digits a byte, the high half first.
LEMMA EncodedByte ==
  ASSUME NEW n \in Nat, NEW b \in [1 .. n -> Byte]
  PROVE  /\ Len(HexEncode(b)) = 2 * n /\ DOMAIN HexEncode(b) = 1 .. 2 * n
         /\ \A i \in 1 .. n : /\ HexEncode(b)[2 * i - 1] = HexDigits[1 + b[i] \div 16]
                              /\ HexEncode(b)[2 * i] = HexDigits[1 + (b[i] % 16)]
<1>1. Len(b) = n
  OBVIOUS
<1>2. DOMAIN HexEncode(b) = 1 .. 2 * n
  BY <1>1 DEF HexEncode
<1>3. Len(HexEncode(b)) = 2 * n
  BY <1>1 DEF HexEncode
<1>4. ASSUME NEW i \in 1 .. n
      PROVE  /\ HexEncode(b)[2 * i - 1] = HexDigits[1 + b[i] \div 16]
             /\ HexEncode(b)[2 * i] = HexDigits[1 + (b[i] % 16)]
  <2>1. /\ 2 * i - 1 \in 1 .. 2 * n /\ 2 * i \in 1 .. 2 * n
        /\ (2 * i - 1 + 1) \div 2 = i /\ (2 * i + 1) \div 2 = i
        /\ (2 * i - 1) % 2 = 1 /\ (2 * i) % 2 = 0
    OBVIOUS
  <2> QED BY <1>1, <2>1 DEF HexEncode
<1> QED BY <1>2, <1>3, <1>4

\* Every position of the text is a first or a second digit of some byte.
LEMMA DigitPositions ==
  ASSUME NEW n \in Nat, NEW k \in 1 .. 2 * n
  PROVE  \E i \in 1 .. n : k = 2 * i - 1 \/ k = 2 * i
<1>1. CASE k % 2 = 1
  <2>1. (k + 1) \div 2 \in 1 .. n /\ k = 2 * ((k + 1) \div 2) - 1
    BY <1>1
  <2> QED BY <2>1
<1>2. CASE k % 2 = 0
  <2>1. k \div 2 \in 1 .. n /\ k = 2 * (k \div 2)
    BY <1>2
  <2> QED BY <2>1
<1>3. k % 2 = 0 \/ k % 2 = 1
  OBVIOUS
<1> QED BY <1>1, <1>2, <1>3

\* A byte is its two halves.
LEMMA HalvesOfByte ==
  ASSUME NEW b \in Byte
  PROVE  /\ 1 + b \div 16 \in 1 .. 16 /\ 1 + (b % 16) \in 1 .. 16
         /\ (1 + b \div 16) - 1 = b \div 16 /\ (1 + (b % 16)) - 1 = b % 16
         /\ b \div 16 >= 0 /\ b % 16 >= 0
         /\ (b \div 16) * 16 + (b % 16) = b
BY DEF Byte

\* The text writes the n bytes of b, in either case.
Written(hex, n, b) ==
  /\ Len(hex) = 2 * n /\ DOMAIN hex = 1 .. 2 * n
  /\ \A i \in 1 .. n : /\ HexVal(hex[2 * i - 1]) = b[i] \div 16
                       /\ HexVal(hex[2 * i]) = b[i] % 16

\* What akt_hex_encode writes.
LEMMA WrittenByEncode ==
  ASSUME NEW n \in Nat, NEW b \in [1 .. n -> Byte]
  PROVE  Written(HexEncode(b), n, b)
<1>1. ASSUME NEW i \in 1 .. n
      PROVE  /\ HexVal(HexEncode(b)[2 * i - 1]) = b[i] \div 16
             /\ HexVal(HexEncode(b)[2 * i]) = b[i] % 16
  <2>1. b[i] \in Byte
    OBVIOUS
  <2>2. /\ HexVal(HexDigits[1 + b[i] \div 16]) = (1 + b[i] \div 16) - 1
        /\ HexVal(HexDigits[1 + (b[i] % 16)]) = (1 + (b[i] % 16)) - 1
    BY <2>1, HalvesOfByte, ValueOfDigit
  <2>3. /\ HexVal(HexDigits[1 + b[i] \div 16]) = b[i] \div 16
        /\ HexVal(HexDigits[1 + (b[i] % 16)]) = b[i] % 16
    BY <2>1, <2>2, HalvesOfByte
  <2> QED BY <2>3, EncodedByte
<1> QED BY <1>1, EncodedByte DEF Written

\* A written text is read back exactly, and it is a digest exactly when it has
\* the length of one.
LEMMA WrittenDecodes ==
  ASSUME NEW n \in Nat, NEW b \in [1 .. n -> Byte], NEW hex, Written(hex, n, b)
  PROVE  HexDecode(hex) = b /\ (IsDigest(hex) <=> n = DigestBytes)
<1>1. Len(hex) \div 2 = n /\ Len(hex) % 2 = 0
  BY DEF Written
<1>2. ASSUME NEW i \in 1 .. n
      PROVE  HexVal(hex[2 * i - 1]) * 16 + HexVal(hex[2 * i]) = b[i]
  <2>1. b[i] \in Byte
    OBVIOUS
  <2>2. (b[i] \div 16) * 16 + (b[i] % 16) = b[i]
    BY <2>1, HalvesOfByte
  <2> QED BY <2>2 DEF Written
<1>3. HexDecode(hex) = b
  BY <1>1, <1>2 DEF HexDecode
<1>4. ASSUME NEW k \in DOMAIN hex
      PROVE  HexVal(hex[k]) >= 0
  <2>1. PICK i \in 1 .. n : k = 2 * i - 1 \/ k = 2 * i
    BY DigitPositions DEF Written
  <2>2. b[i] \in Byte
    OBVIOUS
  <2>3. b[i] \div 16 >= 0 /\ b[i] % 16 >= 0
    BY <2>2, HalvesOfByte
  <2> QED BY <2>1, <2>3 DEF Written
<1> QED BY <1>1, <1>3, <1>4 DEF IsDigest

\* Upper case makes no difference to what a text writes.
LEMMA WrittenUpper ==
  ASSUME NEW n \in Nat, NEW b \in [1 .. n -> Byte], NEW hex, Written(hex, n, b)
  PROVE  Written(Upper(hex), n, b)
<1>1. DOMAIN Upper(hex) = 1 .. 2 * n /\ Len(Upper(hex)) = 2 * n
  BY DEF Upper, Written
<1>2. ASSUME NEW i \in 1 .. n
      PROVE  /\ HexVal(Upper(hex)[2 * i - 1]) = b[i] \div 16
             /\ HexVal(Upper(hex)[2 * i]) = b[i] % 16
  <2>1. 2 * i - 1 \in DOMAIN hex /\ 2 * i \in DOMAIN hex
    BY DEF Written
  <2>2. /\ Upper(hex)[2 * i - 1] = HexUpper[1 + b[i] \div 16]
        /\ Upper(hex)[2 * i] = HexUpper[1 + (b[i] % 16)]
    BY <2>1 DEF Upper, Written
  <2>3. b[i] \in Byte
    OBVIOUS
  <2>4. /\ HexVal(HexUpper[1 + b[i] \div 16]) = (1 + b[i] \div 16) - 1
        /\ HexVal(HexUpper[1 + (b[i] % 16)]) = (1 + (b[i] % 16)) - 1
    BY <2>3, HalvesOfByte, ValueOfDigit
  <2> QED BY <2>2, <2>3, <2>4, HalvesOfByte
<1> QED BY <1>1, <1>2 DEF Written

-----------------------------------------------------------------------------
(* Times. *)

\* A parsed date is a day and the second of that day.
DaySeconds == {s \in Nat : s < 86400}
Instants == Int \X DaySeconds
Seconds(t) == t[1] * 86400 + t[2]

\* The pair orders as the number of seconds it stands for, and is 0 exactly
\* when that is: the unset clock of the code.
LEMMA TimesCompare ==
  ASSUME NEW t \in Instants, NEW u \in Instants
  PROVE  /\ Seconds(t) \in Int
         /\ NotAfter(t, u) <=> Seconds(t) <= Seconds(u)
         /\ t = Unknown <=> Seconds(t) = 0
<1>0. /\ t[1] \in Int /\ t[2] \in DaySeconds /\ t = <<t[1], t[2]>>
      /\ u[1] \in Int /\ u[2] \in DaySeconds
  BY DEF Instants
<1>1. /\ t[1] \in Int /\ t[2] \in Int /\ 0 <= t[2] /\ t[2] < 86400 /\ t = <<t[1], t[2]>>
      /\ u[1] \in Int /\ u[2] \in Int /\ 0 <= u[2] /\ u[2] < 86400
  BY SMT, <1>0 DEF DaySeconds
<1>2. ASSUME NEW a \in Int, NEW b \in Int, NEW r \in Int, NEW s \in Int,
             0 <= r, r < 86400, 0 <= s, s < 86400
      PROVE  /\ a * 86400 + r \in Int
             /\ (a < b \/ (a = b /\ r <= s)) <=> a * 86400 + r <= b * 86400 + s
             /\ (a = 0 /\ r = 0) <=> a * 86400 + r = 0
  BY SMT, <1>2
<1>3. Seconds(t) \in Int /\ (t[1] = 0 /\ t[2] = 0 <=> Seconds(t) = 0)
  BY <1>1, <1>2 DEF Seconds
<1>4. NotAfter(t, u) <=> Seconds(t) <= Seconds(u)
  BY <1>1, <1>2 DEF Seconds, NotAfter
<1>5. t = Unknown <=> t[1] = 0 /\ t[2] = 0
  BY <1>1 DEF Unknown
<1> QED BY <1>3, <1>4, <1>5

\* A field of a date is a number, whatever text it is read from.
LEMMA ReadIsNumber ==
  ASSUME NEW text, NEW f
  PROVE  Read(text, f) \in Int
<1> DEFINE first == Scan(text)[f]
           last == Scan(text)[f + 1] - 2
           digit(i) == IF i < first THEN 0 ELSE HexVal(text[i])
<1>1. ASSUME NEW i PROVE digit(i) \in Int
  BY HexValRange
<1>2. Read(text, f) = 1000 * digit(last - 3) + 100 * digit(last - 2) + 10 * digit(last - 1) + digit(last)
  BY DEF Read
<1> HIDE DEF digit, last
<1>3. digit(last - 3) \in Int /\ digit(last - 2) \in Int /\ digit(last - 1) \in Int /\ digit(last) \in Int
  BY <1>1
<1> QED BY <1>2, <1>3

\* akt_parse_iso8601_utc gives a proper instant for every text: seconds beyond a day
\* carry into the day.
LEMMA DateTimeIsInstant ==
  ASSUME NEW text
  PROVE  DateTime(text) \in Instants
<1> DEFINE s == Read(text, 4) * 3600 + Read(text, 5) * 60 + Read(text, 6)
           d == DaysFromCivil(Read(text, 1), Read(text, 2), Read(text, 3))
<1>1. \A y \in Int, m \in Int, k \in Int : DaysFromCivil(y, m, k) \in Int
  BY SMT DEF DaysFromCivil
<1>2. d \in Int
  <2>1. Read(text, 1) \in Int /\ Read(text, 2) \in Int /\ Read(text, 3) \in Int
    BY ReadIsNumber
  <2> QED BY <1>1, <2>1
<1>3. s \in Int
  BY SMT, ReadIsNumber
<1>4. DateTime(text) = <<d + s \div 86400, s % 86400>>
  BY DEF DateTime
<1> HIDE DEF s, d
<1>5. d + s \div 86400 \in Int /\ s % 86400 \in DaySeconds
  BY SMT, <1>2, <1>3 DEF DaySeconds
<1> QED BY <1>4, <1>5 DEF Instants

-----------------------------------------------------------------------------
(* Least members. *)

\* A set of numbers that is not empty has a least member. The library states
\* it of well-founded relations.
LEMMA LeastExists ==
  ASSUME NEW T, T \subseteq Nat, T # {}
  PROVE  \E x \in T : \A y \in T : x <= y
<1> DEFINE R == {p \in Nat \X Nat : p[1] < p[2]}
<1>1. IsWellFoundedOn(R, Nat)
  <2>1. R = OpToRel(<, Nat)
    BY DEF OpToRel
  <2> QED BY <2>1, NatLessThanWellFounded
<1>2. PICK x \in T : \A y \in T : ~(<<y, x>> \in R)
  <2> HIDE DEF R
  <2> QED BY <1>1, WFMin
<1>3. \A y \in T : ~(y < x)
  BY <1>2
<1> QED BY <1>3

\* Min is that member.
LEMMA MinIsLeast ==
  ASSUME NEW T, T \subseteq Nat, T # {}
  PROVE  Min(T) \in T /\ \A y \in T : Min(T) <= y
BY LeastExists DEF Min

-----------------------------------------------------------------------------
(* Timestamps. *)

\* One step of the scan: where the next field begins, 0 where the text does not
\* go on as sscanf's format says.
StepOf(text, start, f) ==
  IF f = 1 THEN 1
  ELSE LET i == start[f - 1]
           n == DigitsRead(text, i, IF f = 2 THEN 4 ELSE 2)
       IN  IF /\ i # 0 /\ n # 0
              /\ f = 7 \/ (i + n <= Len(text) /\ text[i + n] = <<"-", "-", "T", ":", ":">>[f - 1])
           THEN i + n + 1 ELSE 0

\* A text that begins "YYYY-MM-DDTHH:MM:SS", all of its digits decimal. What
\* follows is free.
Layout(text) ==
  /\ Len(text) \in Nat /\ Len(text) >= 19
  /\ \A i \in 1 .. 19 \ {5, 8, 11, 14, 17} : IsDecimal(text[i])
  /\ text[5] = "-" /\ text[8] = "-" /\ text[11] = "T" /\ text[14] = ":" /\ text[17] = ":"

\* Where there are decimal digits enough, %4d and %2d read their full width.
LEMMA DigitsCounted ==
  ASSUME NEW text, NEW i \in 1 .. 19, NEW w \in {2, 4}, Len(text) \in Nat, i + w - 1 <= Len(text),
         \A j \in i .. i + w - 1 : IsDecimal(text[j])
  PROVE  DigitsRead(text, i, w) = w
<1> DEFINE R == {n \in 1 .. w : /\ i + n - 1 <= Len(text)
                                /\ \A j \in i .. i + n - 1 : IsDecimal(text[j])}
<1>1. R = 1 .. w
  OBVIOUS
<1>2. Cardinality(1 .. w) = w
  <2>1. w \in Int /\ 1 \in Int /\ 1 <= w /\ w - 1 + 1 = w
    OBVIOUS
  <2>2. Cardinality(1 .. w) = w - 1 + 1
    BY <2>1, FS_Interval
  <2> QED BY <2>1, <2>2
<1> QED BY <1>1, <1>2 DEF DigitsRead

\* Where each field of such a text begins.
FieldAt(f) == IF f = 1 THEN 1 ELSE 3 * f

\* In such a text every field is found right after the one before.
LEMMA NextField ==
  ASSUME NEW text, Layout(text), NEW s, NEW f \in 2 .. 7, s[f - 1] = FieldAt(f - 1)
  PROVE  StepOf(text, s, f) = FieldAt(f)
<1>2. CASE f = 2
  <2>1. DigitsRead(text, 1, 4) = 4
    BY DigitsCounted DEF Layout
  <2> QED BY <2>1, <1>2 DEF StepOf, Layout, FieldAt
<1>3. CASE f \in 3 .. 6
  <2>1. /\ f - 1 \in 2 .. 5 /\ 3 * (f - 1) \in {6, 9, 12, 15} /\ 3 * (f - 1) + 2 + 1 = 3 * f
        /\ f # 1 /\ f # 2 /\ f # 7
    BY <1>3
  <2>2. s[f - 1] = 3 * (f - 1) /\ FieldAt(f) = 3 * f
    BY <2>1 DEF FieldAt
  <2>3. ASSUME NEW i \in {6, 9, 12, 15} PROVE DigitsRead(text, i, 2) = 2 /\ i + 2 <= Len(text)
    <3>1. /\ i \in 1 .. 19 /\ i + 2 - 1 <= Len(text) /\ i + 2 <= Len(text)
          /\ 2 \in {2, 4} /\ Len(text) \in Nat
      BY DEF Layout
    <3>2. \A j \in i .. i + 2 - 1 : IsDecimal(text[j])
      BY DEF Layout
    <3> QED BY <3>1, <3>2, DigitsCounted
  <2>4. text[3 * (f - 1) + 2] = <<"-", "-", "T", ":", ":">>[f - 1]
    BY <1>3 DEF Layout
  <2>5. StepOf(text, s, f)
          = IF 3 * (f - 1) # 0 /\ 2 # 0 /\ text[3 * (f - 1) + 2] = <<"-", "-", "T", ":", ":">>[f - 1]
            THEN 3 * (f - 1) + 2 + 1 ELSE 0
    <3>1. /\ DigitsRead(text, 3 * (f - 1), IF f = 2 THEN 4 ELSE 2) = 2
          /\ 3 * (f - 1) + 2 <= Len(text)
      BY <2>1, <2>3
    <3> QED BY <2>1, <2>2, <3>1 DEF StepOf
  <2> QED BY <2>1, <2>2, <2>4, <2>5
<1>4. CASE f = 7
  <2>1. DigitsRead(text, 18, 2) = 2
    BY DigitsCounted DEF Layout
  <2>2. s[6] = 18
    BY <1>4 DEF FieldAt
  <2> QED BY <2>1, <2>2, <1>4 DEF StepOf, FieldAt
<1> QED BY <1>2, <1>3, <1>4

\* So the scan finds all of them.
LEMMA FieldsFound ==
  ASSUME NEW text, Layout(text), NEW f \in 1 .. 7
  PROVE  Scan(text)[f] = FieldAt(f)
<1> DEFINE g == [k \in 1 .. 7 |-> FieldAt(k)]
           P(s) == s = [k \in 1 .. 7 |-> StepOf(text, s, k)]
<1>1. P(g)
  <2>1. ASSUME NEW k \in 1 .. 7 PROVE StepOf(text, g, k) = g[k]
    <3>1. CASE k = 1
      BY <3>1 DEF StepOf, FieldAt
    <3>2. CASE k \in 2 .. 7
      <4>1. g[k - 1] = FieldAt(k - 1) /\ g[k] = FieldAt(k)
        BY <3>2
      <4> HIDE DEF g
      <4> QED BY <3>2, <4>1, NextField
    <3> QED BY <3>1, <3>2
  <2> HIDE DEF g
  <2>2. g = [k \in 1 .. 7 |-> g[k]]
    BY DEF g
  <2> QED BY <2>1, <2>2
<1> DEFINE s == Scan(text)
<1>2. s = CHOOSE x : P(x)
  BY Zenon DEF Scan, StepOf
<1> HIDE DEF P, g, s
<1>3. P(s)
  BY <1>1, <1>2
<1>4. \A k \in 1 .. 7 : s[k] = StepOf(text, s, k)
  BY <1>3 DEF P
<1>5. s[1] = FieldAt(1)
  BY <1>4 DEF StepOf, FieldAt
<1>6. \A k \in 2 .. 7 : s[k - 1] = FieldAt(k - 1) => s[k] = FieldAt(k)
  BY <1>4, NextField
<1>7. s[2] = FieldAt(2) BY <1>5, <1>6
<1>8. s[3] = FieldAt(3) BY <1>7, <1>6
<1>9. s[4] = FieldAt(4) BY <1>8, <1>6
<1>10. s[5] = FieldAt(5) BY <1>9, <1>6
<1>11. s[6] = FieldAt(6) BY <1>10, <1>6
<1>12. s[7] = FieldAt(7) BY <1>11, <1>6
<1> QED BY <1>5, <1>7, <1>8, <1>9, <1>10, <1>11, <1>12 DEF s

\* What such a text shows: year, month, day, hour, minute and second.
TwoDigits(text, i) == 10 * HexVal(text[i]) + HexVal(text[i + 1])
Shown(text) ==
  <<1000 * HexVal(text[1]) + 100 * HexVal(text[2]) + TwoDigits(text, 3),
    TwoDigits(text, 6), TwoDigits(text, 9), TwoDigits(text, 12), TwoDigits(text, 15), TwoDigits(text, 18)>>

\* And each field read is the number shown there.
LEMMA ReadShown ==
  ASSUME NEW text, Layout(text), NEW f \in 1 .. 6
  PROVE  Read(text, f) = Shown(text)[f]
<1> DEFINE first == Scan(text)[f]
           last == Scan(text)[f + 1] - 2
           digit(i) == IF i < first THEN 0 ELSE HexVal(text[i])
<1>1. first = FieldAt(f) /\ last = 3 * f + 1
  BY FieldsFound DEF FieldAt
<1>2. Read(text, f) = 1000 * digit(last - 3) + 100 * digit(last - 2) + 10 * digit(last - 1) + digit(last)
  BY DEF Read
<1>0. \A i : HexVal(text[i]) \in Int
  BY HexValRange
<1> HIDE DEF last, first
<1>3. CASE f = 1
  <2>1. first = 1 /\ last = 4
    BY <1>1, <1>3 DEF FieldAt
  <2>2. digit(1) = HexVal(text[1]) /\ digit(2) = HexVal(text[2]) /\ digit(3) = HexVal(text[3]) /\ digit(4) = HexVal(text[4])
    BY <2>1
  <2>3. Read(text, f) = 1000 * HexVal(text[1]) + 100 * HexVal(text[2]) + 10 * HexVal(text[3]) + HexVal(text[4])
    BY <1>2, <2>1, <2>2
  <2>4. Shown(text)[f] = 1000 * HexVal(text[1]) + 100 * HexVal(text[2]) + (10 * HexVal(text[3]) + HexVal(text[4]))
    BY <1>3 DEF Shown, TwoDigits
  <2> QED BY <1>0, <2>3, <2>4
<1>4. CASE f \in 2 .. 6
  <2>1. first = 3 * f /\ last = 3 * f + 1 /\ Shown(text)[f] = 10 * HexVal(text[3 * f]) + HexVal(text[3 * f + 1])
    BY <1>1, <1>4 DEF FieldAt, Shown, TwoDigits
  <2>2. /\ digit(last - 3) = 0 /\ digit(last - 2) = 0 /\ digit(last - 1) = HexVal(text[3 * f])
        /\ digit(last) = HexVal(text[3 * f + 1])
    BY <2>1
  <2> HIDE DEF digit
  <2> QED BY <1>0, <1>2, <2>1, <2>2
<1> QED BY <1>3, <1>4

\* The dates of the calendar with a time of day, as six numbers.
Timestamps ==
  {t \in Int \X Int \X Int \X Int \X Int \X Int :
     /\ t[2] \in 1 .. 12 /\ t[3] \in 1 .. MonthDays(t[1], t[2])
     /\ t[4] \in 0 .. 23 /\ t[5] \in 0 .. 59 /\ t[6] \in 0 .. 59}

\* One timestamp is before another when the first number they differ in is
\* less.
Before(t, u) ==
  \E i \in 1 .. 6 : t[i] < u[i] /\ \A j \in 1 .. i - 1 : t[j] = u[j]

\* A month ends before any later one of its year begins.
LEMMA MonthsInOrder ==
  ASSUME NEW y \in Int, NEW m \in 1 .. 12, NEW n \in 1 .. 12, m < n
  PROVE  YearBegins(y, m) + MonthBegins(m) + MonthDays(y, m) <= YearBegins(y, n) + MonthBegins(n)
<1> DEFINE S(k) == YearBegins(y, k) + MonthBegins(k)
<1>1. \A k \in 1 .. 12 : S(k) \in Int /\ MonthDays(y, k) \in Int /\ MonthDays(y, k) > 0
  <2>1. \A k \in 1 .. 12 : S(k) \in Int
    BY SMT, PartsAreNumbers
  <2>2. \A k \in 1 .. 12 : MonthDays(y, k) \in Int /\ MonthDays(y, k) > 0
    BY SMT, MonthLength
  <2> QED BY <2>1, <2>2
<1>2. \A k \in 1 .. 11 : S(k + 1) = S(k) + MonthDays(y, k)
  BY MonthStarts
<1> HIDE DEF S
<1>3. \A k \in 1 .. 11 : S(k) < S(k + 1)
  BY SMT, <1>1, <1>2
<1>4. /\ S(1) < S(2) /\ S(2) < S(3) /\ S(3) < S(4) /\ S(4) < S(5) /\ S(5) < S(6) /\ S(6) < S(7)
      /\ S(7) < S(8) /\ S(8) < S(9) /\ S(9) < S(10) /\ S(10) < S(11) /\ S(11) < S(12)
  BY SMT, <1>3
<1>5. \A k, l \in 1 .. 12 : k <= l => S(k) <= S(l)
  BY SMT, <1>1, <1>4
<1>6. S(m) + MonthDays(y, m) <= S(n)
  <2>1. m \in 1 .. 11 /\ m + 1 \in 1 .. 12 /\ m + 1 <= n
    BY SMT
  <2>2. S(m + 1) <= S(n) /\ S(m + 1) = S(m) + MonthDays(y, m)
    BY <1>2, <1>5, <2>1
  <2> QED BY <2>2
<1> QED BY <1>6 DEF S

\* A year ends before any later one begins.
LEMMA YearsInOrder ==
  ASSUME NEW y \in Int, NEW z \in Int, y < z
  PROVE  YearBegins(y, 12) + MonthBegins(12) + 31 <= YearBegins(z, 1) + MonthBegins(1)
<1>1. \A a, b \in Int : a <= b => MarchFirst(a) <= MarchFirst(b) /\ MarchFirst(a) \in Int /\ MarchFirst(b) \in Int
  BY SMT DEF MarchFirst
<1>2. YearBegins(y, 12) = MarchFirst(y) - 719469 /\ YearBegins(z, 1) = MarchFirst(z - 1) - 719469
  BY SMT DEF YearBegins
<1>3. MarchFirst(y) <= MarchFirst(z - 1) /\ MarchFirst(y) \in Int /\ MarchFirst(z - 1) \in Int
  BY SMT, <1>1
<1>4. MonthBegins(12) = 275 /\ MonthBegins(1) = 306
  BY MonthsFollow
<1> QED BY SMT, <1>2, <1>3, <1>4

\* A day of a later year, of a later month, or later in its month has a larger
\* number.
LEMMA DatesInOrder ==
  ASSUME NEW t \in Timestamps, NEW u \in Timestamps,
         \/ t[1] < u[1]
         \/ t[1] = u[1] /\ t[2] < u[2]
         \/ t[1] = u[1] /\ t[2] = u[2] /\ t[3] < u[3]
  PROVE  DaysFromCivil(t[1], t[2], t[3]) < DaysFromCivil(u[1], u[2], u[3])
<1> DEFINE S(y, m) == YearBegins(y, m) + MonthBegins(m)
<1>0. \A y \in Int, m \in 1 .. 12 : S(y, m) \in Int /\ MonthDays(y, m) \in Int
  <2>1. \A y \in Int, m \in 1 .. 12 : S(y, m) \in Int
    BY SMT, PartsAreNumbers
  <2>2. \A y \in Int, m \in 1 .. 12 : MonthDays(y, m) \in Int
    BY SMT, MonthLength
  <2> QED BY <2>1, <2>2
<1>1. /\ t[1] \in Int /\ t[2] \in 1 .. 12 /\ t[3] \in 1 .. MonthDays(t[1], t[2])
      /\ u[1] \in Int /\ u[2] \in 1 .. 12 /\ u[3] \in 1 .. MonthDays(u[1], u[2])
      /\ t[3] \in Int /\ u[3] \in Int
  BY DEF Timestamps
<1>2. /\ DaysFromCivil(t[1], t[2], t[3]) = S(t[1], t[2]) + t[3]
      /\ DaysFromCivil(u[1], u[2], u[3]) = S(u[1], u[2]) + u[3]
  BY <1>1, ThreeParts
<1>3. \A y \in Int, m \in 1 .. 12, n \in 1 .. 12 : m < n => S(y, m) + MonthDays(y, m) <= S(y, n)
  BY MonthsInOrder
<1>4. \A y \in Int, z \in Int : y < z => S(y, 12) + 31 <= S(z, 1)
  BY YearsInOrder
<1> HIDE DEF S
<1>5. S(t[1], t[2]) + t[3] < S(u[1], u[2]) + u[3]
  <2>1. /\ S(t[1], t[2]) \in Int /\ S(u[1], u[2]) \in Int /\ S(t[1], 12) \in Int /\ S(u[1], 1) \in Int
        /\ MonthDays(t[1], t[2]) \in Int /\ MonthDays(u[1], u[2]) \in Int
        /\ t[3] <= MonthDays(t[1], t[2]) /\ u[3] >= 1
    <3>1. 1 \in 1 .. 12 /\ 12 \in 1 .. 12
      OBVIOUS
    <3>2. /\ S(t[1], t[2]) \in Int /\ S(u[1], u[2]) \in Int /\ S(t[1], 12) \in Int /\ S(u[1], 1) \in Int
      BY <1>0, <1>1, <3>1, Zenon
    <3>3. MonthDays(t[1], t[2]) \in Int /\ MonthDays(u[1], u[2]) \in Int
      BY <1>0, <1>1, Zenon
    <3>4. \A d, n \in Int : d \in 1 .. n => d <= n /\ d >= 1
      OBVIOUS
    <3> QED BY <1>1, <3>2, <3>3, <3>4
  <2>2. CASE t[1] < u[1]
    <3>1. S(t[1], t[2]) + MonthDays(t[1], t[2]) <= S(t[1], 12) + 31
      <4>1. CASE t[2] = 12
        <5>1. MonthDays(t[1], 12) = 31
          BY SMT, <1>1, MonthLength
        <5> QED BY <4>1, <5>1, <2>1
      <4>2. CASE t[2] < 12
        <5>1. S(t[1], t[2]) + MonthDays(t[1], t[2]) <= S(t[1], 12)
          BY <1>1, <1>3, <4>2
        <5> QED BY <5>1, <2>1
      <4> QED BY <1>1, <4>1, <4>2
    <3>2. S(t[1], 12) + 31 <= S(u[1], 1)
      BY <1>1, <1>4, <2>2
    <3>3. S(u[1], 1) <= S(u[1], u[2])
      <4>1. CASE u[2] = 1
        BY <4>1, <2>1
      <4>2. CASE u[2] > 1
        <5>1. S(u[1], 1) + MonthDays(u[1], 1) <= S(u[1], u[2])
          BY <1>1, <1>3, <4>2
        <5>2. MonthDays(u[1], 1) = 31
          BY SMT, <1>1, MonthLength
        <5> QED BY <5>1, <5>2, <2>1
      <4> QED BY <1>1, <4>1, <4>2
    <3> QED BY <1>1, <2>1, <3>1, <3>2, <3>3
  <2>3. CASE t[1] = u[1] /\ t[2] < u[2]
    <3>1. S(t[1], t[2]) + MonthDays(t[1], t[2]) <= S(u[1], u[2])
      BY <1>1, <1>3, <2>3
    <3> QED BY <1>1, <2>1, <3>1
  <2>4. CASE t[1] = u[1] /\ t[2] = u[2] /\ t[3] < u[3]
    BY <1>1, <2>1, <2>4
  <2> QED BY <2>2, <2>3, <2>4
<1> QED BY <1>2, <1>5

\* The second of the day, and the pair DateTime gives for a timestamp.
TimeOfDay(h, mi, s) == h * 3600 + mi * 60 + s
SecondOfDay(t) == TimeOfDay(t[4], t[5], t[6])
InstantOf(t) == <<DaysFromCivil(t[1], t[2], t[3]), SecondOfDay(t)>>

\* A time of day is less than a day.
LEMMA SecondsOfTime ==
  ASSUME NEW h \in 0 .. 23, NEW mi \in 0 .. 59, NEW s \in 0 .. 59
  PROVE  TimeOfDay(h, mi, s) \in DaySeconds
BY SMT DEF TimeOfDay, DaySeconds

\* The seconds of a day are integers.
LEMMA DayIsNumbers == DaySeconds \subseteq Int
BY SMT DEF DaySeconds

\* The larger hour, minute or second is later.
LEMMA SecondsInOrder ==
  ASSUME NEW h \in 0 .. 23, NEW mi \in 0 .. 59, NEW s \in 0 .. 59,
         NEW k \in 0 .. 23, NEW mk \in 0 .. 59, NEW sk \in 0 .. 59,
         \/ h < k
         \/ h = k /\ mi < mk
         \/ h = k /\ mi = mk /\ s < sk
  PROVE  TimeOfDay(h, mi, s) < TimeOfDay(k, mk, sk)
BY SMT DEF TimeOfDay

\* Every timestamp's time is less than a day.
LEMMA SecondOfTimestamp ==
  ASSUME NEW t \in Timestamps
  PROVE  SecondOfDay(t) \in DaySeconds
<1>1. t[4] \in 0 .. 23 /\ t[5] \in 0 .. 59 /\ t[6] \in 0 .. 59
  BY DEF Timestamps
<1>2. TimeOfDay(t[4], t[5], t[6]) \in DaySeconds
  BY Zenon, <1>1, SecondsOfTime
<1> QED BY Zenon, <1>2 DEF SecondOfDay

\* Timestamps of one day are in the order of their times.
LEMMA TimesInOrder ==
  ASSUME NEW t \in Timestamps, NEW u \in Timestamps,
         \/ t[4] < u[4]
         \/ t[4] = u[4] /\ t[5] < u[5]
         \/ t[4] = u[4] /\ t[5] = u[5] /\ t[6] < u[6]
  PROVE  SecondOfDay(t) < SecondOfDay(u)
<1>1. /\ t[4] \in 0 .. 23 /\ t[5] \in 0 .. 59 /\ t[6] \in 0 .. 59
      /\ u[4] \in 0 .. 23 /\ u[5] \in 0 .. 59 /\ u[6] \in 0 .. 59
  BY DEF Timestamps
<1>2. TimeOfDay(t[4], t[5], t[6]) < TimeOfDay(u[4], u[5], u[6])
  BY Zenon, <1>1, SecondsInOrder
<1> QED BY Zenon, <1>2 DEF SecondOfDay

\* An earlier timestamp is an earlier instant.
LEMMA InstantsInOrder ==
  ASSUME NEW t \in Timestamps, NEW u \in Timestamps, Before(t, u)
  PROVE  NotAfter(InstantOf(t), InstantOf(u)) /\ ~NotAfter(InstantOf(u), InstantOf(t))
<1> DEFINE D(x) == DaysFromCivil(x[1], x[2], x[3])
<1>1. D(t) \in Int /\ D(u) \in Int
  <2>1. \A y \in Int, m \in Int, k \in Int : DaysFromCivil(y, m, k) \in Int
    BY SMT DEF DaysFromCivil
  <2>2. /\ t[1] \in Int /\ t[2] \in Int /\ t[3] \in Int
        /\ u[1] \in Int /\ u[2] \in Int /\ u[3] \in Int
    BY DEF Timestamps
  <2> QED BY <2>1, <2>2
<1>3. SecondOfDay(t) \in Int /\ SecondOfDay(u) \in Int
  BY SecondOfTimestamp, DayIsNumbers
<1>4. \/ t[1] < u[1]
      \/ t[1] = u[1] /\ t[2] < u[2]
      \/ t[1] = u[1] /\ t[2] = u[2] /\ t[3] < u[3]
      \/ /\ t[1] = u[1] /\ t[2] = u[2] /\ t[3] = u[3]
         /\ \/ t[4] < u[4]
            \/ t[4] = u[4] /\ t[5] < u[5]
            \/ t[4] = u[4] /\ t[5] = u[5] /\ t[6] < u[6]
  <2>1. PICK i \in 1 .. 6 : t[i] < u[i] /\ \A j \in 1 .. i - 1 : t[j] = u[j]
    BY DEF Before
  <2> QED BY <2>1
<1>5. \/ D(t) < D(u)
      \/ D(t) = D(u) /\ SecondOfDay(t) < SecondOfDay(u)
  <2>1. CASE \/ t[1] < u[1]
             \/ t[1] = u[1] /\ t[2] < u[2]
             \/ t[1] = u[1] /\ t[2] = u[2] /\ t[3] < u[3]
    BY <2>1, DatesInOrder
  <2>2. CASE /\ t[1] = u[1] /\ t[2] = u[2] /\ t[3] = u[3]
             /\ \/ t[4] < u[4]
                \/ t[4] = u[4] /\ t[5] < u[5]
                \/ t[4] = u[4] /\ t[5] = u[5] /\ t[6] < u[6]
    <3>1. SecondOfDay(t) < SecondOfDay(u)
      BY <2>2, TimesInOrder
    <3> QED BY <2>2, <3>1
  <2> QED BY <1>4, <2>1, <2>2
<1> HIDE DEF D
<1>6. InstantOf(t) = <<D(t), SecondOfDay(t)>> /\ InstantOf(u) = <<D(u), SecondOfDay(u)>>
  BY DEF InstantOf, D
<1> QED BY <1>1, <1>3, <1>5, <1>6 DEF NotAfter

\* Of two timestamps one is the earlier, or they are the same.
LEMMA OneIsBefore ==
  ASSUME NEW t \in Timestamps, NEW u \in Timestamps
  PROVE  Before(t, u) \/ Before(u, t) \/ t = u
<1>1. \A i \in 1 .. 6 : t[i] \in Int /\ u[i] \in Int
  BY DEF Timestamps
<1>2. CASE \A i \in 1 .. 6 : t[i] = u[i]
  BY <1>2 DEF Timestamps
<1>3. CASE \E i \in 1 .. 6 : t[i] # u[i]
  <2> DEFINE I == {i \in 1 .. 6 : t[i] # u[i]}
  <2>1. PICK i \in I : \A j \in I : i <= j
    <3>1. I \subseteq Nat /\ I # {}
      BY <1>3
    <3> HIDE DEF I
    <3> QED BY <3>1, LeastExists
  <2>2. \A j \in 1 .. i - 1 : t[j] = u[j]
    BY <2>1
  <2>3. t[i] < u[i] \/ u[i] < t[i]
    BY <1>1
  <2> QED BY <2>1, <2>2, <2>3 DEF Before
<1> QED BY <1>2, <1>3

\* DateTime carries whole days out of the seconds: within a day there are none.
InstantIn(day, sec) == <<day + sec \div 86400, sec % 86400>>

\* So the instant of such a pair is the pair.
LEMMA InstantWithin ==
  ASSUME NEW day \in Int, NEW sec \in DaySeconds
  PROVE  InstantIn(day, sec) = <<day, sec>>
<1>1. sec \div 86400 = 0 /\ sec % 86400 = sec
  BY SMT DEF DaySeconds
<1> QED BY <1>1 DEF InstantIn

\* A text laid out so is a date, and is read as the instant it shows.
LEMMA TimestampRead ==
  ASSUME NEW text, Layout(text), Shown(text) \in Timestamps
  PROVE  IsDate(text) /\ DateTime(text) = InstantOf(Shown(text))
<1> DEFINE t == Shown(text)
<1>1. \A f \in 1 .. 6 : Read(text, f) = t[f]
  BY ReadShown
<1>2. Scan(text)[7] = 21
  BY FieldsFound DEF FieldAt
<1>3. t \in Timestamps
  OBVIOUS
<1> HIDE DEF t
<1>4. /\ t[1] \in Int /\ t[2] \in 1 .. 12 /\ t[3] \in 1 .. MonthDays(t[1], t[2])
      /\ t[4] \in 0 .. 23 /\ t[5] \in 0 .. 59 /\ t[6] \in 0 .. 59
  BY <1>3 DEF Timestamps
<1>5. t[3] \in 1 .. 31
  <2>1. MonthDays(t[1], t[2]) \in Int /\ MonthDays(t[1], t[2]) <= 31
    BY SMT, <1>4, MonthLength
  <2> QED BY <1>4, <2>1
<1>6. IsDate(text)
  BY <1>1, <1>2, <1>4, <1>5 DEF IsDate
<1>7. DaysFromCivil(t[1], t[2], t[3]) \in Int
  <2>1. \A y \in Int, m \in Int, k \in Int : DaysFromCivil(y, m, k) \in Int
    BY SMT DEF DaysFromCivil
  <2>2. t[1] \in Int /\ t[2] \in Int /\ t[3] \in Int
    BY <1>3 DEF Timestamps
  <2> QED BY Zenon, <2>1, <2>2
<1>8. DateTime(text) = InstantIn(DaysFromCivil(t[1], t[2], t[3]), SecondOfDay(t))
  BY <1>1 DEF DateTime, SecondOfDay, TimeOfDay, InstantIn
<1>9. SecondOfDay(t) \in DaySeconds
  BY <1>3, SecondOfTimestamp
<1>10. DateTime(text) = InstantOf(t)
  BY <1>7, <1>8, <1>9, InstantWithin DEF InstantOf
<1> QED BY <1>6, <1>10 DEF t

\* SAFETY. Texts laid out as the metadata writes dates are dates for
\* akt_parse_iso8601_utc, and the times it makes of two of them are in the order of
\* the timestamps they show, field by field, over every year, month and leap day;
\* what follows the seconds does not matter. So exp_t <= now in akt_verify_role
\* holds exactly when the expiry is not after the date and time the clock shows.
THEOREM TimestampsCompare ==
  ASSUME NEW a, Layout(a), Shown(a) \in Timestamps, NEW b, Layout(b), Shown(b) \in Timestamps
  PROVE  /\ IsDate(a) /\ IsDate(b)
         /\ NotAfter(DateTime(a), DateTime(b)) <=> ~Before(Shown(b), Shown(a))
<1> DEFINE t == Shown(a)
           u == Shown(b)
<1>2. /\ IsDate(a) /\ IsDate(b) /\ DateTime(a) = InstantOf(t) /\ DateTime(b) = InstantOf(u)
      /\ t \in Timestamps /\ u \in Timestamps
  BY TimestampRead
<1> HIDE DEF t, u
<1>3. NotAfter(InstantOf(t), InstantOf(t))
  <2>1. SecondOfDay(t) <= SecondOfDay(t)
    <3>1. SecondOfDay(t) \in Int
      BY Zenon, <1>2, SecondOfTimestamp, DayIsNumbers
    <3> QED BY <3>1
  <2> QED BY <2>1 DEF NotAfter, InstantOf
<1>4. NotAfter(InstantOf(t), InstantOf(u)) <=> ~Before(u, t)
  BY <1>2, <1>3, InstantsInOrder, OneIsBefore
<1> QED BY <1>2, <1>4 DEF t, u

-----------------------------------------------------------------------------
(* Fields of a document. *)

\* A sequence, as far as the proofs need to know.
IsList(s) == Len(s) \in Nat /\ DOMAIN s = 1 .. Len(s)

\* cJSON_GetObjectItemCaseSensitive gives the first item of the name.
LEMMA GetFirst ==
  ASSUME NEW s, IsList(s), NEW i \in 1 .. Len(s), NEW t, s[i][1] = t, \A j \in 1 .. i - 1 : s[j][1] # t
  PROVE  GetText(<<"obj", s>>, t) = s[i][2]
<1> DEFINE I == {j \in 1 .. Len(s) : s[j][1] = t}
<1>1. Min(I) = i
  <2>1. I \subseteq Nat /\ i \in I
    BY DEF IsList
  <2>2. Min(I) \in I /\ Min(I) <= i
    <3> HIDE DEF I
    <3> QED BY <2>1, MinIsLeast
  <2> QED BY <2>2 DEF IsList
<1>2. i \in I
  BY DEF IsList
<1> QED BY <1>1, <1>2 DEF GetText, IsObject, SelectInSeq, IsList

\* It gives NULL when no item has the name.
LEMMA GetNone ==
  ASSUME NEW s, IsList(s), NEW t, \A j \in 1 .. Len(s) : s[j][1] # t
  PROVE  GetText(<<"obj", s>>, t) = Missing
BY DEF GetText, IsObject, SelectInSeq, IsList

\* It gives NULL when the value is no object.
LEMMA GetOfOther ==
  ASSUME NEW v, v[1] # "obj", NEW t
  PROVE  GetText(v, t) = Missing
BY DEF GetText, IsObject

\* The same for names of one word.
LEMMA FieldsOf ==
  ASSUME NEW s, IsList(s), NEW a
  PROVE  /\ \A i \in 1 .. Len(s) : s[i][1] = <<a>> /\ (\A j \in 1 .. i - 1 : s[j][1] # <<a>>)
                                     => Get(<<"obj", s>>, a) = s[i][2]
         /\ (\A j \in 1 .. Len(s) : s[j][1] # <<a>>) => Get(<<"obj", s>>, a) = Missing
BY GetFirst, GetNone DEF Get

\* Lookups in an object of one item.
LEMMA OneField ==
  ASSUME NEW a, NEW x
  PROVE  LET o == <<"obj", <<Field(a, x)>> >>
         IN  Get(o, a) = x /\ \A b : b # a => Get(o, b) = Missing
<1> DEFINE s == <<Field(a, x)>>
<1>1. IsList(s) /\ Len(s) = 1 /\ s[1][1] = <<a>> /\ s[1][2] = x
  BY DEF Field, IsList
<1>2. Get(<<"obj", s>>, a) = x /\ \A b : b # a => Get(<<"obj", s>>, b) = Missing
  <2> HIDE DEF s
  <2>1. ASSUME NEW b, b # a PROVE <<a>> # <<b>>
    BY <2>1
  <2> QED BY <1>1, <2>1, FieldsOf
<1> QED BY <1>2

\* Lookups in an object of two items.
LEMMA TwoFields ==
  ASSUME NEW a, NEW x, NEW b, NEW y, a # b
  PROVE  LET o == <<"obj", <<Field(a, x), Field(b, y)>> >>
         IN  Get(o, a) = x /\ Get(o, b) = y /\ \A c : c \notin {a, b} => Get(o, c) = Missing
<1> DEFINE s == <<Field(a, x), Field(b, y)>>
<1>1. IsList(s) /\ Len(s) = 2 /\ s[1][1] = <<a>> /\ s[1][2] = x /\ s[2][1] = <<b>> /\ s[2][2] = y
  BY DEF Field, IsList
<1>2. Get(<<"obj", s>>, a) = x /\ Get(<<"obj", s>>, b) = y
      /\ \A c : c \notin {a, b} => Get(<<"obj", s>>, c) = Missing
  <2> HIDE DEF s
  <2>1. ASSUME NEW c, NEW d, c # d PROVE <<c>> # <<d>>
    BY <2>1
  <2> QED BY <1>1, <2>1, FieldsOf
<1> QED BY <1>2

\* Lookups in an object of three items.
LEMMA ThreeFields ==
  ASSUME NEW a, NEW x, NEW b, NEW y, NEW c, NEW z, a # b, b # c, a # c
  PROVE  LET o == <<"obj", <<Field(a, x), Field(b, y), Field(c, z)>> >>
         IN  /\ Get(o, a) = x /\ Get(o, b) = y /\ Get(o, c) = z
             /\ \A d : d \notin {a, b, c} => Get(o, d) = Missing
<1> DEFINE s == <<Field(a, x), Field(b, y), Field(c, z)>>
<1>1. /\ IsList(s) /\ Len(s) = 3 /\ s[1][1] = <<a>> /\ s[1][2] = x /\ s[2][1] = <<b>> /\ s[2][2] = y
      /\ s[3][1] = <<c>> /\ s[3][2] = z
  BY DEF Field, IsList
<1>2. /\ Get(<<"obj", s>>, a) = x /\ Get(<<"obj", s>>, b) = y /\ Get(<<"obj", s>>, c) = z
      /\ \A d : d \notin {a, b, c} => Get(<<"obj", s>>, d) = Missing
  <2> HIDE DEF s
  <2>1. ASSUME NEW d, NEW e, d # e PROVE <<d>> # <<e>>
    BY <2>1
  <2> QED BY <1>1, <2>1, FieldsOf
<1> QED BY <1>2

\* The same for an object made from a list of fields: one.
LEMMA ObjectOfOne ==
  ASSUME NEW a, NEW x
  PROVE  LET o == Object(<<<<a, x>> >>)
         IN  o[1] = "obj" /\ Get(o, a) = x /\ \A b : b # a => Get(o, b) = Missing
<1> DEFINE s == <<Field(a, x)>>
<1>1. Object(<<<<a, x>> >>) = <<"obj", s>>
  BY DEF Object
<1>2. IsList(s) /\ Len(s) = 1 /\ s[1][1] = <<a>> /\ s[1][2] = x
  BY DEF Field, IsList
<1> HIDE DEF s
<1>3. ASSUME NEW b, b # a PROVE <<a>> # <<b>>
  BY <1>3
<1>4. Get(<<"obj", s>>, a) = x /\ \A b : b # a => Get(<<"obj", s>>, b) = Missing
  BY <1>2, <1>3, FieldsOf
<1> QED BY <1>1, <1>4

\* Two.
LEMMA ObjectOfTwo ==
  ASSUME NEW a, NEW x, NEW b, NEW y, a # b
  PROVE  LET o == Object(<<<<a, x>>, <<b, y>> >>)
         IN  /\ o[1] = "obj" /\ Get(o, a) = x /\ Get(o, b) = y
             /\ \A c : c \notin {a, b} => Get(o, c) = Missing
<1> DEFINE o == <<"obj", <<Field(a, x), Field(b, y)>> >>
<1>1. Object(<<<<a, x>>, <<b, y>> >>) = o /\ o[1] = "obj"
  BY DEF Object
<1>2. o = <<"obj", <<Field(a, x), Field(b, y)>> >>
  OBVIOUS
<1> HIDE DEF o
<1>3. Get(o, a) = x /\ Get(o, b) = y /\ \A c : c \notin {a, b} => Get(o, c) = Missing
  BY <1>2, TwoFields
<1> QED BY <1>1, <1>3

\* Three.
LEMMA ObjectOfThree ==
  ASSUME NEW a, NEW x, NEW b, NEW y, NEW c, NEW z, a # b, b # c, a # c
  PROVE  LET o == Object(<<<<a, x>>, <<b, y>>, <<c, z>> >>)
         IN  o[1] = "obj" /\ Get(o, a) = x /\ Get(o, b) = y /\ Get(o, c) = z
<1>1. Object(<<<<a, x>>, <<b, y>>, <<c, z>> >>) = <<"obj", <<Field(a, x), Field(b, y), Field(c, z)>> >>
  BY DEF Object
<1> QED BY <1>1, ThreeFields

\* None.
LEMMA NoFields ==
  ASSUME NEW a
  PROVE  Object(<<>>) = <<"obj", <<>> >> /\ Get(<<"obj", <<>> >>, a) = Missing
<1>1. IsList(<<>>) /\ Len(<<>>) = 0
  BY DEF IsList
<1> QED BY FieldsOf, <1>1 DEF Object

-----------------------------------------------------------------------------
(* Two grains. *)

NoDate == CHOOSE x : x \notin Int
Abstract == INSTANCE RoleVerify WITH None <- NoDate

\* What RoleVerify takes for an unreadable date is not a time: some set is not
\* an integer.
LEMMA NoDateIsNoNumber == NoDate \notin Int
<1> DEFINE R == {x \in Int : x \notin x}
<1>1. R \notin Int
  OBVIOUS
<1> QED BY <1>1 DEF NoDate

\* The key an entry names verifies it.
Opens(keys, entry, text) ==
  LET key == GetText(keys, Get(entry, "keyid")[2])
      sig == Get(entry, "sig")
  IN  /\ IsObject(key) /\ IsString(sig) /\ Base64Decode(sig[2]) # Missing
      /\ VerifyWithPubkey(ParseTufKey(key), text, Base64Decode(sig[2]))

\* The role's key ids that root's `keys' object holds a key for, and the
\* signatures as RoleVerify has them: a key id and whether it verifies.
KeysOf(keys, keyids) ==
  {keyids[i] : i \in {j \in DOMAIN keyids : /\ IsString(keyids[j])
                                            /\ IsObject(GetText(keys, keyids[j][2]))}}
EntriesOf(keys, entries, text) ==
  [i \in DOMAIN entries |-> [keyid |-> Get(entries[i], "keyid"),
                             valid |-> Opens(keys, entries[i], text)]]

\* find_sig gives the first entry that names the key.
LEMMA FirstEntry ==
  ASSUME NEW s, IsList(s[2]), NEW kid, NEW i \in 1 .. Len(s[2]), Get(s[2][i], "keyid") = kid,
         \A j \in 1 .. i - 1 : Get(s[2][j], "keyid") # kid
  PROVE  FindSig(s, kid) = s[2][i]
<1> DEFINE I == {j \in 1 .. Len(s[2]) : Get(s[2][j], "keyid") = kid}
<1>1. Min(I) = i
  <2>1. I \subseteq Nat /\ i \in I
    BY DEF IsList
  <2>2. Min(I) \in I /\ Min(I) <= i
    <3> HIDE DEF I
    <3> QED BY <2>1, MinIsLeast
  <2>3. ASSUME NEW m \in I, m <= i PROVE m = i
    BY <2>3 DEF IsList
  <2> HIDE DEF I
  <2> QED BY <2>2, <2>3
<1>2. i \in I /\ i # 0
  BY DEF IsList
<1> QED BY <1>1, <1>2 DEF FindSig, SelectInSeq

\* It gives NULL when none does.
LEMMA NoEntry ==
  ASSUME NEW s, IsList(s[2]), NEW kid, \A j \in 1 .. Len(s[2]) : Get(s[2][j], "keyid") # kid
  PROVE  FindSig(s, kid) = Missing
BY DEF FindSig, SelectInSeq

\* Either no entry names the key or one is the first that does.
LEMMA FirstOrNone ==
  ASSUME NEW s, IsList(s[2]), NEW kid
  PROVE  \/ \A j \in 1 .. Len(s[2]) : Get(s[2][j], "keyid") # kid
         \/ \E i \in 1 .. Len(s[2]) : /\ Get(s[2][i], "keyid") = kid
                                      /\ \A j \in 1 .. i - 1 : Get(s[2][j], "keyid") # kid
<1> DEFINE I == {j \in 1 .. Len(s[2]) : Get(s[2][j], "keyid") = kid}
<1>1. SUFFICES ASSUME I # {}
               PROVE  \E i \in 1 .. Len(s[2]) : /\ Get(s[2][i], "keyid") = kid
                                                /\ \A j \in 1 .. i - 1 : Get(s[2][j], "keyid") # kid
  OBVIOUS
<1>2. PICK i \in I : \A j \in I : i <= j
  <2>1. I \subseteq Nat
    BY DEF IsList
  <2> HIDE DEF I
  <2> QED BY <1>1, <2>1, LeastExists
<1>3. ASSUME NEW j \in 1 .. i - 1
      PROVE  Get(s[2][j], "keyid") # kid
  BY <1>2 DEF IsList
<1> QED BY <1>3

\* The two modules count sets alike.
LEMMA SameCardinality ==
  ASSUME NEW S
  PROVE  Abstract!Cardinality(S) = Cardinality(S)
BY DEF Cardinality, Abstract!Cardinality

\* A key of the role has a valid signature in the document exactly when
\* RoleVerify says that it carries one.
LEMMA OneKeysVote ==
  ASSUME NEW keys, NEW keyids, NEW i \in DOMAIN keyids, NEW s, IsList(s[2]), NEW text, NEW env,
         env.signatures = EntriesOf(keys, s[2], text)
  PROVE  SignedBy(keys, s, keyids[i], text)
           <=> keyids[i] \in KeysOf(keys, keyids) /\ Abstract!Carries(env, keyids[i])
<1> DEFINE kid == keyids[i]
           entries == s[2]
<1>1. kid \in KeysOf(keys, keyids) <=> IsString(kid) /\ IsObject(GetText(keys, kid[2]))
  BY DEF KeysOf
<1>2. /\ DOMAIN env.signatures = 1 .. Len(entries)
      /\ \A j \in 1 .. Len(entries) : env.signatures[j].keyid = Get(entries[j], "keyid")
  BY DEF EntriesOf, IsList
<1>3. \A j \in 1 .. Len(entries) : env.signatures[j].valid <=> Opens(keys, entries[j], text)
  BY DEF EntriesOf, IsList
<1>4. CASE \A j \in 1 .. Len(entries) : Get(entries[j], "keyid") # kid
  <2>1. ~Abstract!Carries(env, kid)
    BY <1>2, <1>4 DEF Abstract!Carries
  <2>2. FindSig(s, kid) = Missing
    BY <1>4, NoEntry
  <2>3. ~IsString(Get(Missing, "sig"))
    BY DEF Get, GetText, Missing, IsObject, IsString
  <2> QED BY <2>1, <2>2, <2>3 DEF SignedBy
<1>5. ASSUME NEW j \in 1 .. Len(entries), Get(entries[j], "keyid") = kid,
             \A k \in 1 .. j - 1 : Get(entries[k], "keyid") # kid
      PROVE  SignedBy(keys, s, kid, text)
               <=> kid \in KeysOf(keys, keyids) /\ Abstract!Carries(env, kid)
  <2>1. FindSig(s, kid) = entries[j]
    BY <1>5, FirstEntry
  <2>2. Abstract!Carries(env, kid) <=> env.signatures[j].valid
    <3>1. 1 .. j - 1 \subseteq 1 .. Len(entries)
      BY DEF IsList
    <3>2. ASSUME NEW k \in 1 .. Len(entries), k # j, Get(entries[k], "keyid") = kid
          PROVE  j \in 1 .. k - 1
      BY <1>5, <3>2 DEF IsList
    <3> QED BY <1>2, <1>5, <3>1, <3>2 DEF Abstract!Carries
  <2>3. SignedBy(keys, s, kid, text) <=> IsString(kid) /\ Opens(keys, entries[j], text)
    BY <1>5, <2>1 DEF SignedBy, Opens
  <2>4. Opens(keys, entries[j], text) => IsObject(GetText(keys, kid[2]))
    BY <1>5 DEF Opens
  <2> QED BY <1>1, <1>3, <2>2, <2>3, <2>4
<1>6. CASE \E j \in 1 .. Len(entries) : /\ Get(entries[j], "keyid") = kid
                                        /\ \A k \in 1 .. j - 1 : Get(entries[k], "keyid") # kid
  <2>1. PICK j \in 1 .. Len(entries) : /\ Get(entries[j], "keyid") = kid
                                       /\ \A k \in 1 .. j - 1 : Get(entries[k], "keyid") # kid
    BY <1>6
  <2> QED BY <2>1, <1>5
<1> QED BY <1>4, <1>6, FirstOrNone

\* What the library checks of a document's shape before it counts.
WellFormed(root, name, envelope) ==
  LET role == Get(Get(root, "roles"), name)
  IN  /\ IsObject(Get(root, "roles")) /\ IsObject(Get(root, "keys")) /\ IsObject(role)
      /\ IsArray(Get(role, "keyids")) /\ IsNumber(Get(role, "threshold"))
      /\ IsObject(Get(envelope, "signed")) /\ IsArray(Get(envelope, "signatures"))

\* The root and the envelope as RoleVerify sees them.
RootOf(root, name) ==
  LET role == Get(Get(root, "roles"), name)
      keyids == Get(role, "keyids")[2]
  IN  [keys |-> KeysOf(Get(root, "keys"), keyids),
       roles |-> [r \in {name} |-> [keyids |-> keyids, threshold |-> Get(role, "threshold")[2]]]]
EnvelopeOf(root, envelope) ==
  LET signed == Get(envelope, "signed")
      exp == Get(signed, "expires")
      ver == Get(signed, "version")
  IN  [signatures |-> EntriesOf(Get(root, "keys"), Get(envelope, "signatures")[2], Canonical(signed)),
       ver |-> IF IsNumber(ver) THEN ver[2] ELSE 0,
       exp |-> IF IsString(exp) /\ IsDate(exp[2]) THEN Seconds(DateTime(exp[2])) ELSE NoDate]

\* The checks of expiry and version agree at both grains, with a clock and
\* without.
LEMMA GatesAgree ==
  ASSUME NEW root, NEW envelope, NEW now \in Instants, NEW min
  PROVE  LET e == EnvelopeOf(root, envelope)
         IN  Gates(Get(envelope, "signed"), now, min) = "OK"
               <=> ~(/\ Seconds(now) # 0 /\ e.exp = NoDate)
                   /\ ~(/\ Seconds(now) # 0 /\ e.exp <= Seconds(now))
                   /\ ~(e.ver < min)
<1> DEFINE e == EnvelopeOf(root, envelope)
           exp == Get(Get(envelope, "signed"), "expires")
           ver == Get(Get(envelope, "signed"), "version")
           dated == IsString(exp) /\ IsDate(exp[2])
           then == Seconds(DateTime(exp[2]))
<1>1. e.ver = (IF IsNumber(ver) THEN ver[2] ELSE 0) /\ e.exp = (IF dated THEN then ELSE NoDate)
  BY DEF EnvelopeOf
<1>2. DateTime(exp[2]) \in Instants
  BY DateTimeIsInstant
<1>3. /\ then \in Int /\ (now = Unknown <=> Seconds(now) = 0)
      /\ NotAfter(DateTime(exp[2]), now) <=> then <= Seconds(now)
  BY <1>2, TimesCompare
<1>4. dated => e.exp # NoDate /\ e.exp = then
  BY <1>1, <1>3, NoDateIsNoNumber
<1>5. Gates(Get(envelope, "signed"), now, min) = "OK"
        <=> /\ ~(now # Unknown /\ ~dated)
            /\ ~(now # Unknown /\ NotAfter(DateTime(exp[2]), now))
            /\ ~((IF IsNumber(ver) THEN ver[2] ELSE 0) < min)
  BY DEF Gates
<1>6. ~dated => e.exp = NoDate
  BY <1>1
<1>7. Gates(Get(envelope, "signed"), now, min) = "OK"
        <=> /\ ~(Seconds(now) # 0 /\ e.exp = NoDate)
            /\ ~(Seconds(now) # 0 /\ e.exp <= Seconds(now))
            /\ ~(e.ver < min)
  <2> HIDE DEF e, then, dated
  <2>1. CASE dated
    BY <1>1, <1>3, <1>4, <1>5, <2>1
  <2>2. CASE ~dated
    BY <1>1, <1>3, <1>5, <1>6, <2>2
  <2> QED BY <2>1, <2>2
<1> QED BY <1>7

\* RoleVerify, which the repository client is checked and proved with, is what
\* the library does with the documents: an envelope is accepted exactly when
\* it and the root have their fields and the abstract check of them passes.
THEOREM TwoGrains ==
  ASSUME NEW root, NEW name, NEW envelope, NEW now \in Instants, NEW min,
         IsArray(Get(envelope, "signatures")) => IsList(Get(envelope, "signatures")[2])
  PROVE  VerifyRole(root, name, envelope, now, min) = "OK"
           <=> /\ WellFormed(root, name, envelope)
               /\ Abstract!VerifyRole(RootOf(root, name), name, EnvelopeOf(root, envelope),
                                      Seconds(now), min) = "OK"
<1> DEFINE keys == Get(root, "keys")
           role == Get(Get(root, "roles"), name)
           keyids == Get(role, "keyids")
           thresh == Get(role, "threshold")
           signed == Get(envelope, "signed")
           signatures == Get(envelope, "signatures")
           r == RootOf(root, name)
           e == EnvelopeOf(root, envelope)
           votes == ValidCount(keys, keyids, signatures, Canonical(signed))
<1>1. VerifyRole(root, name, envelope, now, min) = "OK"
        <=> /\ WellFormed(root, name, envelope)
            /\ thresh[2] > 0 /\ votes >= thresh[2]
            /\ Gates(signed, now, min) = "OK"
  BY DEF VerifyRole, WellFormed
<1>2. /\ name \in DOMAIN r.roles /\ r.roles[name].threshold = thresh[2]
      /\ r.roles[name].keyids = keyids[2] /\ r.keys = KeysOf(keys, keyids[2])
  BY DEF RootOf
<1>3. Abstract!VerifyRole(r, name, e, Seconds(now), min) = "OK"
        <=> /\ thresh[2] > 0 /\ Abstract!ValidCount(r, name, e) >= thresh[2]
            /\ ~(Seconds(now) # 0 /\ e.exp = NoDate)
            /\ ~(Seconds(now) # 0 /\ e.exp <= Seconds(now))
            /\ ~(e.ver < min)
  BY <1>2 DEF Abstract!VerifyRole
<1>4. ASSUME WellFormed(root, name, envelope)
      PROVE  votes = Abstract!ValidCount(r, name, e)
  <2>1. IsList(signatures[2])
    BY <1>4 DEF WellFormed
  <2>2. e.signatures = EntriesOf(keys, signatures[2], Canonical(signed))
    BY DEF EnvelopeOf
  <2>3. \A i \in DOMAIN keyids[2] :
          SignedBy(keys, signatures, keyids[2][i], Canonical(signed))
            <=> keyids[2][i] \in r.keys /\ Abstract!Carries(e, keyids[2][i])
    <3> HIDE DEF e, r, keyids, signatures, keys, signed
    <3> QED BY <1>2, <2>1, <2>2, OneKeysVote
  <2>4. {i \in DOMAIN keyids[2] : SignedBy(keys, signatures, keyids[2][i], Canonical(signed))}
          = {i \in DOMAIN keyids[2] : keyids[2][i] \in r.keys /\ Abstract!Carries(e, keyids[2][i])}
    <3> HIDE DEF e, r, keyids, signatures, keys, signed
    <3> QED BY <2>3
  <2>5. votes = Cardinality({i \in DOMAIN keyids[2] :
                               SignedBy(keys, signatures, keyids[2][i], Canonical(signed))})
    BY DEF ValidCount
  <2>6. Abstract!ValidCount(r, name, e)
          = Cardinality({i \in DOMAIN keyids[2] : keyids[2][i] \in r.keys /\ Abstract!Carries(e, keyids[2][i])})
    <3>1. Abstract!ValidCount(r, name, e)
            = Cardinality({i \in DOMAIN r.roles[name].keyids :
                r.roles[name].keyids[i] \in r.keys /\ Abstract!Carries(e, r.roles[name].keyids[i])})
      <4> HIDE DEF e, r
      <4> QED BY SameCardinality DEF Abstract!ValidCount
    <3> HIDE DEF e, r
    <3> QED BY <1>2, <3>1, Zenon
  <2> HIDE DEF e, r, votes
  <2> QED BY <2>4, <2>5, <2>6
<1>5. Gates(signed, now, min) = "OK"
        <=> /\ ~(Seconds(now) # 0 /\ e.exp = NoDate)
            /\ ~(Seconds(now) # 0 /\ e.exp <= Seconds(now))
            /\ ~(e.ver < min)
  BY GatesAgree
<1>6. VerifyRole(root, name, envelope, now, min) = "OK"
        <=> WellFormed(root, name, envelope) /\ Abstract!VerifyRole(r, name, e, Seconds(now), min) = "OK"
  <2> HIDE DEF e, r, thresh, votes, signed
  <2> QED BY <1>1, <1>3, <1>4, <1>5
<1> QED BY <1>6

-----------------------------------------------------------------------------
(* Pins. *)

\* akt_select_target takes the first target whose `custom' names the hardware.
Fits(item, hwid) == HwidMatches(Get(item[2], "custom"), hwid)
ChosenAt(items, hwid, i) ==
  /\ i \in 1 .. Len(items) /\ Fits(items[i], hwid)
  /\ \A j \in 1 .. i - 1 : ~Fits(items[j], hwid)

\* The target akt_select_target looks at.
SelectedAt(targets, hwid) ==
  SelectInSeq(Get(targets, "targets")[2], LAMBDA item : HwidMatches(Get(item[2], "custom"), hwid))

\* SelectInSeq finds that target, and only that one.
LEMMA FirstFitting ==
  ASSUME NEW targets, NEW hwid, IsList(Get(targets, "targets")[2])
  PROVE  LET items == Get(targets, "targets")[2]
             i == SelectedAt(targets, hwid)
         IN  /\ i # 0 => ChosenAt(items, hwid, i)
             /\ i = 0 => \A j \in 1 .. Len(items) : ~Fits(items[j], hwid)
             /\ \A j : ChosenAt(items, hwid, j) => i = j
<1> DEFINE items == Get(targets, "targets")[2]
           I == {j \in 1 .. Len(items) : Fits(items[j], hwid)}
           i == SelectedAt(targets, hwid)
<1>1. i = IF I # {} THEN Min(I) ELSE 0
  BY DEF SelectedAt, SelectInSeq, Fits
<1>2. I \subseteq Nat \ {0}
  BY DEF IsList
<1>3. I # {} => i \in I /\ \A j \in I : i <= j
  <2> HIDE DEF I, i
  <2> QED BY <1>1, <1>2, MinIsLeast
<1>4. I = {} => i = 0
  <2> HIDE DEF I, i
  <2> QED BY <1>1
<1>5. ASSUME NEW k \in I, \A j \in I : k <= j
      PROVE  /\ k # 0 /\ ChosenAt(items, hwid, k)
             /\ \A j : ChosenAt(items, hwid, j) => k = j
  <2>1. k \in 1 .. Len(items) /\ Fits(items[k], hwid) /\ k \in Nat \ {0} /\ Len(items) \in Nat
    BY <1>2 DEF IsList
  <2>2. ASSUME NEW j \in 1 .. k - 1 PROVE ~Fits(items[j], hwid)
    BY <1>5, <2>1
  <2>3. ASSUME NEW j, ChosenAt(items, hwid, j) PROVE k = j
    <3>1. j \in I /\ j \in Nat
      BY <2>1, <2>3 DEF ChosenAt
    <3>2. k <= j
      BY <1>5, <3>1
    <3>3. ~(k \in 1 .. j - 1)
      BY <2>1, <2>3 DEF ChosenAt
    <3> QED BY <2>1, <3>1, <3>2, <3>3
  <2> QED BY <2>1, <2>2, <2>3 DEF ChosenAt
<1>6. ASSUME I = {}
      PROVE  /\ \A j \in 1 .. Len(items) : ~Fits(items[j], hwid)
             /\ \A j : ~ChosenAt(items, hwid, j)
  BY <1>6 DEF ChosenAt
<1>7. /\ i # 0 => ChosenAt(items, hwid, i)
      /\ i = 0 => \A j \in 1 .. Len(items) : ~Fits(items[j], hwid)
      /\ \A j : ChosenAt(items, hwid, j) => i = j
  <2> HIDE DEF I, i, items
  <2>1. CASE I = {}
    BY <1>4, <1>6, <2>1
  <2>2. CASE I # {}
    BY <1>3, <1>5, <2>2
  <2> QED BY <2>1, <2>2
<1> QED BY <1>7

\* No segment of the path is `..'.
NoDots(path) == \A j \in DOMAIN path : path[j] # ".."

\* akt_select_target succeeds exactly when the first target for this hardware
\* has a pin, a clean path and a digest, and hands on what that target says.
LEMMA SelectionOf ==
  ASSUME NEW targets, NEW hwid
  PROVE  LET s == UptaneSelectTarget(targets, hwid)
             all == Get(targets, "targets")
             i == SelectedAt(targets, hwid)
             pin == Pinned(all[2][i][2])
         IN  /\ s.err = "ESP_OK" <=> /\ IsObject(all) /\ i # 0 /\ pin # Missing
                                     /\ NoDots(all[2][i][1]) /\ IsDigest(pin[3])
             /\ s.err = "ESP_OK" => /\ s.target.filepath = all[2][i][1]
                                    /\ s.target.length = pin[2]
                                    /\ s.target.sha256 = HexDecode(pin[3])
<1> DEFINE all == Get(targets, "targets")
           i == SelectedAt(targets, hwid)
           pin == Pinned(all[2][i][2])
           ver == Get(Get(all[2][i][2], "custom"), "version")
           found == [rc |-> "OK",
                     target |-> [filepath |-> all[2][i][1], length |-> pin[2],
                                 sha256 |-> HexDecode(pin[3]),
                                 version |-> IF IsNumber(ver) THEN ver[2] ELSE 0]]
<1>1. SelectTarget(targets, hwid)
        = IF ~IsObject(all) THEN Failed("PARSE")
          ELSE IF i = 0 THEN Failed("NO_TARGET")
          ELSE IF pin = Missing \/ ~NoDots(all[2][i][1]) \/ ~IsDigest(pin[3]) THEN Failed("PARSE")
          ELSE found
  BY Zenon DEF SelectTarget, SelectedAt, NoDots
<1>2. MapErr("PARSE") # "ESP_OK" /\ MapErr("NO_TARGET") # "ESP_OK" /\ MapErr("OK") = "ESP_OK"
  BY DEF MapErr
<1>3. Failed("PARSE").rc = "PARSE" /\ Failed("NO_TARGET").rc = "NO_TARGET"
  BY DEF Failed
<1>4. /\ found.rc = "OK" /\ found.target.filepath = all[2][i][1] /\ found.target.length = pin[2]
      /\ found.target.sha256 = HexDecode(pin[3])
  OBVIOUS
<1>5. LET s == [err |-> MapErr(SelectTarget(targets, hwid).rc), target |-> SelectTarget(targets, hwid).target]
      IN  /\ s.err = "ESP_OK" <=> /\ IsObject(all) /\ i # 0 /\ pin # Missing
                                     /\ NoDots(all[2][i][1]) /\ IsDigest(pin[3])
          /\ s.err = "ESP_OK" => /\ s.target.filepath = all[2][i][1]
                                 /\ s.target.length = pin[2]
                                 /\ s.target.sha256 = HexDecode(pin[3])
  <2> HIDE DEF found, all, i, pin, ver
  <2> QED BY <1>1, <1>2, <1>3, <1>4
<1> QED BY <1>5 DEF UptaneSelectTarget

\* akt_image_target_matches succeeds exactly when the image repository's entry
\* of that path has the same length and digest.
LEMMA CosignatureOf ==
  ASSUME NEW image, NEW res
  PROVE  CrosscheckTarget(image, res) = "ESP_OK"
           <=> LET targets == Get(image, "targets")
                   t == GetText(targets, res.filepath)
                   pin == Pinned(t)
               IN  /\ IsObject(targets) /\ IsObject(t) /\ pin # Missing
                   /\ pin[2] = res.length /\ IsDigest(pin[3]) /\ HexDecode(pin[3]) = res.sha256
<1> DEFINE dir == [NoTarget EXCEPT !.filepath = res.filepath, !.length = res.length, !.sha256 = res.sha256]
           targets == Get(image, "targets")
           t == GetText(targets, res.filepath)
           pin == Pinned(t)
<1>1. dir.filepath = res.filepath /\ dir.length = res.length /\ dir.sha256 = res.sha256
  BY DEF NoTarget
<1>2. CrosscheckTarget(image, res) = MapAktErr(ImageTargetMatches(image, dir))
  BY DEF CrosscheckTarget
<1>3. ImageTargetMatches(image, dir) = "OK"
        <=> /\ IsObject(targets) /\ IsObject(t) /\ pin # Missing
            /\ pin[2] = res.length /\ IsDigest(pin[3]) /\ HexDecode(pin[3]) = res.sha256
  <2> HIDE DEF dir
  <2> QED BY <1>1 DEF ImageTargetMatches
<1>4. \A rc : MapAktErr(rc) = "ESP_OK" <=> rc = "OK"
  BY DEF MapAktErr, MapErr
<1> HIDE DEF dir
<1> QED BY <1>2, <1>3, <1>4

\* SAFETY.  What is installed is what both repositories pin.  When
\* akt_select_target returns a target and akt_image_target_matches accepts it,
\* the target is the first one the director has for this hardware, its path
\* climbs nowhere, and its length and digest are those of the image
\* repository's entry of that same path.
THEOREM BothRepositoriesPin ==
  ASSUME NEW targets, NEW image, NEW hwid, IsObject(Get(targets, "targets")) => IsList(Get(targets, "targets")[2]),
         UptaneSelectTarget(targets, hwid).err = "ESP_OK",
         CrosscheckTarget(image, UptaneSelectTarget(targets, hwid).target) = "ESP_OK"
  PROVE  LET items == Get(targets, "targets")[2]
             target == UptaneSelectTarget(targets, hwid).target
         IN  \E i \in 1 .. Len(items) :
               LET ours == Pinned(items[i][2])
                   theirs == Pinned(GetText(Get(image, "targets"), items[i][1]))
               IN  /\ ChosenAt(items, hwid, i) /\ NoDots(items[i][1])
                   /\ ours # Missing /\ theirs # Missing
                   /\ IsDigest(ours[3]) /\ IsDigest(theirs[3])
                   /\ ours[2] = theirs[2] /\ HexDecode(ours[3]) = HexDecode(theirs[3])
                   /\ target.filepath = items[i][1] /\ target.length = ours[2]
                   /\ target.sha256 = HexDecode(ours[3])
<1> DEFINE items == Get(targets, "targets")[2]
           i == SelectedAt(targets, hwid)
           ours == Pinned(items[i][2])
           target == UptaneSelectTarget(targets, hwid).target
           theirs == Pinned(GetText(Get(image, "targets"), target.filepath))
<1>1. /\ IsObject(Get(targets, "targets")) /\ i # 0 /\ ours # Missing
      /\ NoDots(items[i][1]) /\ IsDigest(ours[3])
      /\ target.filepath = items[i][1] /\ target.length = ours[2] /\ target.sha256 = HexDecode(ours[3])
  BY SelectionOf
<1>2. theirs # Missing /\ theirs[2] = target.length /\ IsDigest(theirs[3]) /\ HexDecode(theirs[3]) = target.sha256
  BY CosignatureOf
<1>3. ChosenAt(items, hwid, i)
  BY <1>1, FirstFitting
<1>4. i \in 1 .. Len(items)
  BY <1>3 DEF ChosenAt
<1> HIDE DEF i, items, target
<1>5. ours[2] = theirs[2] /\ HexDecode(ours[3]) = HexDecode(theirs[3])
  BY <1>1, <1>2
<1> QED BY <1>1, <1>2, <1>3, <1>4, <1>5 DEF target, items

\* akt_verify_meta_link accepts a file exactly when its entry has the size,
\* the digest and, if one is asked for, the version.
LEMMA LinkOf ==
  ASSUME NEW referrer, NEW key, NEW file, NEW size, NEW version
  PROVE  VerifyMetaLink(referrer, key, file, size, version) = "OK"
           <=> LET entry == Get(Get(referrer, "meta"), key)
                   pin == Pinned(entry)
                   ver == Get(entry, "version")
               IN  /\ IsObject(Get(referrer, "meta")) /\ IsObject(entry) /\ pin # Missing
                   /\ pin[2] = size /\ IsDigest(pin[3]) /\ HexDecode(pin[3]) = Sha256(file)
                   /\ version >= 0 => (IF IsNumber(ver) THEN ver[2] ELSE -1) = version
BY DEF VerifyMetaLink

-----------------------------------------------------------------------------
(* Manifests. *)

\* An envelope that the key's owner signed: its first signature names the key
\* and verifies over what is signed.
SignedFor(env, pair) ==
  LET sig == Get(env, "signatures")[2][1]
  IN  /\ Get(sig, "keyid")[2] = KeyId(pair)
      /\ CryptoVerify(MethodFromStr(Get(sig, "method")[2]), pair, Get(sig, "sig")[2],
                      Canonical(Get(env, "signed"))) = "ESP_OK"

\* The signing method survives its conversion to text and back.
LEMMA MethodNames ==
  /\ MethodFromStr(<<"ed25519">>) = "ed25519"
  /\ MethodFromStr(MethodToStr("ed25519")) = "ed25519"
<1>1. (CHOOSE m \in Methods : <<"ed25519">> = <<m>>) = "ed25519"
  BY DEF Methods
<1>2. "ed25519" \in Methods
  BY DEF Methods
<1> QED BY <1>1, <1>2 DEF MethodFromStr, MethodToStr

\* sign_envelope returns such an envelope of its document.
LEMMA SignedEnvelope ==
  ASSUME NEW doc, NEW pair, Len(pair) = DigestBytes
  PROVE  Get(SignEnvelope(doc, pair), "signed") = doc /\ SignedFor(SignEnvelope(doc, pair), pair)
<1> DEFINE text == Canonical(doc)
           sig == SignEd25519(pair, text)
           entry == <<"obj", <<Field("keyid", <<"str", KeyId(pair)>>), Field("method", Word("ed25519")),
                               Field("sig", <<"str", Base64Encode(sig)>>)>> >>
           env == SignEnvelope(doc, pair)
<1>1. env = <<"obj", <<Field("signatures", <<"arr", <<entry>> >>), Field("signed", doc)>> >>
  BY DEF SignEnvelope
<1>2. Get(env, "signatures") = <<"arr", <<entry>> >> /\ Get(env, "signed") = doc
  <2> HIDE DEF entry, env
  <2>1. "signatures" # "signed"
    OBVIOUS
  <2> QED BY <1>1, <2>1, TwoFields
<1>3. /\ Get(entry, "keyid") = <<"str", KeyId(pair)>> /\ Get(entry, "method") = Word("ed25519")
      /\ Get(entry, "sig") = <<"str", Base64Encode(sig)>>
  <2>1. "keyid" # "method" /\ "method" # "sig" /\ "keyid" # "sig"
    OBVIOUS
  <2> QED BY <2>1, ThreeFields
<1> HIDE DEF entry, env
<1>4. CryptoVerify("ed25519", pair, sig, text) = "ESP_OK"
  BY MethodNames DEF CryptoVerify, Verify, VerifyEd25519, SignEd25519
<1>5. Get(env, "signatures")[2][1] = entry
  BY <1>2
<1>6. SignedFor(env, pair)
  BY <1>2, <1>3, <1>4, <1>5, MethodNames DEF SignedFor, Word, Base64Encode
<1> QED BY <1>2, <1>6 DEF env

\* What the fields of an installation report hold.
LEMMA ReportFields ==
  ASSUME NEW cid, NEW ecu, NEW success
  PROVE  LET ir == BuildInstallationReport(cid, ecu, success)
             report == Get(ir, "report")
         IN  /\ ir # <<"null">>
             /\ Get(Get(report, "items")[2][1], "ecu")[2] = ecu
             /\ Get(report, "correlation_id")[2] = cid
             /\ Get(Get(report, "result"), "success")[2] = success
<1> DEFINE result == <<"obj", <<Field("code", Word(IF success THEN "OK" ELSE "INSTALL_FAILED")),
                                Field("success", <<"bool", success>>)>> >>
           item == <<"obj", <<Field("ecu", <<"str", ecu>>), Field("result", result)>> >>
           report == <<"obj", <<Field("correlation_id", <<"str", cid>>),
                                Field("items", <<"arr", <<item>> >>), Field("result", result)>> >>
           ir == BuildInstallationReport(cid, ecu, success)
<1>0. /\ "code" # "success" /\ "ecu" # "result" /\ "correlation_id" # "items" /\ "items" # "result"
      /\ "correlation_id" # "result" /\ "content_type" # "report"
  OBVIOUS
<1>1. ir = <<"obj", <<Field("content_type", Word("installationReport")), Field("report", report)>> >>
  BY DEF BuildInstallationReport
<1>2. Get(result, "success") = <<"bool", success>>
  <2> DEFINE code == Word(IF success THEN "OK" ELSE "INSTALL_FAILED")
  <2>1. result = <<"obj", <<Field("code", code), Field("success", <<"bool", success>>)>> >>
    OBVIOUS
  <2> HIDE DEF result, code
  <2>2. Get(result, "code") = code /\ Get(result, "success") = <<"bool", success>>
    BY <1>0, <2>1, TwoFields
  <2> QED BY <2>2
<1> HIDE DEF result
<1>3. Get(item, "ecu") = <<"str", ecu>>
  BY <1>0, TwoFields
<1> HIDE DEF item
<1>4. /\ Get(report, "correlation_id") = <<"str", cid>> /\ Get(report, "result") = result
      /\ Get(report, "items") = <<"arr", <<item>> >>
  BY <1>0, ThreeFields
<1> HIDE DEF report, ir
<1>5. Get(ir, "report") = report
  <2>1. Get(ir, "content_type") = Word("installationReport") /\ Get(ir, "report") = report
    BY <1>0, <1>1, TwoFields
  <2> QED BY <2>1
<1>6. ir # <<"null">>
  BY <1>1
<1>7. Get(report, "items")[2][1] = item
  BY <1>4
<1>8. /\ ir # <<"null">>
      /\ Get(Get(Get(ir, "report"), "items")[2][1], "ecu")[2] = ecu
      /\ Get(Get(ir, "report"), "correlation_id")[2] = cid
      /\ Get(Get(Get(ir, "report"), "result"), "success")[2] = success
  BY <1>2, <1>3, <1>4, <1>5, <1>6, <1>7
<1> QED BY <1>8 DEF ir

\* Appending to a list of one.
LEMMA Appended ==
  ASSUME NEW p, NEW q
  PROVE  <<p>> \o <<q>> = <<p, q>> /\ <<p>> \o <<>> = <<p>>
<1>1. <<p>> \in Seq({p, q}) /\ <<q>> \in Seq({p, q}) /\ <<>> \in Seq({p, q})
  OBVIOUS
<1>2. /\ Len(<<p>> \o <<q>>) = 2 /\ (<<p>> \o <<q>>)[1] = p /\ (<<p>> \o <<q>>)[2] = q
      /\ <<p>> \o <<q>> \in Seq({p, q})
  BY <1>1
<1>3. Len(<<p>> \o <<>>) = 1 /\ (<<p>> \o <<>>)[1] = p /\ <<p>> \o <<>> \in Seq({p, q})
  BY <1>1
<1>4. ASSUME NEW S, NEW s \in Seq(S)
      PROVE  /\ Len(s) = 1 => s = <<s[1]>>
             /\ Len(s) = 2 => s = <<s[1], s[2]>>
  OBVIOUS
<1> QED BY <1>2, <1>3, <1>4, Zenon

\* What the fields of one ECU's part hold.
LEMMA PartFields ==
  ASSUME NEW ecu, NEW installed, NEW attacks, NEW pair, Len(pair) = DigestBytes
  PROVE  LET part == BuildEcuManifest(ecu, installed, attacks, pair)
             info == Get(Get(Get(part, "signed"), "installed_image"), "fileinfo")
         IN  /\ SignedFor(part, pair)
             /\ Get(Get(part, "signed"), "ecu_serial")[2] = ecu
             /\ Get(info, "length")[2] = installed.length
             /\ Get(Get(info, "hashes"), "sha256")[2] = HexEncode(installed.sha256)
<1> DEFINE hex == HexEncode(installed.sha256)
           hashes == <<"obj", <<Field("sha256", <<"str", hex>>)>> >>
           finfo == <<"obj", <<Field("hashes", hashes), Field("length", <<"num", installed.length>>)>> >>
           img == <<"obj", <<Field("filepath", <<"str", installed.filepath>>), Field("fileinfo", finfo)>> >>
           doc == <<"obj", <<Field("installed_image", img), Field("ecu_serial", <<"str", ecu>>),
                             Field("attacks_detected", <<"str", attacks>>)>> >>
           part == BuildEcuManifest(ecu, installed, attacks, pair)
<1>0. "filepath" # "fileinfo"
  OBVIOUS
<1>1. part = SignEnvelope(doc, pair)
  BY DEF BuildEcuManifest
<1>2. Get(hashes, "sha256") = <<"str", hex>>
  <2> HIDE DEF hex
  <2> QED BY OneField
<1> HIDE DEF hex, hashes
<1>3. Get(finfo, "hashes") = hashes /\ Get(finfo, "length") = <<"num", installed.length>>
  <2> DEFINE length == <<"num", installed.length>>
  <2>1. finfo = <<"obj", <<Field("hashes", hashes), Field("length", length)>> >>
    OBVIOUS
  <2> HIDE DEF finfo, length
  <2>2. "hashes" # "length"
    OBVIOUS
  <2>3. Get(finfo, "hashes") = hashes /\ Get(finfo, "length") = length
    BY <2>1, <2>2, TwoFields
  <2> QED BY <2>3 DEF length
<1> HIDE DEF finfo
<1>4. Get(img, "filepath") = <<"str", installed.filepath>> /\ Get(img, "fileinfo") = finfo
  BY <1>0, TwoFields
<1> HIDE DEF img
<1>5. /\ Get(doc, "installed_image") = img /\ Get(doc, "ecu_serial") = <<"str", ecu>>
      /\ Get(doc, "attacks_detected") = <<"str", attacks>>
  <2> DEFINE serial == <<"str", ecu>>
             found == <<"str", attacks>>
  <2>1. doc = <<"obj", <<Field("installed_image", img), Field("ecu_serial", serial),
                         Field("attacks_detected", found)>> >>
    OBVIOUS
  <2>2. /\ "installed_image" # "ecu_serial" /\ "ecu_serial" # "attacks_detected"
        /\ "installed_image" # "attacks_detected"
    OBVIOUS
  <2> HIDE DEF doc, serial, found
  <2>3. /\ Get(doc, "installed_image") = img /\ Get(doc, "ecu_serial") = serial
        /\ Get(doc, "attacks_detected") = found
    BY <2>1, <2>2, ThreeFields
  <2> QED BY <2>3 DEF serial, found
<1> HIDE DEF doc, part
<1>6. Get(part, "signed") = doc /\ SignedFor(part, pair)
  BY <1>1, SignedEnvelope
<1>7. /\ SignedFor(part, pair)
      /\ Get(Get(part, "signed"), "ecu_serial")[2] = ecu
      /\ Get(Get(Get(Get(part, "signed"), "installed_image"), "fileinfo"), "length")[2] = installed.length
      /\ Get(Get(Get(Get(Get(part, "signed"), "installed_image"), "fileinfo"), "hashes"), "sha256")[2] = hex
  BY <1>2, <1>3, <1>4, <1>5, <1>6
<1> QED BY <1>7 DEF part, hex

\* What the fields of the whole manifest hold, whoever reports.
LEMMA ManifestFields ==
  ASSUME NEW primary, NEW installed, NEW attacks, NEW cid, NEW success, NEW sec, NEW pair,
         Len(pair) = DigestBytes, sec.present \in BOOLEAN
  PROVE  LET manifest == BuildManifestEx(primary, installed, attacks, cid, success, sec, pair)
             signed == Get(manifest, "signed")
             parts == Get(signed, "ecu_version_manifests")[2]
             ir == Get(signed, "installation_report")
             report == Get(ir, "report")
             ofSecondary == sec.present /\ sec.cid # <<>>
         IN  /\ SignedFor(manifest, pair)
             /\ DOMAIN parts = 1 .. (IF sec.present THEN 2 ELSE 1)
             /\ parts[1] = <<primary, BuildEcuManifest(primary, installed, attacks, pair)>>
             /\ sec.present => parts[2] = <<sec.ecu, BuildEcuManifest(sec.ecu, sec.installed, sec.attacks, pair)>>
             /\ ir = <<"null">> <=> cid = <<>> /\ ~ofSecondary
             /\ ir # <<"null">> =>
                  /\ Get(Get(report, "items")[2][1], "ecu")[2] = IF ofSecondary THEN sec.ecu ELSE primary
                  /\ Get(report, "correlation_id")[2] = IF ofSecondary THEN sec.cid ELSE cid
                  /\ Get(Get(report, "result"), "success")[2] = IF ofSecondary THEN sec.success ELSE success
<1> DEFINE evm == <<<<primary, BuildEcuManifest(primary, installed, attacks, pair)>> >>
                  \o IF sec.present
                     THEN <<<<sec.ecu, BuildEcuManifest(sec.ecu, sec.installed, sec.attacks, pair)>> >>
                     ELSE <<>>
           ir == ReportOf(primary, cid, success, sec)
           doc == <<"obj", <<Field("primary_ecu_serial", <<"str", primary>>),
                             Field("ecu_version_manifests", <<"obj", evm>>),
                             Field("installation_report", ir)>> >>
           manifest == BuildManifestEx(primary, installed, attacks, cid, success, sec, pair)
           ofSecondary == sec.present /\ sec.cid # <<>>
<1>1. manifest = SignEnvelope(doc, pair)
  BY DEF BuildManifestEx
<1>2. /\ DOMAIN evm = 1 .. (IF sec.present THEN 2 ELSE 1)
      /\ evm[1] = <<primary, BuildEcuManifest(primary, installed, attacks, pair)>>
      /\ sec.present => evm[2] = <<sec.ecu, BuildEcuManifest(sec.ecu, sec.installed, sec.attacks, pair)>>
  <2>1. ASSUME NEW p, NEW q
        PROVE  /\ <<p>> \o <<q>> = <<p, q>> /\ <<p>> \o <<>> = <<p>>
    BY Appended
  <2>2. CASE sec.present
    BY <2>1, <2>2
  <2>3. CASE ~sec.present
    BY <2>1, <2>3
  <2> QED BY <2>2, <2>3
<1>3. /\ ir = <<"null">> <=> cid = <<>> /\ ~ofSecondary
      /\ ir # <<"null">> =>
           LET report == Get(ir, "report")
           IN  /\ Get(Get(report, "items")[2][1], "ecu")[2] = IF ofSecondary THEN sec.ecu ELSE primary
               /\ Get(report, "correlation_id")[2] = IF ofSecondary THEN sec.cid ELSE cid
               /\ Get(Get(report, "result"), "success")[2] = IF ofSecondary THEN sec.success ELSE success
  <2>1. CASE ofSecondary
    <3>1. ir = BuildInstallationReport(sec.cid, sec.ecu, sec.success)
      BY <2>1 DEF ReportOf
    <3> HIDE DEF ir
    <3> QED BY <2>1, <3>1, ReportFields
  <2>2. CASE ~ofSecondary /\ cid # <<>>
    <3>1. ir = BuildInstallationReport(cid, primary, success)
      BY <2>2 DEF ReportOf
    <3> HIDE DEF ir
    <3> QED BY <2>2, <3>1, ReportFields
  <2>3. CASE ~ofSecondary /\ cid = <<>>
    BY <2>3 DEF ReportOf
  <2> QED BY <2>1, <2>2, <2>3
<1> HIDE DEF evm, ir
<1>4. /\ Get(doc, "primary_ecu_serial") = <<"str", primary>>
      /\ Get(doc, "ecu_version_manifests") = <<"obj", evm>> /\ Get(doc, "installation_report") = ir
  <2>1. /\ "primary_ecu_serial" # "ecu_version_manifests" /\ "primary_ecu_serial" # "installation_report"
        /\ "ecu_version_manifests" # "installation_report"
    OBVIOUS
  <2> QED BY <2>1, ThreeFields
<1> HIDE DEF doc, manifest
<1>5. Get(manifest, "signed") = doc /\ SignedFor(manifest, pair)
  BY <1>1, SignedEnvelope
<1>6. Get(Get(manifest, "signed"), "ecu_version_manifests")[2] = evm
  BY <1>4, <1>5
<1>7. Get(Get(manifest, "signed"), "installation_report") = ir
  BY <1>4, <1>5
<1> QED BY <1>2, <1>3, <1>5, <1>6, <1>7 DEF manifest

\* What an ECU's part reports as installed: its length and, read back from
\* the hexadecimal, its digest.
Reported(part) ==
  LET info == Get(Get(Get(part, "signed"), "installed_image"), "fileinfo")
  IN  <<Get(info, "length")[2], HexDecode(Get(Get(info, "hashes"), "sha256")[2])>>

Digests == [1 .. DigestBytes -> Byte]

\* Every manifest akt_build_manifest_ex builds, for any two ECUs, images and
\* correlation ids: the whole and each part verify under the device key; each
\* part is filed under the serial it names and reports the length and the
\* digest that its ECU has installed; there is a report exactly when there is
\* a correlation id, and it is the secondary's, with the secondary's id and
\* result, exactly when the secondary has one.
THEOREM ManifestsAreScoped ==
  ASSUME NEW primary, NEW installed, NEW attacks, NEW cid, NEW success, NEW sec, NEW pair,
         Len(pair) = DigestBytes, installed.sha256 \in Digests,
         sec.present \in BOOLEAN, sec.present => sec.installed.sha256 \in Digests
  PROVE  LET manifest == BuildManifestEx(primary, installed, attacks, cid, success, sec, pair)
             signed == Get(manifest, "signed")
             parts == Get(signed, "ecu_version_manifests")[2]
             ir == Get(signed, "installation_report")
             report == Get(ir, "report")
             ofSecondary == sec.present /\ sec.cid # <<>>
         IN  /\ SignedFor(manifest, pair)
             /\ DOMAIN parts = 1 .. (IF sec.present THEN 2 ELSE 1)
             /\ \A i \in DOMAIN parts : /\ SignedFor(parts[i][2], pair)
                                        /\ Get(Get(parts[i][2], "signed"), "ecu_serial")[2] = parts[i][1]
             /\ parts[1][1] = primary /\ Reported(parts[1][2]) = <<installed.length, installed.sha256>>
             /\ sec.present =>
                  /\ parts[2][1] = sec.ecu
                  /\ Reported(parts[2][2]) = <<sec.installed.length, sec.installed.sha256>>
             /\ ir = <<"null">> <=> cid = <<>> /\ ~ofSecondary
             /\ ir # <<"null">> =>
                  /\ Get(Get(report, "items")[2][1], "ecu")[2] = IF ofSecondary THEN sec.ecu ELSE primary
                  /\ Get(report, "correlation_id")[2] = IF ofSecondary THEN sec.cid ELSE cid
                  /\ Get(Get(report, "result"), "success")[2] = IF ofSecondary THEN sec.success ELSE success
<1> DEFINE manifest == BuildManifestEx(primary, installed, attacks, cid, success, sec, pair)
           parts == Get(Get(manifest, "signed"), "ecu_version_manifests")[2]
<1>1. ASSUME NEW ecu, NEW image, NEW found, image.sha256 \in Digests
      PROVE  LET part == BuildEcuManifest(ecu, image, found, pair)
             IN  /\ SignedFor(part, pair) /\ Get(Get(part, "signed"), "ecu_serial")[2] = ecu
                 /\ Reported(part) = <<image.length, image.sha256>>
  <2> DEFINE part == BuildEcuManifest(ecu, image, found, pair)
  <2>1. HexDecode(HexEncode(image.sha256)) = image.sha256
    <3>1. DigestBytes \in Nat
      BY CryptoAssumption
    <3> QED BY <1>1, <3>1, WrittenByEncode, WrittenDecodes DEF Digests
  <2>2. /\ SignedFor(part, pair) /\ Get(Get(part, "signed"), "ecu_serial")[2] = ecu
        /\ Get(Get(Get(Get(part, "signed"), "installed_image"), "fileinfo"), "length")[2] = image.length
        /\ Get(Get(Get(Get(Get(part, "signed"), "installed_image"), "fileinfo"), "hashes"), "sha256")[2]
             = HexEncode(image.sha256)
    BY PartFields
  <2> HIDE DEF part
  <2>3. Reported(part) = <<image.length, image.sha256>>
    BY <2>1, <2>2 DEF Reported
  <2> QED BY <2>2, <2>3 DEF part
<1>2. /\ SignedFor(manifest, pair)
      /\ DOMAIN parts = 1 .. (IF sec.present THEN 2 ELSE 1)
      /\ parts[1] = <<primary, BuildEcuManifest(primary, installed, attacks, pair)>>
      /\ sec.present => parts[2] = <<sec.ecu, BuildEcuManifest(sec.ecu, sec.installed, sec.attacks, pair)>>
  BY ManifestFields
<1> HIDE DEF parts
<1>3. /\ SignedFor(parts[1][2], pair) /\ Get(Get(parts[1][2], "signed"), "ecu_serial")[2] = parts[1][1]
      /\ parts[1][1] = primary /\ Reported(parts[1][2]) = <<installed.length, installed.sha256>>
  BY <1>1, <1>2
<1>4. sec.present =>
        /\ SignedFor(parts[2][2], pair) /\ Get(Get(parts[2][2], "signed"), "ecu_serial")[2] = parts[2][1]
        /\ parts[2][1] = sec.ecu /\ Reported(parts[2][2]) = <<sec.installed.length, sec.installed.sha256>>
  BY <1>1, <1>2
<1>5. \A i \in DOMAIN parts : i = 1 \/ (sec.present /\ i = 2)
  BY <1>2
<1>6. \A i \in DOMAIN parts : /\ SignedFor(parts[i][2], pair)
                              /\ Get(Get(parts[i][2], "signed"), "ecu_serial")[2] = parts[i][1]
  BY <1>3, <1>4, <1>5
<1> QED BY <1>2, <1>3, <1>4, <1>6, ManifestFields DEF parts

-----------------------------------------------------------------------------
(* The calls. *)

\* The two files of the calls have proper digests, and different ones.
LEMMA FileDigests ==
  /\ \A f \in {1, 10} : Sha256(f) \in [1 .. DigestBytes -> Byte]
  /\ Sha256(1) # Sha256(10)
<1>1. DigestBytes \in Nat /\ 1 \in 1 .. DigestBytes /\ DigestBytes <= 32
  BY CryptoAssumption
<1>2. ASSUME NEW f \in {1, 10}, NEW i \in 1 .. DigestBytes PROVE 16 * f + i \in Byte
  BY <1>1 DEF Byte
<1>3. Sha256(1)[1] = 17 /\ Sha256(10)[1] = 161
  BY <1>1 DEF Sha256
<1>4. ASSUME NEW f \in {1, 10} PROVE Sha256(f) \in [1 .. DigestBytes -> Byte]
  BY <1>2 DEF Sha256
<1>5. Sha256(1) # Sha256(10)
  BY <1>3
<1> QED BY <1>4, <1>5

\* A digest without its first digit, or its first two, is no digest.
LEMMA TailsAreNoDigests ==
  ASSUME NEW b \in [1 .. DigestBytes -> Byte]
  PROVE  ~IsDigest(Tail(HexEncode(b))) /\ ~IsDigest(Tail(Tail(HexEncode(b))))
<1>1. DigestBytes \in Nat \ {0} /\ Written(HexEncode(b), DigestBytes, b)
  BY CryptoAssumption, WrittenByEncode
<1> DEFINE hex == HexEncode(b)
<1>2. Len(hex) = 2 * DigestBytes /\ hex \in Seq({hex[i] : i \in DOMAIN hex})
  <2>1. hex = [i \in 1 .. 2 * DigestBytes |-> hex[i]] /\ DOMAIN hex = 1 .. 2 * DigestBytes
    BY <1>1 DEF Written, HexEncode
  <2> HIDE DEF hex
  <2> QED BY <2>1, <1>1
<1> HIDE DEF hex
<1>3. Len(Tail(hex)) = 2 * DigestBytes - 1 /\ Len(Tail(Tail(hex))) = 2 * DigestBytes - 2
  <2> DEFINE S == {hex[i] : i \in DOMAIN hex}
  <2>1. hex \in Seq(S) /\ hex # <<>>
    BY <1>1, <1>2
  <2> HIDE DEF S
  <2>2. Tail(hex) \in Seq(S) /\ Len(Tail(hex)) = 2 * DigestBytes - 1
    BY <1>1, <1>2, <2>1
  <2>3. Tail(hex) # <<>>
    BY <1>1, <2>2
  <2>4. Len(Tail(Tail(hex))) = (2 * DigestBytes - 1) - 1
    BY <2>2, <2>3
  <2> QED BY <1>1, <2>2, <2>4
<1>4. (2 * DigestBytes - 1) % 2 # 0 /\ (2 * DigestBytes - 2) \div 2 # DigestBytes
  BY <1>1
<1>5. Len(Tail(hex)) % 2 # 0 /\ Len(Tail(Tail(hex))) \div 2 # DigestBytes
  BY <1>3, <1>4
<1>6. ~IsDigest(Tail(hex)) /\ ~IsDigest(Tail(Tail(hex)))
  BY <1>5, Zenon DEF IsDigest
<1> QED BY <1>6 DEF hex

\* The texts the calls write for digests.
Shas == {"h1", "H1", "h2", "H2", "short", "odd"}
\* They read as the file they were made from, or as no digest.
LEMMA WrittenDigests ==
  ASSUME NEW s \in Shas
  PROVE  /\ FileOf[s] \in {0, 1, 10} /\ (IsDigest(ShaTexts[s]) <=> FileOf[s] # 0)
         /\ FileOf[s] # 0 => HexDecode(ShaTexts[s]) = Sha256(FileOf[s])
<1>1. DigestBytes \in Nat
  BY CryptoAssumption
<1>2. ASSUME NEW f \in {1, 10}
      PROVE  LET hex == HexEncode(Sha256(f))
             IN  /\ IsDigest(hex) /\ HexDecode(hex) = Sha256(f)
                 /\ IsDigest(Upper(hex)) /\ HexDecode(Upper(hex)) = Sha256(f)
                 /\ ~IsDigest(Tail(hex)) /\ ~IsDigest(Tail(Tail(hex)))
  <2>1. Sha256(f) \in [1 .. DigestBytes -> Byte]
    BY FileDigests
  <2>2. /\ Written(HexEncode(Sha256(f)), DigestBytes, Sha256(f))
        /\ Written(Upper(HexEncode(Sha256(f))), DigestBytes, Sha256(f))
    BY <1>1, <2>1, WrittenByEncode, WrittenUpper
  <2> QED BY <1>1, <2>1, <2>2, WrittenDecodes, TailsAreNoDigests
<1>3. /\ ShaTexts["h1"] = HexEncode(Sha256(1)) /\ ShaTexts["H1"] = Upper(HexEncode(Sha256(1)))
      /\ ShaTexts["h2"] = HexEncode(Sha256(10)) /\ ShaTexts["H2"] = Upper(HexEncode(Sha256(10)))
      /\ ShaTexts["short"] = Tail(Tail(HexEncode(Sha256(1)))) /\ ShaTexts["odd"] = Tail(HexEncode(Sha256(1)))
      /\ FileOf["h1"] = 1 /\ FileOf["H1"] = 1 /\ FileOf["h2"] = 10 /\ FileOf["H2"] = 10
      /\ FileOf["short"] = 0 /\ FileOf["odd"] = 0
  BY DEF ShaTexts, FileOf
<1>4. CASE s = "h1" BY <1>2, <1>3, <1>4
<1>5. CASE s = "H1" BY <1>2, <1>3, <1>5
<1>6. CASE s = "h2" BY <1>2, <1>3, <1>6
<1>7. CASE s = "H2" BY <1>2, <1>3, <1>7
<1>8. CASE s = "short" BY <1>2, <1>3, <1>8
<1>9. CASE s = "odd" BY <1>2, <1>3, <1>9
<1> QED BY <1>4, <1>5, <1>6, <1>7, <1>8, <1>9 DEF Shas

\* Appending to a list of two.
LEMMA OneMore ==
  ASSUME NEW p, NEW q, NEW r
  PROVE  <<p, q>> \o <<r>> = <<p, q, r>> /\ <<p, q>> \o <<>> = <<p, q>>
<1>1. <<p, q>> \in Seq({p, q, r}) /\ <<r>> \in Seq({p, q, r}) /\ <<>> \in Seq({p, q, r})
  OBVIOUS
<1>2. /\ Len(<<p, q>> \o <<r>>) = 3 /\ (<<p, q>> \o <<r>>)[1] = p /\ (<<p, q>> \o <<r>>)[2] = q
      /\ (<<p, q>> \o <<r>>)[3] = r /\ <<p, q>> \o <<r>> \in Seq({p, q, r})
  BY <1>1
<1>3. /\ Len(<<p, q>> \o <<>>) = 2 /\ (<<p, q>> \o <<>>)[1] = p /\ (<<p, q>> \o <<>>)[2] = q
      /\ <<p, q>> \o <<>> \in Seq({p, q, r})
  BY <1>1
<1>4. ASSUME NEW S, NEW s \in Seq(S)
      PROVE  /\ Len(s) = 2 => s = <<s[1], s[2]>>
             /\ Len(s) = 3 => s = <<s[1], s[2], s[3]>>
  OBVIOUS
<1> QED BY <1>2, <1>3, <1>4, Zenon

\* The items of a targets document, and the descriptions they are made from.
ItemOf(t) == <<t.path, Object(PinFields(t.length, t.sha) \o << <<"custom", Custom(t.shape)>> >>)>>
ItemsOf(ts) == [i \in DOMAIN ts |-> ItemOf(ts[i])]
Shapes == Ours \cup {"other", "none"}
TargetSpecs == [path : Paths \cup {<<"..", "/", "p">>}, shape : Shapes, length : 1 .. 2, sha : Shas]

\* The pin of an entry made by PinFields, with one more field or without.
LEMMA PinnedFields ==
  ASSUME NEW length, NEW sha, NEW v, NEW w
  PROVE  LET bare == Object(PinFields(length, sha))
             more == Object(PinFields(length, sha) \o << <<w, v>> >>)
         IN  /\ bare[1] = "obj" /\ Pinned(bare) = <<"pin", length, ShaTexts[sha]>>
             /\ w \notin {"length", "hashes"} =>
                  /\ more[1] = "obj" /\ Pinned(more) = <<"pin", length, ShaTexts[sha]>> /\ Get(more, w) = v
             /\ w \notin {"length", "hashes"} => Get(bare, w) = Missing
<1> DEFINE text == <<"str", ShaTexts[sha]>>
           hashes == Object(<<<<"sha256", text>> >>)
           number == <<"num", length>>
           bare == Object(PinFields(length, sha))
           more == Object(PinFields(length, sha) \o << <<w, v>> >>)
<1>1. "length" # "hashes"
  OBVIOUS
<1>2. Get(hashes, "sha256") = text /\ hashes[1] = "obj"
  <2> HIDE DEF text
  <2> QED BY ObjectOfOne
<1>3. PinFields(length, sha) = << <<"length", number>>, <<"hashes", hashes>> >>
  BY DEF PinFields
<1>4. PinFields(length, sha) \o << <<w, v>> >> = << <<"length", number>>, <<"hashes", hashes>>, <<w, v>> >>
  <2> HIDE DEF number, hashes
  <2> QED BY <1>3, OneMore
<1>5. bare = Object(<< <<"length", number>>, <<"hashes", hashes>> >>)
  BY <1>3
<1>6. more = Object(<< <<"length", number>>, <<"hashes", hashes>>, <<w, v>> >>)
  BY <1>4
<1>7. ASSUME NEW o, Get(o, "length") = number, Get(o, "hashes") = hashes
      PROVE  Pinned(o) = <<"pin", length, ShaTexts[sha]>>
  <2>1. IsNumber(number) /\ number[2] = length /\ IsObject(hashes) /\ IsString(text) /\ text[2] = ShaTexts[sha]
    BY <1>2 DEF IsNumber, IsObject, IsString
  <2> HIDE DEF number, hashes, text
  <2> QED BY <1>2, <1>7, <2>1 DEF Pinned
<1> HIDE DEF number, hashes, bare, more
<1>8. /\ bare[1] = "obj" /\ Get(bare, "length") = number /\ Get(bare, "hashes") = hashes
      /\ w \notin {"length", "hashes"} => Get(bare, w) = Missing
  BY <1>1, <1>5, ObjectOfTwo
<1>9. ASSUME w \notin {"length", "hashes"}
      PROVE  more[1] = "obj" /\ Get(more, "length") = number /\ Get(more, "hashes") = hashes /\ Get(more, w) = v
  BY <1>1, <1>6, <1>9, ObjectOfThree
<1>10. /\ bare[1] = "obj" /\ Pinned(bare) = <<"pin", length, ShaTexts[sha]>>
       /\ w \notin {"length", "hashes"} =>
            more[1] = "obj" /\ Pinned(more) = <<"pin", length, ShaTexts[sha]>> /\ Get(more, w) = v
       /\ w \notin {"length", "hashes"} => Get(bare, w) = Missing
  BY <1>7, <1>8, <1>9
<1> QED BY <1>10 DEF bare, more

\* hwid_matches recognises the three forms that name the hardware, and no
\* other.
LEMMA CustomFits ==
  ASSUME NEW shape \in Shapes
  PROVE  HwidMatches(Custom(shape), <<"ours">>) <=> shape \in Ours
<1> DEFINE yes == Word("ours")
           no == Word("theirs")
           custom == Custom(shape)
<1>0. /\ "hardwareIdentifier" # "hardwareIds" /\ "hardwareIds" # "ecuIdentifiers"
      /\ "hardwareIdentifier" # "ecuIdentifiers" /\ "s1" # "s2"
  OBVIOUS
<1>1. yes = <<"str", <<"ours">> >> /\ no = <<"str", <<"theirs">> >> /\ <<"ours">> # <<"theirs">>
  BY DEF Word
<1>2. \A v : HwidMatches(v, <<"ours">>) <=>
        \/ Get(v, "hardwareIdentifier")[1] = "str" /\ Get(v, "hardwareIdentifier")[2] = <<"ours">>
        \/ /\ Get(v, "hardwareIds")[1] = "arr"
           /\ \E i \in DOMAIN Get(v, "hardwareIds")[2] :
                Get(v, "hardwareIds")[2][i][1] = "str" /\ Get(v, "hardwareIds")[2][i][2] = <<"ours">>
        \/ /\ Get(v, "ecuIdentifiers")[1] = "obj"
           /\ \E i \in DOMAIN Get(v, "ecuIdentifiers")[2] :
                /\ Get(Get(v, "ecuIdentifiers")[2][i][2], "hardwareId")[1] = "str"
                /\ Get(Get(v, "ecuIdentifiers")[2][i][2], "hardwareId")[2] = <<"ours">>
  BY DEF HwidMatches, IsString, IsArray, IsObject
<1>3. Missing[1] # "str" /\ Missing[1] # "arr" /\ Missing[1] # "obj"
  BY DEF Missing
<1>4. CASE shape \in {"identifier", "other"}
  <2> DEFINE id == IF shape = "identifier" THEN yes ELSE no
  <2>1. custom = Object(<<<<"hardwareIdentifier", id>> >>)
    <3>1. CASE shape = "identifier"
      BY <3>1 DEF Custom
    <3>2. CASE shape = "other"
      BY <3>2 DEF Custom
    <3> QED BY <1>4, <3>1, <3>2
  <2>2. /\ Get(custom, "hardwareIdentifier") = id /\ Get(custom, "hardwareIds") = Missing
        /\ Get(custom, "ecuIdentifiers") = Missing
    <3> HIDE DEF id, custom
    <3> QED BY <1>0, <2>1, ObjectOfOne
  <2>3. HwidMatches(custom, <<"ours">>) <=> shape = "identifier"
    <3> HIDE DEF custom, yes, no
    <3> QED BY <1>1, <1>2, <1>3, <2>2
  <2> QED BY <1>4, <2>3 DEF Ours
<1>5. CASE shape = "list"
  <2> DEFINE list == <<"arr", <<no, yes>> >>
  <2>1. custom = Object(<<<<"hardwareIds", list>> >>)
    BY <1>5 DEF Custom
  <2>2. Get(custom, "hardwareIds") = list
    <3> HIDE DEF list, custom
    <3> QED BY <2>1, ObjectOfOne
  <2>3. list[1] = "arr" /\ 2 \in DOMAIN list[2] /\ list[2][2] = yes
    <3> HIDE DEF yes, no
    <3> QED OBVIOUS
  <2>4. HwidMatches(custom, <<"ours">>)
    <3> HIDE DEF custom, yes, no, list
    <3> QED BY <1>1, <1>2, <2>2, <2>3
  <2> QED BY <1>5, <2>4 DEF Ours
<1>6. CASE shape = "ecus"
  <2> DEFINE one == Object(<<<<"hardwareId", no>> >>)
             two == Object(<<<<"hardwareId", yes>> >>)
             ecus == Object(<< <<"s1", one>>, <<"s2", two>> >>)
  <2>1. custom = Object(<<<<"ecuIdentifiers", ecus>> >>)
    BY <1>6 DEF Custom
  <2>2. Get(custom, "ecuIdentifiers") = ecus
    <3> HIDE DEF ecus, custom
    <3> QED BY <2>1, ObjectOfOne
  <2>3. Get(two, "hardwareId") = yes
    <3> HIDE DEF yes
    <3> QED BY ObjectOfOne
  <2>4. ecus[1] = "obj" /\ 2 \in DOMAIN ecus[2] /\ ecus[2][2][2] = two
    <3> HIDE DEF one, two
    <3> QED BY DEF Object, Field
  <2>5. HwidMatches(custom, <<"ours">>)
    <3> HIDE DEF custom, ecus, two, yes, no
    <3> QED BY <1>1, <1>2, <2>2, <2>3, <2>4
  <2> QED BY <1>6, <2>5 DEF Ours
<1>7. CASE shape = "none"
  <2>1. custom = <<"null">>
    BY <1>7 DEF Custom
  <2>2. \A a : Get(custom, a) = Missing
    <3>1. <<"null">>[1] # "obj"
      OBVIOUS
    <3> QED BY <2>1, <3>1, GetOfOther DEF Get
  <2>3. ~HwidMatches(custom, <<"ours">>)
    <3> HIDE DEF custom
    <3> QED BY <1>2, <1>3, <2>2
  <2> QED BY <1>7, <2>3 DEF Ours
<1> QED BY <1>4, <1>5, <1>6, <1>7 DEF Shapes, Ours

\* What an item says of path, pin and hardware is what it was made from.
LEMMA ItemFields ==
  ASSUME NEW t \in TargetSpecs
  PROVE  LET item == ItemOf(t)
         IN  /\ item[1] = t.path /\ item[2][1] = "obj"
             /\ Pinned(item[2]) = <<"pin", t.length, ShaTexts[t.sha]>>
             /\ Fits(item, <<"ours">>) <=> t.shape \in Ours
<1> DEFINE item == ItemOf(t)
           more == Object(PinFields(t.length, t.sha) \o << <<"custom", Custom(t.shape)>> >>)
<1>1. item[1] = t.path /\ item[2] = more
  BY DEF ItemOf
<1>2. "custom" \notin {"length", "hashes"}
  OBVIOUS
<1>3. /\ more[1] = "obj" /\ Pinned(more) = <<"pin", t.length, ShaTexts[t.sha]>>
      /\ Get(more, "custom") = Custom(t.shape)
  BY <1>2, PinnedFields
<1>4. t.shape \in Shapes
  BY DEF TargetSpecs
<1> HIDE DEF more, item
<1>5. /\ item[1] = t.path /\ item[2][1] = "obj"
      /\ Pinned(item[2]) = <<"pin", t.length, ShaTexts[t.sha]>>
      /\ Fits(item, <<"ours">>) <=> t.shape \in Ours
  BY <1>1, <1>3, <1>4, CustomFits DEF Fits
<1> QED BY <1>5 DEF item

\* The items of a targets document are those of its descriptions, in order.
LEMMA TargetsOf ==
  ASSUME NEW ts, IsList(ts), NEW custom
  PROVE  /\ Get(TargetsDoc(ts, custom), "targets") = <<"obj", ItemsOf(ts)>>
         /\ Get(TargetsDoc(ts, custom), "custom") = custom
         /\ IsList(ItemsOf(ts)) /\ Len(ItemsOf(ts)) = Len(ts)
         /\ \A i \in 1 .. Len(ts) : ItemsOf(ts)[i] = ItemOf(ts[i])
<1> DEFINE items == ItemsOf(ts)
           all == <<"obj", items>>
<1>1. TargetsDoc(ts, custom) = Object(<< <<"targets", all>>, <<"custom", custom>> >>)
  BY DEF TargetsDoc, ItemsOf, ItemOf
<1>2. Get(TargetsDoc(ts, custom), "targets") = all /\ Get(TargetsDoc(ts, custom), "custom") = custom
  <2>1. "targets" # "custom"
    OBVIOUS
  <2> HIDE DEF all
  <2> QED BY <1>1, <2>1, ObjectOfTwo
<1>3. /\ IsList(ItemsOf(ts)) /\ Len(ItemsOf(ts)) = Len(ts)
      /\ \A i \in 1 .. Len(ts) : ItemsOf(ts)[i] = ItemOf(ts[i])
  BY DEF IsList, ItemsOf
<1> QED BY <1>2, <1>3

\* The first description for this hardware.
FirstOurs(director) ==
  {i \in DOMAIN director : /\ director[i].shape \in Ours
                           /\ \A j \in 1 .. i - 1 : director[j].shape \notin Ours}

\* Of the paths the calls use, those with a `..' are the ones refused.
LEMMA PathsAreClean ==
  ASSUME NEW path \in Paths \cup {<<"..", "/", "p">>}
  PROVE  NoDots(path) <=> path \in Paths
<1>1. NoDots(<<"p">>) /\ NoDots(<<"q">>) /\ ~NoDots(<<"..", "/", "p">>)
  BY DEF NoDots
<1>2. <<"..", "/", "p">> \notin Paths
  BY DEF Paths
<1> QED BY <1>1, <1>2 DEF Paths

\* The selection of a described document, in terms of the descriptions.
LEMMA SelectionIsExact ==
  ASSUME NEW director, IsList(director), \A i \in 1 .. Len(director) : director[i] \in TargetSpecs,
         NEW custom
  PROVE  LET chosen == UptaneSelectTarget(TargetsDoc(director, custom), <<"ours">>)
             good == {i \in FirstOurs(director) : FileOf[director[i].sha] # 0 /\ director[i].path \in Paths}
         IN  /\ chosen.err = "ESP_OK" <=> good # {}
             /\ \A i \in good : /\ chosen.target.filepath = director[i].path
                                /\ chosen.target.length = director[i].length
                                /\ chosen.target.sha256 = Sha256(FileOf[director[i].sha])
<1> DEFINE doc == TargetsDoc(director, custom)
           items == ItemsOf(director)
           i == SelectedAt(doc, <<"ours">>)
           chosen == UptaneSelectTarget(doc, <<"ours">>)
           good == {k \in FirstOurs(director) : FileOf[director[k].sha] # 0 /\ director[k].path \in Paths}
<1>1. /\ Get(doc, "targets") = <<"obj", items>> /\ IsList(items) /\ Len(items) = Len(director)
      /\ \A k \in 1 .. Len(director) : items[k] = ItemOf(director[k])
  BY TargetsOf
<1>2. Get(doc, "targets")[2] = items /\ IsObject(Get(doc, "targets"))
  BY <1>1 DEF IsObject
<1>3. DOMAIN director = 1 .. Len(director) /\ Len(director) \in Nat
  BY DEF IsList
<1>4. ASSUME NEW k PROVE ChosenAt(items, <<"ours">>, k) <=> k \in FirstOurs(director)
  <2>1. \A j \in 1 .. Len(director) : Fits(items[j], <<"ours">>) <=> director[j].shape \in Ours
    BY <1>1, ItemFields
  <2>2. k \in 1 .. Len(director) => 1 .. k - 1 \subseteq 1 .. Len(director)
    BY <1>3
  <2> HIDE DEF items, doc
  <2> QED BY <1>1, <1>3, <2>1, <2>2 DEF ChosenAt, FirstOurs
<1>5. /\ i # 0 => i \in FirstOurs(director)
      /\ \A k \in FirstOurs(director) : i = k
  <2> HIDE DEF items, doc, i
  <2>1. /\ i # 0 => ChosenAt(items, <<"ours">>, i)
        /\ \A k : ChosenAt(items, <<"ours">>, k) => i = k
    BY <1>1, <1>2, FirstFitting DEF i
  <2> QED BY <1>4, <2>1
<1>6. 0 \notin FirstOurs(director) /\ FirstOurs(director) \subseteq 1 .. Len(director)
  BY <1>3 DEF FirstOurs
<1>7. ASSUME i \in FirstOurs(director)
      PROVE  /\ items[i][1] = director[i].path
             /\ Pinned(items[i][2]) = <<"pin", director[i].length, ShaTexts[director[i].sha]>>
             /\ director[i].sha \in Shas /\ director[i].path \in Paths \cup {<<"..", "/", "p">>}
  <2>1. director[i] \in TargetSpecs /\ items[i] = ItemOf(director[i])
    BY <1>1, <1>6, <1>7
  <2> HIDE DEF items, i
  <2>2. /\ items[i][1] = director[i].path
        /\ Pinned(items[i][2]) = <<"pin", director[i].length, ShaTexts[director[i].sha]>>
    BY <2>1, ItemFields
  <2> QED BY <2>1, <2>2 DEF TargetSpecs
<1>8. /\ chosen.err = "ESP_OK"
           <=> /\ i # 0 /\ Pinned(items[i][2]) # Missing
               /\ NoDots(items[i][1]) /\ IsDigest(Pinned(items[i][2])[3])
      /\ chosen.err = "ESP_OK" => /\ chosen.target.filepath = items[i][1]
                                  /\ chosen.target.length = Pinned(items[i][2])[2]
                                  /\ chosen.target.sha256 = HexDecode(Pinned(items[i][2])[3])
  <2> HIDE DEF items, i, doc, chosen
  <2> QED BY <1>2, SelectionOf DEF i, chosen
<1> HIDE DEF items, i, doc, chosen
<1>9. CASE i \in FirstOurs(director)
  <2>1. <<"pin", director[i].length, ShaTexts[director[i].sha]>> # Missing
    BY DEF Missing
  <2>2. /\ IsDigest(ShaTexts[director[i].sha]) <=> FileOf[director[i].sha] # 0
        /\ FileOf[director[i].sha] # 0 => HexDecode(ShaTexts[director[i].sha]) = Sha256(FileOf[director[i].sha])
    BY <1>7, <1>9, WrittenDigests
  <2>3. NoDots(director[i].path) <=> director[i].path \in Paths
    BY <1>7, <1>9, PathsAreClean
  <2>4. i # 0
    BY <1>6, <1>9
  <2>5. chosen.err = "ESP_OK" <=> i \in good
    BY <1>7, <1>8, <1>9, <2>1, <2>2, <2>3, <2>4
  <2>6. \A k \in good : k = i
    BY <1>5
  <2>7. i \in good => /\ chosen.target.filepath = director[i].path
                      /\ chosen.target.length = director[i].length
                      /\ chosen.target.sha256 = Sha256(FileOf[director[i].sha])
    BY <1>7, <1>8, <1>9, <2>2, <2>5
  <2>8. /\ chosen.err = "ESP_OK" <=> good # {}
        /\ \A k \in good : /\ chosen.target.filepath = director[k].path
                           /\ chosen.target.length = director[k].length
                           /\ chosen.target.sha256 = Sha256(FileOf[director[k].sha])
    <3> HIDE DEF good
    <3> QED BY <2>5, <2>6, <2>7
  <2> QED BY <2>8 DEF chosen, doc
<1>10. CASE i \notin FirstOurs(director)
  <2>1. FirstOurs(director) = {} /\ i = 0
    BY <1>5, <1>10
  <2>2. chosen.err # "ESP_OK" /\ good = {}
    BY <1>8, <2>1
  <2> QED BY <2>2 DEF chosen, doc
<1> QED BY <1>9, <1>10

\* The cosignature of a described document, in terms of the descriptions.
LEMMA CosignatureIsExact ==
  ASSUME NEW image, IsList(image), Len(image) <= 1, \A k \in 1 .. Len(image) : image[k] \in TargetSpecs,
         NEW res, NEW f \in {1, 10}, res.sha256 = Sha256(f), NEW custom
  PROVE  CrosscheckTarget(TargetsDoc(image, custom), res) = "ESP_OK"
           <=> \E k \in DOMAIN image : /\ image[k].path = res.filepath
                                       /\ image[k].length = res.length
                                       /\ FileOf[image[k].sha] = f
<1> DEFINE doc == TargetsDoc(image, custom)
           items == ItemsOf(image)
           t == GetText(Get(doc, "targets"), res.filepath)
<1>1. /\ Get(doc, "targets") = <<"obj", items>> /\ IsList(items) /\ Len(items) = Len(image)
      /\ \A k \in 1 .. Len(image) : items[k] = ItemOf(image[k])
  BY TargetsOf
<1>2. DOMAIN image = 1 .. Len(image) /\ Len(image) \in {0, 1}
  BY DEF IsList
<1>3. IsObject(Get(doc, "targets"))
  BY <1>1 DEF IsObject
<1>4. CrosscheckTarget(doc, res) = "ESP_OK"
        <=> /\ IsObject(t) /\ Pinned(t) # Missing /\ Pinned(t)[2] = res.length
            /\ IsDigest(Pinned(t)[3]) /\ HexDecode(Pinned(t)[3]) = Sha256(f)
  <2> HIDE DEF doc
  <2> QED BY <1>3, CosignatureOf
<1> HIDE DEF doc, items
<1>5. CASE Len(image) = 1 /\ image[1].path = res.filepath
  <2>1. image[1] \in TargetSpecs /\ items[1] = ItemOf(image[1]) /\ Len(items) = 1
    BY <1>1, <1>5
  <2>2. /\ items[1][1] = res.filepath /\ items[1][2][1] = "obj"
        /\ Pinned(items[1][2]) = <<"pin", image[1].length, ShaTexts[image[1].sha]>>
    BY <1>5, <2>1, ItemFields
  <2>3. t = items[1][2]
    <3>1. GetText(<<"obj", items>>, res.filepath) = items[1][2]
      <4>1. 1 \in 1 .. Len(items) /\ \A j \in 1 .. 1 - 1 : items[j][1] # res.filepath
        BY <2>1
      <4> HIDE DEF t
      <4> QED BY ONLY <1>1, <2>2, <4>1, GetFirst
    <3> QED BY ONLY <1>1, <3>1 DEF t
  <2>4. IsObject(t) /\ Pinned(t) # Missing /\ Pinned(t)[2] = image[1].length /\ Pinned(t)[3] = ShaTexts[image[1].sha]
    BY <2>2, <2>3 DEF IsObject, Missing
  <2>5. image[1].sha \in Shas
    BY <2>1 DEF TargetSpecs
  <2>6. IsDigest(ShaTexts[image[1].sha]) /\ HexDecode(ShaTexts[image[1].sha]) = Sha256(f)
          <=> FileOf[image[1].sha] = f
    BY <2>5, WrittenDigests, FileDigests
  <2>7. CrosscheckTarget(doc, res) = "ESP_OK" <=> image[1].length = res.length /\ FileOf[image[1].sha] = f
    <3> HIDE DEF t
    <3> QED BY <1>4, <2>4, <2>6
  <2>8. DOMAIN image = {1}
    BY <1>2, <1>5
  <2> QED BY <1>5, <2>7, <2>8, Zenon DEF doc
<1>6. CASE ~(Len(image) = 1 /\ image[1].path = res.filepath)
  <2>1. \A k \in 1 .. Len(items) : items[k][1] # res.filepath
    BY <1>1, <1>2, <1>6, ItemFields
  <2>2. t = Missing
    BY <1>1, <2>1, GetNone
  <2>3. ~IsObject(t)
    BY <2>2 DEF IsObject, Missing
  <2>4. CrosscheckTarget(doc, res) # "ESP_OK"
    BY <1>4, <2>3
  <2>5. \A k \in DOMAIN image : image[k].path # res.filepath
    BY <1>2, <1>6
  <2> QED BY <2>4, <2>5, Zenon DEF doc
<1> QED BY <1>5, <1>6

\* A call is one of its family's.
CallKinds ==
  \/ call \in CosignCalls \/ call \in LinkCalls \/ call \in ReportCalls
  \/ call.family \notin {"cosign", "link", "report"}

\* The calls of akt_verify_role.
LEMMA RoleCalls ==
  \A c \in SignatureCalls \cup GateCalls : c.family = "role"
<1>0. \A ks, t, es, v, e, n, m : RoleCall(ks, t, es, v, e, n, m).family = "role"
  BY DEF RoleCall
<1>1. ASSUME NEW c \in SignatureCalls PROVE c.family = "role"
  <2> DEFINE K == {<<"a">>, <<"a", "b">>, <<"b", "r">>}
             E == SeqsTo({Entry(k, by, w) : k \in {"a", "b"}, by \in {"a", "b"},
                                            w \in {"same", "reordered", "other", "garbled"}}
                         \cup {Entry("r", "r", "same"), Entry("r", "a", "same")}, 2)
  <2>1. SignatureCalls = {RoleCall(ks, t, es, 2, Noon, Unknown, 2) : ks \in K, t \in 0 .. 2, es \in E}
    BY DEF SignatureCalls
  <2> HIDE DEF K, E
  <2> QED BY <1>0, <1>1, <2>1
<1>2. ASSUME NEW c \in GateCalls PROVE c.family = "role"
  <2>1. CASE c \in {RoleCall(<<"a">>, 1, <<Entry("a", "a", "same")>>, 2, e, n, 2) : e \in Dates, n \in Dates}
    BY <1>0, <2>1
  <2>2. CASE c \in {RoleCall(<<"a">>, 1, <<Entry("a", "a", "same")>>, v, Noon, Noon, m) :
                      v \in 1 .. 3, m \in 0 .. 3}
    BY <1>0, <2>2
  <2>3. CASE c \in {RoleCall(<<"a">>, 1, <<Entry("a", "a", "same")>>, v, Noon, Unknown, m) :
                      v \in 1 .. 3, m \in 0 .. 3}
    BY <1>0, <2>3
  <2> QED BY <1>2, <2>1, <2>2, <2>3 DEF GateCalls
<1> QED BY <1>1, <1>2

\* Every call picked at the start is.
LEMMA KindsOfCalls == Init => CallKinds
<1>1. ASSUME call \in SignatureCalls \cup GateCalls PROVE call.family = "role"
  BY <1>1, RoleCalls
<1>3. ASSUME call \in BrokenCalls PROVE call.family = "broken"
  BY <1>3 DEF BrokenCalls
<1>4. ASSUME call \in TextCalls PROVE call.family = "text"
  BY <1>4 DEF TextCalls
<1> QED BY <1>1, <1>3, <1>4, Zenon DEF Init, CallKinds

\* What a cosign call consists of.
LEMMA CosignShapes ==
  ASSUME NEW c \in CosignCalls
  PROVE  /\ c.family = "cosign"
         /\ IsList(c.director) /\ \A i \in 1 .. Len(c.director) : c.director[i] \in TargetSpecs
         /\ IsList(c.image) /\ Len(c.image) <= 1 /\ \A i \in 1 .. Len(c.image) : c.image[i] \in TargetSpecs
<1>1. PICK d \in {<<>>} \cup OneTarget \cup TwoTargets, i \in ImageSides :
        c = [family |-> "cosign", director |-> d, image |-> i]
  BY DEF CosignCalls
<1>2. c.family = "cosign" /\ c.director = d /\ c.image = i
  BY <1>1
<1>3. \A p \in Paths \cup {<<"..", "/", "p">>}, h \in Shapes, l \in 1 .. 2, s \in Shas :
        Target(p, h, l, s) \in TargetSpecs
  BY DEF Target, TargetSpecs
<1>4. /\ IsList(<<>>) /\ \A k \in 1 .. Len(<<>>) : FALSE
      /\ Len(<<>>) <= 1
      /\ \A t \in TargetSpecs : /\ IsList(<<t>>) /\ Len(<<t>>) <= 1
                                /\ \A k \in 1 .. Len(<<t>>) : <<t>>[k] \in TargetSpecs
      /\ \A t \in TargetSpecs, u \in TargetSpecs :
           IsList(<<t, u>>) /\ \A k \in 1 .. Len(<<t, u>>) : <<t, u>>[k] \in TargetSpecs
  BY DEF IsList
<1>5. IsList(i) /\ Len(i) <= 1 /\ \A k \in 1 .. Len(i) : i[k] \in TargetSpecs
  <2>1. i = <<>> \/ \E t \in TargetSpecs : i = <<t>>
    BY <1>3 DEF ImageSides, Shapes, Shas
  <2> QED BY <1>4, <2>1, Zenon
<1>6. IsList(d) /\ \A k \in 1 .. Len(d) : d[k] \in TargetSpecs
  <2>1. \/ d = <<>> \/ \E t \in TargetSpecs : d = <<t>>
        \/ \E t \in TargetSpecs, u \in TargetSpecs : d = <<t, u>>
    <3>1. d \in OneTarget => \E t \in TargetSpecs : d = <<t>>
      BY <1>3 DEF OneTarget, Shapes, Shas
    <3>2. d \in TwoTargets => \E t \in TargetSpecs, u \in TargetSpecs : d = <<t, u>>
      BY <1>3 DEF TwoTargets, Shapes, Shas, Ours
    <3> QED BY <1>1, <3>1, <3>2
  <2> QED BY <1>4, <2>1, Zenon
<1> QED BY <1>2, <1>5, <1>6

\* A cosign call leaves PinsAreExact true.
LEMMA CosignStep ==
  ASSUME call \in CosignCalls, SelectAndCosign
  PROVE  PinsAreExact'
<1> DEFINE chosen == UptaneSelectTarget(TargetsDoc(call.director, Object(<<>>)), <<"ours">>)
           match == CrosscheckTarget(TargetsDoc(call.image, <<"null">>), chosen.target)
           good == {i \in FirstOurs(call.director) :
                      FileOf[call.director[i].sha] # 0 /\ call.director[i].path \in Paths}
<1>1. /\ call' = call /\ call.family = "cosign"
      /\ out' = [err |-> chosen.err, target |-> chosen.target,
                 match |-> IF chosen.err = "ESP_OK" THEN match ELSE "not asked"]
  BY CosignShapes DEF SelectAndCosign, Is
<1>2. /\ chosen.err = "ESP_OK" <=> good # {}
      /\ \A i \in good : /\ chosen.target.filepath = call.director[i].path
                         /\ chosen.target.length = call.director[i].length
                         /\ chosen.target.sha256 = Sha256(FileOf[call.director[i].sha])
  BY CosignShapes, SelectionIsExact
<1>3. ASSUME NEW i \in good
      PROVE  match = "ESP_OK" <=> \E k \in DOMAIN call.image :
                                    /\ call.image[k].path = call.director[i].path
                                    /\ call.image[k].length = call.director[i].length
                                    /\ FileOf[call.image[k].sha] = FileOf[call.director[i].sha]
  <2>1. i \in 1 .. Len(call.director)
    BY CosignShapes DEF FirstOurs, IsList
  <2>2. call.director[i].sha \in Shas
    BY <2>1, CosignShapes DEF TargetSpecs
  <2>3. FileOf[call.director[i].sha] \in {1, 10}
    BY <2>2, WrittenDigests
  <2>4. /\ chosen.target.filepath = call.director[i].path /\ chosen.target.length = call.director[i].length
        /\ chosen.target.sha256 = Sha256(FileOf[call.director[i].sha])
    BY <1>2
  <2> DEFINE res == chosen.target
             f == FileOf[call.director[i].sha]
             null == <<"null">>
  <2>5. /\ IsList(call.image) /\ Len(call.image) <= 1
        /\ \A k \in 1 .. Len(call.image) : call.image[k] \in TargetSpecs
    BY CosignShapes
  <2>6. res.sha256 = Sha256(f) /\ f \in {1, 10} /\ match = CrosscheckTarget(TargetsDoc(call.image, null), res)
    BY <2>3, <2>4
  <2>7. res.filepath = call.director[i].path /\ res.length = call.director[i].length
    BY <2>4
  <2> HIDE DEF chosen, good, res, f, match, null
  <2>8. match = "ESP_OK" <=> \E k \in DOMAIN call.image : /\ call.image[k].path = res.filepath
                                                          /\ call.image[k].length = res.length
                                                          /\ FileOf[call.image[k].sha] = f
    <3>1. DOMAIN call.image = 1 .. Len(call.image)
      BY <2>5 DEF IsList
    <3> QED BY ONLY <2>5, <2>6, <3>1, CosignatureIsExact
  <2> QED BY <2>7, <2>8 DEF f
<1> HIDE DEF chosen, match
<1>4. out'.err = chosen.err /\ out'.target = chosen.target
      /\ (chosen.err = "ESP_OK" => out'.match = match)
  BY <1>1
<1>5. Chosen' = FirstOurs(call.director)
  BY <1>1 DEF Chosen, FirstOurs
<1>6. \A d : Agreed(d)' <=> \E k \in DOMAIN call.image :
                              /\ call.image[k].path = d.path /\ call.image[k].length = d.length
                              /\ FileOf[call.image[k].sha] = FileOf[d.sha]
  BY <1>1 DEF Agreed
<1>7. \A i \in good : Agreed(call.director[i])' <=> match = "ESP_OK"
  <2> HIDE DEF good
  <2> QED BY <1>1, <1>3, <1>6, Zenon
<1>8. good = {i \in Chosen' : FileOf[call'.director[i].sha] # 0 /\ call'.director[i].path \in Paths}
  BY <1>1, <1>5
<1>9. (call.family = "link") = FALSE
  BY <1>1
<1> HIDE DEF good
<1> QED BY <1>1, <1>2, <1>4, <1>7, <1>8, <1>9 DEF PinsAreExact, Answered

\* The link check of a described entry, in terms of the description, for any
\* size and version.
LEMMA LinkIsExact ==
  ASSUME NEW length, NEW sha \in Shas, NEW version \in Int, NEW file \in {1, 10}, NEW size, NEW ref \in Int
  PROVE  LET entry == Object(PinFields(length, sha)
                             \o IF version = 0 THEN <<>> ELSE << <<"version", <<"num", version>> >> >>)
             referrer == Object(<<<<"meta", Object(<<<<"snapshot.json", entry>> >>)>> >>)
         IN  VerifyMetaLink(referrer, "snapshot.json", file, size, ref) = "OK"
               <=> /\ FileOf[sha] = file /\ length = size
                   /\ ref < 0 \/ (IF version # 0 THEN ref = version ELSE ref = -1)
<1> DEFINE number == <<"num", version>>
           entry == Object(PinFields(length, sha) \o IF version = 0 THEN <<>> ELSE << <<"version", number>> >>)
           meta == Object(<<<<"snapshot.json", entry>> >>)
           referrer == Object(<<<<"meta", meta>> >>)
           bare == Object(PinFields(length, sha))
           more == Object(PinFields(length, sha) \o << <<"version", number>> >>)
           ver == Get(entry, "version")
<1>1. /\ bare[1] = "obj" /\ Pinned(bare) = <<"pin", length, ShaTexts[sha]>> /\ Get(bare, "version") = Missing
      /\ more[1] = "obj" /\ Pinned(more) = <<"pin", length, ShaTexts[sha]>> /\ Get(more, "version") = number
  <2>1. "version" \notin {"length", "hashes"}
    OBVIOUS
  <2> HIDE DEF number
  <2> QED BY <2>1, PinnedFields
<1>2. entry = IF version = 0 THEN bare ELSE more
  <2>1. PinFields(length, sha) \o <<>> = PinFields(length, sha)
    BY OneMore DEF PinFields
  <2>2. CASE version = 0
    BY <2>1, <2>2
  <2>3. CASE version # 0
    BY <2>3
  <2> QED BY <2>2, <2>3
<1> HIDE DEF entry, bare, more
<1>3. /\ IsObject(entry) /\ Pinned(entry) = <<"pin", length, ShaTexts[sha]>>
      /\ ver = IF version = 0 THEN Missing ELSE number
  BY <1>1, <1>2 DEF IsObject
<1>4. Get(meta, "snapshot.json") = entry /\ meta[1] = "obj"
  BY ObjectOfOne
<1> HIDE DEF meta
<1>5. Get(referrer, "meta") = meta
  BY ObjectOfOne
<1> HIDE DEF referrer
<1>6. (IF IsNumber(ver) THEN ver[2] ELSE -1) = IF version = 0 THEN -1 ELSE version
  <2>1. ~IsNumber(Missing) /\ IsNumber(number) /\ number[2] = version
    BY DEF IsNumber, Missing
  <2> HIDE DEF number, ver
  <2> QED BY <1>3, <2>1
<1>7. IsDigest(ShaTexts[sha]) /\ HexDecode(ShaTexts[sha]) = Sha256(file) <=> FileOf[sha] = file
  BY WrittenDigests, FileDigests
<1>8. VerifyMetaLink(referrer, "snapshot.json", file, size, ref) = "OK"
        <=> /\ IsObject(meta) /\ IsObject(entry) /\ Pinned(entry) # Missing
            /\ Pinned(entry)[2] = size /\ IsDigest(Pinned(entry)[3])
            /\ HexDecode(Pinned(entry)[3]) = Sha256(file)
            /\ ref >= 0 => (IF IsNumber(ver) THEN ver[2] ELSE -1) = ref
  BY <1>4, <1>5, LinkOf
<1>9. IsObject(meta) /\ Pinned(entry) # Missing
  BY <1>3, <1>4 DEF IsObject, Missing
<1>10. Pinned(entry)[2] = length /\ Pinned(entry)[3] = ShaTexts[sha]
  BY <1>3
<1> HIDE DEF ver
<1>11. VerifyMetaLink(referrer, "snapshot.json", file, size, ref) = "OK"
         <=> /\ length = size /\ FileOf[sha] = file
             /\ ref >= 0 => (IF version = 0 THEN -1 ELSE version) = ref
  BY <1>3, <1>6, <1>7, <1>8, <1>9, <1>10, Zenon
<1>12. (ref >= 0 => (IF version = 0 THEN -1 ELSE version) = ref)
         <=> (ref < 0 \/ (IF version # 0 THEN ref = version ELSE ref = -1))
  OBVIOUS
<1> QED BY <1>11, <1>12 DEF referrer, meta, entry

\* A link call leaves PinsAreExact true.
LEMMA LinkStep ==
  ASSUME call \in LinkCalls, CheckALink
  PROVE  PinsAreExact'
<1>1. /\ call.family = "link" /\ call.sha \in Shas /\ call.version \in 0 .. 2 /\ call.file \in {1, 10}
      /\ call.ref \in -1 .. 2
  BY DEF LinkCalls, Shas
<1> DEFINE entry == Object(PinFields(call.length, call.sha)
                           \o IF call.version = 0 THEN <<>> ELSE << <<"version", <<"num", call.version>> >> >>)
           answer == VerifyMetaLink(Object(<<<<"meta", Object(<<<<"snapshot.json", entry>> >>)>> >>),
                                    "snapshot.json", call.file, call.size, call.ref)
<1>2. call' = call /\ out'.err = answer
  BY DEF CheckALink, Is
<1>3. answer = "OK" <=> /\ FileOf[call.sha] = call.file /\ call.length = call.size
                        /\ call.ref < 0 \/ (IF call.version # 0 THEN call.ref = call.version ELSE call.ref = -1)
  BY <1>1, LinkIsExact
<1> HIDE DEF answer
<1>4. call.ref < 0 \/ (IF call.version # 0 THEN call.ref = call.version ELSE call.ref = -1)
        <=> call.ref < 0 \/ (call.version # 0 /\ call.ref = call.version)
  BY <1>1
<1>5. (call.family = "cosign") = FALSE
  BY <1>1
<1> QED BY <1>2, <1>3, <1>4, <1>5 DEF PinsAreExact, Answered

\* A correlation id is the text of a string, and empty for every other form.
LEMMA CidTexts ==
  ASSUME NEW c \in CidShapes
  PROVE  CorrelationId(TargetsDoc(<<>>, CidCustom(c))) = IF c = "set" THEN <<"urn1">> ELSE <<>>
<1> DEFINE custom == CidCustom(c)
           cid == Get(custom, "correlationId")
<1>1. Get(TargetsDoc(<<>>, custom), "custom") = custom
  <2>1. IsList(<<>>)
    BY DEF IsList
  <2> HIDE DEF custom
  <2> QED BY <2>1, TargetsOf
<1>2. CASE c = "absent"
  <2>1. custom = Object(<<>>)
    BY <1>2 DEF CidCustom
  <2>2. cid = Missing
    BY <2>1, NoFields
  <2>3. ~IsString(Missing)
    BY DEF IsString, Missing
  <2> HIDE DEF custom
  <2>4. CorrelationId(TargetsDoc(<<>>, custom)) = <<>>
    BY <1>1, <2>2, <2>3 DEF CorrelationId
  <2> QED BY <1>2, <2>4 DEF custom
<1>3. CASE c # "absent"
  <2> DEFINE v == IF c = "number" THEN <<"num", 1>> ELSE IF c = "empty" THEN <<"str", <<>> >> ELSE Word("urn1")
  <2>1. custom = Object(<<<<"correlationId", v>> >>)
    <3>1. CASE c = "number"
      BY <3>1 DEF CidCustom
    <3>2. CASE c = "empty"
      BY <3>2 DEF CidCustom
    <3>3. CASE c = "set"
      BY <3>3 DEF CidCustom
    <3> QED BY <1>3, <3>1, <3>2, <3>3 DEF CidShapes
  <2>2. cid = v
    <3> HIDE DEF custom, v
    <3> QED BY <2>1, ObjectOfOne
  <2>3. IsString(v) <=> c # "number"
    BY DEF IsString, Word
  <2>4. /\ c = "empty" => v[2] = <<>>
        /\ c \notin {"number", "empty"} => v[2] = <<"urn1">>
    BY DEF Word
  <2> HIDE DEF custom, v
  <2>5. CorrelationId(TargetsDoc(<<>>, custom)) = IF c = "number" THEN <<>> ELSE v[2]
    BY <1>1, <2>2, <2>3 DEF CorrelationId
  <2>6. c \in {"number", "empty", "set"}
    BY <1>3 DEF CidShapes
  <2>7. CorrelationId(TargetsDoc(<<>>, custom)) = IF c = "set" THEN <<"urn1">> ELSE <<>>
    BY <2>4, <2>5, <2>6
  <2> QED BY <2>7 DEF custom
<1> QED BY <1>2, <1>3

\* A report call leaves ReportScoped true: ManifestsAreScoped read off the
\* call.
LEMMA ReportStep ==
  ASSUME call \in ReportCalls, Report
  PROVE  ReportScoped'
<1> DEFINE cid == CorrelationId(TargetsDoc(<<>>, CidCustom(call.cid)))
           sec == call.sec
           image == Installed(call.file)
           success == IF sec.present \/ cid # <<>> THEN call.success ELSE TRUE
           manifest == BuildManifestEx(<<"ecu1">>, image, <<>>, cid, success, sec, PubOf.a)
           ofSecondary == sec.present /\ sec.cid # <<>>
<1>1. /\ call.cid \in CidShapes /\ sec \in Secondaries /\ call.file \in {1, 10} /\ call.family = "report"
  BY DEF ReportCalls
<1>2. /\ sec.present \in BOOLEAN /\ (~sec.present => sec = NoSecondary)
      /\ sec.present => sec.ecu = <<"ecu2">> /\ sec.installed.sha256 = Sha256(10)
  <2>1. NoSecondary.present = FALSE
    BY DEF NoSecondary
  <2>2. CASE sec = NoSecondary
    BY <2>1, <2>2
  <2>3. CASE sec # NoSecondary
    <3> DEFINE script == [NoTarget EXCEPT !.sha256 = Sha256(10), !.filepath = <<"script">>]
    <3>1. script.sha256 = Sha256(10)
      BY DEF NoTarget
    <3> DEFINE Other(c, ok) == [present |-> TRUE, ecu |-> <<"ecu2">>, attacks |-> <<>>, cid |-> c,
                                success |-> ok, installed |-> script]
    <3>2. Secondaries = {NoSecondary} \cup {Other(c, ok) : c \in {<<>>, <<"urn2">>}, ok \in BOOLEAN}
      BY DEF Secondaries
    <3>3. \A c, ok : /\ Other(c, ok).present = TRUE /\ Other(c, ok).ecu = <<"ecu2">>
                     /\ Other(c, ok).installed = script
      OBVIOUS
    <3> HIDE DEF Other, script, sec
    <3>4. \E c, ok : sec = Other(c, ok)
      BY <1>1, <2>3, <3>2
    <3> QED BY <3>1, <3>3, <3>4
  <2> QED BY <2>2, <2>3
<1>3. cid = IF call.cid = "set" THEN <<"urn1">> ELSE <<>>
  BY <1>1, CidTexts
<1>4. call' = call /\ out'.manifest = manifest
  <2>1. call' = call /\ out'.manifest =
          IF sec.present THEN BuildManifestEx(<<"ecu1">>, image, <<>>, cid, call.success, sec, PubOf.a)
          ELSE IF cid = <<>> THEN BuildManifest(<<"ecu1">>, image, <<>>, PubOf.a)
          ELSE BuildManifestReport(<<"ecu1">>, image, <<>>, cid, call.success, PubOf.a)
    BY DEF Report, Is
  <2> HIDE DEF cid, image
  <2>2. CASE sec.present
    BY <2>1, <2>2
  <2>3. CASE ~sec.present /\ cid = <<>>
    BY <1>2, <2>1, <2>3 DEF BuildManifest, BuildManifestReport
  <2>4. CASE ~sec.present /\ cid # <<>>
    BY <1>2, <2>1, <2>4 DEF BuildManifestReport
  <2> QED BY <1>2, <2>2, <2>3, <2>4
<1>5. Len(PubOf.a) = DigestBytes /\ image.sha256 \in Digests /\ (sec.present => sec.installed.sha256 \in Digests)
  <2>1. DigestBytes \in Nat
    BY CryptoAssumption
  <2>2. Len(PubOf.a) = DigestBytes
    BY <2>1 DEF PubOf
  <2>3. image.sha256 = Sha256(call.file)
    BY DEF Installed, NoTarget
  <2> QED BY <1>1, <1>2, <2>2, <2>3, FileDigests DEF Digests
<1> DEFINE signed == Get(manifest, "signed")
           parts == Get(signed, "ecu_version_manifests")[2]
           ir == Get(signed, "installation_report")
           report == Get(ir, "report")
<1> HIDE DEF cid, image, success
<1>6. /\ SignedFor(manifest, PubOf.a)
      /\ DOMAIN parts = 1 .. (IF sec.present THEN 2 ELSE 1)
      /\ \A i \in DOMAIN parts : /\ SignedFor(parts[i][2], PubOf.a)
                                 /\ Get(Get(parts[i][2], "signed"), "ecu_serial")[2] = parts[i][1]
      /\ parts[1][1] = <<"ecu1">> /\ (sec.present => parts[2][1] = sec.ecu)
      /\ ir = <<"null">> <=> cid = <<>> /\ ~ofSecondary
      /\ ir # <<"null">> =>
           /\ Get(Get(report, "items")[2][1], "ecu")[2] = IF ofSecondary THEN sec.ecu ELSE <<"ecu1">>
           /\ Get(report, "correlation_id")[2] = IF ofSecondary THEN sec.cid ELSE cid
           /\ Get(Get(report, "result"), "success")[2] = IF ofSecondary THEN sec.success ELSE success
  BY <1>2, <1>5, ManifestsAreScoped
<1>7. \A env : SignedFor(env, PubOf.a) <=> Verifies(env)
  BY DEF SignedFor, Verifies
<1> HIDE DEF manifest, signed, parts, ir, report
<1>8. {parts[i][1] : i \in DOMAIN parts} = {<<"ecu1">>} \cup (IF sec.present THEN {<<"ecu2">>} ELSE {})
  <2>1. CASE sec.present
    <3>1. DOMAIN parts = {1, 2} /\ parts[1][1] = <<"ecu1">> /\ parts[2][1] = <<"ecu2">>
      BY <1>2, <1>6, <2>1
    <3> QED BY <2>1, <3>1
  <2>2. CASE ~sec.present
    <3>1. DOMAIN parts = {1} /\ parts[1][1] = <<"ecu1">>
      BY <1>6, <2>2
    <3> QED BY <2>2, <3>1
  <2> QED BY <2>1, <2>2
<1>9. ir = <<"null">> <=> ~(call.cid = "set") /\ ~ofSecondary
  BY <1>3, <1>6
<1>10. ir # <<"null">> => /\ success = call.success
                          /\ ~ofSecondary => cid = <<"urn1">>
  BY <1>3, <1>9 DEF success
<1> DEFINE Scoped ==
             /\ Verifies(manifest)
             /\ {parts[i][1] : i \in DOMAIN parts} = {<<"ecu1">>} \cup (IF sec.present THEN {<<"ecu2">>} ELSE {})
             /\ \A i \in DOMAIN parts : /\ Verifies(parts[i][2])
                                        /\ Get(Get(parts[i][2], "signed"), "ecu_serial")[2] = parts[i][1]
             /\ ir = <<"null">> <=> ~(call.cid = "set") /\ ~ofSecondary
             /\ ir # <<"null">> =>
                  /\ Get(Get(report, "items")[2][1], "ecu")[2] = IF ofSecondary THEN <<"ecu2">> ELSE <<"ecu1">>
                  /\ Get(report, "correlation_id")[2] = IF ofSecondary THEN sec.cid ELSE <<"urn1">>
                  /\ Get(Get(report, "result"), "success")[2] = IF ofSecondary THEN sec.success ELSE call.success
<1>11. Scoped
  <2>1. ir # <<"null">> =>
          /\ Get(Get(report, "items")[2][1], "ecu")[2] = IF ofSecondary THEN <<"ecu2">> ELSE <<"ecu1">>
          /\ Get(report, "correlation_id")[2] = IF ofSecondary THEN sec.cid ELSE <<"urn1">>
          /\ Get(Get(report, "result"), "success")[2] = IF ofSecondary THEN sec.success ELSE call.success
    BY <1>2, <1>6, <1>10
  <2> QED BY <1>6, <1>7, <1>8, <1>9, <2>1
<1>12. Scoped => ReportScoped'
  BY <1>4 DEF ReportScoped, signed, parts, ir, report, Verifies
<1> QED BY <1>11, <1>12

\* An answer leaves the call as it was picked, and answers its own family.
LEMMA CallKept ==
  /\ [Next]_vars => call' = call
  /\ SerialiseTwo => call.family = "text"
  /\ SelectAndCosign => call.family = "cosign"
  /\ CheckALink => call.family = "link"
  /\ Report => call.family = "report"
  /\ VerifyARole => call.family = "role"
  /\ VerifyABrokenRole => call.family = "broken"
<1>1. VerifyARole => call' = call /\ call.family = "role"
  BY ONLY TRUE, Zenon DEF VerifyARole, Is
<1>2. ASSUME VerifyABrokenRole PROVE call' = call /\ call.family = "broken"
  BY ONLY VerifyABrokenRole DEF VerifyABrokenRole, Is
<1>3. SerialiseTwo => call' = call /\ call.family = "text"
  BY ONLY TRUE, Zenon DEF SerialiseTwo, Is
<1>4. SelectAndCosign => call' = call /\ call.family = "cosign"
  BY ONLY TRUE, Zenon DEF SelectAndCosign, Is
<1>5. CheckALink => call' = call /\ call.family = "link"
  BY ONLY TRUE, Zenon DEF CheckALink, Is
<1>6. Report => call' = call /\ call.family = "report"
  BY ONLY TRUE, Zenon DEF Report, Is
<1>7. UNCHANGED vars => call' = call
  BY ONLY TRUE DEF vars
<1> QED BY ONLY <1>1, <1>2, <1>3, <1>4, <1>5, <1>6, <1>7 DEF Next

\* The two properties hold of an answered call because of what the call was
\* picked as, so the invariant carries that too.
CasesInv == CallKinds /\ PinsAreExact /\ ReportScoped

\* It is inductive: one step per family of calls.
LEMMA CasesHold == Spec => []CasesInv
<1>1. Init => CasesInv
  <2> SUFFICES ASSUME Init PROVE CasesInv
    OBVIOUS
  <2>1. out = Pending /\ CallKinds
    BY KindsOfCalls DEF Init
  <2> QED BY <2>1 DEF CasesInv, PinsAreExact, ReportScoped, Answered
<1>2. CasesInv /\ [Next]_vars => CasesInv'
  <2> SUFFICES ASSUME CasesInv, [Next]_vars PROVE CasesInv'
    OBVIOUS
  <2>1. \A family : Is(family) => call' = call /\ call.family = family
    BY DEF Is
  <2>2. ASSUME Next PROVE CallKinds' /\ call' = call
    <3>1. call' = call
      BY <2>2, CallKept
    <3> QED BY <3>1 DEF CasesInv, CallKinds
  <2>3. ASSUME call' = call, call.family \notin {"cosign", "link"} PROVE PinsAreExact'
    BY <2>3 DEF PinsAreExact, Answered
  <2>4. ASSUME call' = call, call.family # "report" PROVE ReportScoped'
    BY <2>4 DEF ReportScoped, Answered
  <2>5. CASE VerifyARole \/ VerifyABrokenRole \/ SerialiseTwo
    <3>1. call.family \in {"role", "broken", "text"}
      BY <2>1, <2>5 DEF VerifyARole, VerifyABrokenRole, SerialiseTwo
    <3>2. Next
      BY <2>5 DEF Next
    <3> QED BY <2>2, <2>3, <2>4, <3>1, <3>2 DEF CasesInv
  <2>6. ASSUME NEW c, c \in ReportCalls PROVE c.family = "report"
    BY <2>6 DEF ReportCalls
  <2>7. ASSUME NEW c, c \in LinkCalls PROVE c.family = "link"
    BY <2>7 DEF LinkCalls
  <2>8. ASSUME NEW c, c \in CosignCalls PROVE c.family = "cosign"
    BY <2>8, CosignShapes
  <2>9. CASE SelectAndCosign
    <3>1. call.family = "cosign"
      BY <2>1, <2>9 DEF SelectAndCosign
    <3>2. call \in CosignCalls
      BY <2>6, <2>7, <3>1 DEF CasesInv, CallKinds
    <3>3. Next
      BY <2>9 DEF Next
    <3> QED BY <2>2, <2>4, <2>9, <3>1, <3>2, <3>3, CosignStep DEF CasesInv
  <2>10. CASE CheckALink
    <3>1. call.family = "link"
      BY <2>1, <2>10 DEF CheckALink
    <3>2. call \in LinkCalls
      BY <2>6, <2>8, <3>1 DEF CasesInv, CallKinds
    <3>3. Next
      BY <2>10 DEF Next
    <3> QED BY <2>2, <2>4, <2>10, <3>1, <3>2, <3>3, LinkStep DEF CasesInv
  <2>11. CASE Report
    <3>1. call.family = "report"
      BY <2>1, <2>11 DEF Report
    <3>2. call \in ReportCalls
      BY <2>7, <2>8, <3>1 DEF CasesInv, CallKinds
    <3>3. Next
      BY <2>11 DEF Next
    <3> QED BY <2>2, <2>3, <2>11, <3>1, <3>2, <3>3, ReportStep DEF CasesInv
  <2>12. CASE UNCHANGED vars
    <3>1. call' = call /\ out' = out
      BY <2>12 DEF vars
    <3>2. CallKinds' /\ (Answered("report")' <=> Answered("report"))
      BY <3>1 DEF CasesInv, CallKinds, Answered
    <3>3. PinsAreExact'
      BY <3>1 DEF CasesInv, PinsAreExact, Chosen, Agreed, Answered
    <3>4. ReportScoped'
      BY <3>1 DEF CasesInv, ReportScoped, Answered, Verifies
    <3> QED BY <3>2, <3>3, <3>4 DEF CasesInv
  <2> QED BY <2>5, <2>9, <2>10, <2>11, <2>12 DEF Next
<1> QED BY <1>1, <1>2, PTL DEF Spec

\* SAFETY.  PinsAreExact for every digest length: the calls of
\* akt_select_target, akt_image_target_matches and akt_verify_meta_link accept
\* exactly the targets and files that the documents they were given describe.
THEOREM PinsHold == Spec => []PinsAreExact
BY CasesHold, PTL DEF CasesInv

\* SAFETY.  ReportScoped for every digest length and every alphabet: a
\* manifest's parts and its installation report are those of the ECUs the call
\* named, each signed.
THEOREM ReportsHold == Spec => []ReportScoped
BY CasesHold, PTL DEF CasesInv

-----------------------------------------------------------------------------
(* The canonical text. *)

\* The texts of the leaves.
LeafTexts == {<<>>, <<"a">>, <<Quote>>, <<"\\">>, <<"LF">>, <<"SOH">>,
              <<"\\", "n">>, <<"\\", Quote>>, <<"1", "2">>, <<"n", "u", "l", "l">>,
              <<"a", Quote, Comma, Quote, "a">>}
\* They are short texts.
LEMMA LeafTextsAreTexts == \A t \in LeafTexts : t \in Texts /\ Len(t) <= 5
<1>1. {Quote, Comma, "\\", "LF", "SOH", "a", "n", "u", "l", "1", "2"} \subseteq Characters
  BY MarksAreCharacters, CasesAssumption
<1>2. \A a, b, c, d, e \in Characters :
        /\ <<>> \in Texts /\ Len(<<>>) <= 5
        /\ <<a>> \in Texts /\ Len(<<a>>) <= 5
        /\ <<a, b>> \in Texts /\ Len(<<a, b>>) <= 5
        /\ <<a, b, c, d>> \in Texts /\ Len(<<a, b, c, d>>) <= 5
        /\ <<a, b, c, d, e>> \in Texts /\ Len(<<a, b, c, d, e>>) <= 5
  BY DEF Texts
<1> DEFINE Small(t) == t \in Texts /\ Len(t) <= 5
<1>3. /\ Small(<<>>) /\ Small(<<"a">>) /\ Small(<<Quote>>) /\ Small(<<"\\">>) /\ Small(<<"LF">>) /\ Small(<<"SOH">>)
      /\ Small(<<"\\", "n">>) /\ Small(<<"\\", Quote>>) /\ Small(<<"1", "2">>)
      /\ Small(<<"n", "u", "l", "l">>) /\ Small(<<"a", Quote, Comma, Quote, "a">>)
  BY <1>1, <1>2
<1> HIDE DEF Small
<1>4. \A t \in LeafTexts : Small(t)
  BY <1>3, Zenon DEF LeafTexts
<1> QED BY <1>4 DEF Small

\* A leaf is a document of at most 32 symbols.
LEMMA LeafLength == \A d \in Leaves : d \in Scalars /\ Len(Emit(d)) \in 0 .. 32
<1>1. ASSUME NEW d \in Leaves
      PROVE  \/ d = <<"null">> \/ d = <<"bool", TRUE>> \/ d = <<"bool", FALSE>>
             \/ \E n \in {0, 12, -1} : d = <<"num", n>>
             \/ \E t \in LeafTexts : d = <<"str", t>>
  BY <1>1, Zenon DEF Leaves, LeafTexts, Quote, Comma
<1>2. Scalars \subseteq Docs
  BY CasesAssumption, CanonicalAssumption, TreesGrow, TreesEquation DEF Docs
<1> SUFFICES ASSUME NEW d \in Leaves PROVE d \in Scalars /\ Len(Emit(d)) \in 0 .. 32
  OBVIOUS
<1>3. CASE d = <<"null">> \/ d = <<"bool", TRUE>> \/ d = <<"bool", FALSE>>
  <2>1. d \in Scalars /\ d[1] \in {"null", "bool"}
    <3>1. CASE d = <<"null">>
      BY <3>1 DEF Scalars
    <3>2. CASE \E b \in BOOLEAN : d = <<"bool", b>>
      BY <3>2 DEF Scalars
    <3>3. TRUE \in BOOLEAN /\ FALSE \in BOOLEAN
      OBVIOUS
    <3> QED BY <1>3, <3>1, <3>2, <3>3, Zenon
  <2>2. \/ Emit(d) = <<"n", "u", "l", "l">> \/ Emit(d) = <<"t", "r", "u", "e">>
        \/ Emit(d) = <<"f", "a", "l", "s", "e">>
    BY <1>2, <2>1, TextOf
  <2> QED BY <2>1, <2>2, WordTexts
<1>4. CASE \E n \in {0, 12, -1} : d = <<"num", n>>
  <2>1. PICK n \in {0, 12, -1} : d = <<"num", n>>
    BY <1>4
  <2>2. d \in Scalars /\ d[1] = "num" /\ d[2] = n
    BY <2>1 DEF Scalars
  <2>3. Emit(d) = WriteNumber(n)
    BY <1>2, <2>2, TextOf
  <2>4. Len(WriteNumber(n)) \in 1 .. 2
    <3>1. n \in -9 .. 99
      OBVIOUS
    <3> QED BY <3>1, NumberLength
  <2>5. Len(Emit(d)) \in 1 .. 2
    BY <2>3, <2>4, Zenon
  <2> QED BY <2>2, <2>5
<1>5. CASE \E t \in LeafTexts : d = <<"str", t>>
  <2>1. PICK t \in LeafTexts : d = <<"str", t>>
    BY <1>5
  <2>2. t \in Texts /\ Len(t) <= 5 /\ Len(t) \in Nat
    BY LeafTextsAreTexts, TextParts
  <2>3. d \in Scalars /\ d[1] = "str" /\ d[2] = t
    BY <2>1, <2>2 DEF Scalars
  <2>4. Emit(d) = WriteString(t)
    BY <1>2, <2>3, TextOf
  <2> DEFINE w == WriteString(t)
             n == Len(w)
             m == Len(t)
  <2>5. n \in Nat /\ n <= 6 * m + 2 /\ m \in Nat /\ m <= 5
    BY <2>2, StringLength
  <2>6. Emit(d) = w
    BY <2>4
  <2> HIDE DEF n, m
  <2>7. n \in 0 .. 32
    BY <2>5
  <2>8. Len(Emit(d)) = n
    BY <2>6, Zenon DEF n
  <2> QED BY <2>3, <2>7, <2>8
<1> QED BY <1>1, <1>3, <1>4, <1>5

\* The documents that may be parts are documents.
LEMMA TreesAreDocs ==
  /\ Trees(0) \subseteq Docs /\ Trees(1) \subseteq Docs /\ Trees(2) \subseteq Docs
  /\ Trees(0) \subseteq Trees(1) /\ Trees(1) \subseteq Trees(2) /\ Trees(0) = Scalars
  /\ Trees(1) = Trees(0) \cup Arrays(Trees(0)) \cup Objects(Trees(0))
  /\ Trees(2) = Trees(1) \cup Arrays(Trees(1)) \cup Objects(Trees(1))
<1>1. Nesting \in Nat /\ 0 <= Nesting /\ 1 <= Nesting /\ 2 <= Nesting
  BY CasesAssumption, CanonicalAssumption
<1>2. Trees(0) \subseteq Docs /\ Trees(1) \subseteq Docs /\ Trees(2) \subseteq Docs
  BY <1>1, TreesGrow DEF Docs
<1>3. 0 + 1 = 1 /\ 1 + 1 = 2
  OBVIOUS
<1>4. /\ Trees(0 + 1) = Trees(0) \cup Arrays(Trees(0)) \cup Objects(Trees(0))
      /\ Trees(1 + 1) = Trees(1) \cup Arrays(Trees(1)) \cup Objects(Trees(1))
  BY TreesEquation
<1> QED BY <1>2, <1>3, <1>4, TreesEquation, Zenon

\* An array of at most two documents.
LEMMA ArrayFits ==
  ASSUME NEW S, NEW s \in Seq(S), Arrays(S) \subseteq Docs,
         NEW B \in Nat, \A x \in S : Len(Emit(x)) <= B
  PROVE  /\ <<"arr", s>> \in Arrays(S) /\ Len(Emit(<<"arr", s>>)) \in Nat
         /\ Len(s) <= 1 => Len(Emit(<<"arr", s>>)) <= B + 2
         /\ Len(s) <= 2 => Len(Emit(<<"arr", s>>)) <= 2 * B + 3
<1> DEFINE v == <<"arr", s>>
<1>1. v \in Arrays(S) /\ v \in Docs /\ v[1] = "arr" /\ v[2] = s
  BY DEF Arrays
<1>2. PartsOf(v) \subseteq S
  BY <1>1 DEF PartsOf, IsArray
<1> HIDE DEF v
<1>3. /\ Len(Emit(v)) \in Nat
      /\ Len(v[2]) <= 1 => Len(Emit(v)) <= B + 2
      /\ Len(v[2]) <= 2 => Len(Emit(v)) <= 2 * B + 3
  BY <1>1, <1>2, ArrayLength
<1> QED BY <1>1, <1>3, Zenon DEF v

\* An object of at most two documents under short keys.
LEMMA ObjectFits ==
  ASSUME NEW S, NEW s \in Seq(Texts \X S), DistinctKeys(s), Objects(S) \subseteq Docs,
         NEW B \in Nat, \A x \in S : Len(Emit(x)) <= B,
         \A i \in DOMAIN s : Len(s[i][1]) <= 2
  PROVE  /\ <<"obj", s>> \in Objects(S) /\ Len(Emit(<<"obj", s>>)) \in Nat
         /\ Len(s) <= 1 => Len(Emit(<<"obj", s>>)) <= B + 17
         /\ Len(s) <= 2 => Len(Emit(<<"obj", s>>)) <= 2 * B + 33
<1> DEFINE v == <<"obj", s>>
<1>1. v \in Objects(S) /\ v \in Docs /\ v[1] = "obj" /\ v[2] = s
  BY DEF Objects
<1>2. \A i \in DOMAIN s : s[i][2] \in S
  OBVIOUS
<1>3. PartsOf(v) \subseteq S
  BY <1>1, <1>2 DEF PartsOf, IsArray, IsObject
<1>4. \A k \in ObjectKeys(v[2]) : Len(k) <= 2
  BY <1>1 DEF ObjectKeys
<1> HIDE DEF v
<1>5. /\ Len(Emit(v)) \in Nat
      /\ Len(v[2]) <= 1 => Len(Emit(v)) <= B + 17
      /\ Len(v[2]) <= 2 => Len(Emit(v)) <= 2 * B + 33
  BY <1>1, <1>3, <1>4, ObjectLength
<1> QED BY <1>1, <1>5, Zenon DEF v

\* The keys of the documents.
LEMMA KeysFit ==
  \A k \in Keys \cup {<<"c">>} : k \in Texts /\ Len(k) <= 2
<1>1. {Quote, "a", "b", "c"} \subseteq Characters
  BY MarksAreCharacters, CasesAssumption
<1>2. \A a, b \in Characters : /\ <<a>> \in Texts /\ Len(<<a>>) <= 2
                               /\ <<a, b>> \in Texts /\ Len(<<a, b>>) <= 2
  BY DEF Texts
<1> DEFINE Small(k) == k \in Texts /\ Len(k) <= 2
<1>3. Small(<<"a">>) /\ Small(<<"b">>) /\ Small(<<"c">>) /\ Small(<<"a", "b">>) /\ Small(<<Quote>>)
  BY <1>1, <1>2
<1> HIDE DEF Small
<1>4. \A k \in Keys \cup {<<"c">>} : Small(k)
  BY <1>3, Zenon DEF Keys, Quote
<1> QED BY <1>4 DEF Small

\* The numbers 1 and 2.
LEMMA NumbersFit ==
  \A x \in {<<"num", 1>>, <<"num", 2>>} : x \in Trees(0) /\ Len(Emit(x)) \in 1 .. 2
<1>1. ASSUME NEW n \in {1, 2}
      PROVE  <<"num", n>> \in Trees(0) /\ Len(Emit(<<"num", n>>)) \in 1 .. 2
  <2> DEFINE x == <<"num", n>>
  <2>1. x \in Scalars /\ x[1] = "num" /\ x[2] = n
    BY DEF Scalars
  <2> HIDE DEF x
  <2>2. Emit(x) = WriteNumber(n) /\ x \in Trees(0)
    BY <2>1, TreesAreDocs, TextOf
  <2>3. Len(WriteNumber(n)) \in 1 .. 2
    <3>1. n \in -9 .. 99
      OBVIOUS
    <3> QED BY <3>1, NumberLength
  <2>4. Len(Emit(x)) \in 1 .. 2
    BY <2>2, <2>3, Zenon
  <2> QED BY <2>2, <2>4, Zenon DEF x
<1>2. 1 \in {1, 2} /\ 2 \in {1, 2}
  OBVIOUS
<1> QED BY <1>1, <1>2, Zenon

\* The parts of the small arrays and objects.
LEMMA FewFit ==
  \A x \in Few : x \in Trees(0) /\ Len(Emit(x)) <= 8
<1>1. <<"num", 1>> \in Trees(0) /\ Len(Emit(<<"num", 1>>)) <= 8
  <2> DEFINE x == <<"num", 1>>
             m == Len(Emit(x))
  <2>1. x \in Trees(0) /\ m \in 1 .. 2
    BY NumbersFit
  <2> HIDE DEF m
  <2>2. m <= 8
    BY <2>1
  <2> QED BY <2>1, <2>2 DEF m
<1>2. <<"str", <<"a">> >> \in Trees(0) /\ Len(Emit(<<"str", <<"a">> >>)) <= 8
  <2> DEFINE t == <<"a">>
             x == <<"str", t>>
  <2>1. t \in Texts /\ Len(t) = 1
    BY MarksAreCharacters, OneSymbol
  <2> HIDE DEF t
  <2>2. x \in Scalars /\ x[1] = "str" /\ x[2] = t
    BY <2>1 DEF Scalars
  <2> HIDE DEF x
  <2>3. Emit(x) = WriteString(t) /\ x \in Trees(0)
    BY <2>2, TreesAreDocs, TextOf
  <2>4. Len(WriteString(t)) <= 8
    <3> DEFINE m == Len(WriteString(t))
    <3>1. m \in Nat /\ m <= 6 * Len(t) + 2
      BY <2>1, StringLength
    <3> HIDE DEF m
    <3>2. m <= 8
      BY <2>1, <3>1
    <3> QED BY <3>2 DEF m
  <2>5. Len(Emit(x)) <= 8
    BY <2>3, <2>4, Zenon
  <2> QED BY <2>3, <2>5, Zenon DEF x, t
<1>3. \A x \in Few : x = <<"str", <<"a">> >> \/ x = <<"num", 1>>
  BY Zenon DEF Few
<1> QED BY <1>1, <1>2, <1>3, Zenon

\* A sequence of at most two elements.
LEMMA ShortSeqs ==
  ASSUME NEW S, NEW s \in SeqsTo(S, 2)
  PROVE  s \in Seq(S) /\ Len(s) <= 2
<1>1. PICK m \in 0 .. 2 : s \in [1 .. m -> S]
  BY DEF SeqsTo
<1> QED BY <1>1

\* The documents `Inner' has.
LEMMA InnerFit ==
  \A d \in Inner : /\ d \in Trees(1) /\ d = <<"obj", d[2]>> /\ Len(Emit(d)) \in Nat /\ Len(Emit(d)) <= 37
                   /\ <<"obj", Reverse(d[2])>> \in Trees(1)
                   /\ Len(Emit(<<"obj", Reverse(d[2])>>)) \in Nat
                   /\ Len(Emit(<<"obj", Reverse(d[2])>>)) <= 37
<1> DEFINE F == {<<"num", 1>>, <<"num", 2>>}
           Pair(k, l, m, n) == << <<k, <<"num", m>> >>, <<l, <<"num", n>> >> >>
<1>1. ASSUME NEW k \in Texts, NEW l \in Texts, k # l, Len(k) <= 2, Len(l) <= 2,
             NEW m \in {1, 2}, NEW n \in {1, 2}
      PROVE  /\ <<"obj", Pair(k, l, m, n)>> \in Trees(1)
             /\ Len(Emit(<<"obj", Pair(k, l, m, n)>>)) \in Nat
             /\ Len(Emit(<<"obj", Pair(k, l, m, n)>>)) <= 37
  <2> DEFINE s == Pair(k, l, m, n)
             v == <<"obj", s>>
  <2>1. <<"num", m>> \in F /\ <<"num", n>> \in F
    OBVIOUS
  <2> HIDE DEF F
  <2>2. /\ s \in Seq(Texts \X F) /\ DistinctKeys(s) /\ Len(s) = 2
        /\ \A i \in DOMAIN s : Len(s[i][1]) <= 2
    BY <1>1, <2>1 DEF DistinctKeys
  <2>3. F \subseteq Trees(0) /\ \A x \in F : Len(Emit(x)) <= 2
    <3>1. \A x \in F : x \in Trees(0) /\ Len(Emit(x)) \in 1 .. 2
      BY NumbersFit DEF F
    <3>2. \A z \in 1 .. 2 : z <= 2
      OBVIOUS
    <3> QED BY <3>1, <3>2, Zenon
  <2>4. Objects(F) \subseteq Trees(1) /\ Trees(1) \subseteq Docs
    BY <2>3, TreesAreDocs DEF Objects
  <2> HIDE DEF s
  <2>5. /\ v \in Objects(F) /\ Len(Emit(v)) \in Nat /\ Len(Emit(v)) <= 2 * 2 + 33
    <3>1. 2 \in Nat /\ Len(s) <= 2 /\ Objects(F) \subseteq Docs
      BY <2>2, <2>4
    <3> QED BY <3>1, <2>2, <2>3, ObjectFits, Zenon
  <2> HIDE DEF v
  <2>6. v \in Trees(1) /\ Len(Emit(v)) \in Nat /\ Len(Emit(v)) <= 37
    BY <2>4, <2>5
  <2> QED BY <2>6 DEF v, s
<1>2. ASSUME NEW d \in Inner
      PROVE  \E k \in {<<"a">>, <<"b">>}, l \in {<<"c">>, <<"a", "b">>} : d = <<"obj", Pair(k, l, 1, 2)>>
  <2> DEFINE v(k, l) == <<"obj", Pair(k, l, 1, 2)>>
  <2>1. Inner = {v(k, l) : k \in {<<"a">>, <<"b">>}, l \in {<<"c">>, <<"a", "b">>}}
    BY DEF Inner
  <2> HIDE DEF v
  <2>2. \E k \in {<<"a">>, <<"b">>}, l \in {<<"c">>, <<"a", "b">>} : d = v(k, l)
    BY <1>2, <2>1
  <2> QED BY <2>2, Zenon DEF v
<1>3. ASSUME NEW k, NEW l, NEW m, NEW n
      PROVE  Reverse(Pair(k, l, m, n)) = Pair(l, k, n, m)
  <2>1. \A a, b : Reverse(<<a, b>>) = <<b, a>>
    BY DEF Reverse
  <2> QED BY <2>1
<1> SUFFICES ASSUME NEW d \in Inner
             PROVE  /\ d \in Trees(1) /\ d = <<"obj", d[2]>> /\ Len(Emit(d)) \in Nat /\ Len(Emit(d)) <= 37
                    /\ <<"obj", Reverse(d[2])>> \in Trees(1)
                    /\ Len(Emit(<<"obj", Reverse(d[2])>>)) \in Nat
                    /\ Len(Emit(<<"obj", Reverse(d[2])>>)) <= 37
  OBVIOUS
<1>4. PICK k \in {<<"a">>, <<"b">>}, l \in {<<"c">>, <<"a", "b">>} : d = <<"obj", Pair(k, l, 1, 2)>>
  BY <1>2
<1>5. k \in Keys /\ l \in Keys \cup {<<"c">>}
  BY Zenon DEF Keys
<1>6. k # l
  OBVIOUS
<1>7. k \in Texts /\ l \in Texts /\ Len(k) <= 2 /\ Len(l) <= 2
  BY <1>5, KeysFit
<1> DEFINE p == Pair(k, l, 1, 2)
           q == Pair(l, k, 2, 1)
<1>8. d = <<"obj", p>> /\ d[2] = p /\ Reverse(p) = q
  BY <1>3, <1>4
<1>9. 1 \in {1, 2} /\ 2 \in {1, 2} /\ l # k
  BY <1>6
<1>10. /\ <<"obj", p>> \in Trees(1) /\ Len(Emit(<<"obj", p>>)) \in Nat /\ Len(Emit(<<"obj", p>>)) <= 37
       /\ <<"obj", q>> \in Trees(1) /\ Len(Emit(<<"obj", q>>)) \in Nat /\ Len(Emit(<<"obj", q>>)) <= 37
  BY <1>1, <1>6, <1>7, <1>9, Zenon
<1> HIDE DEF p, q
<1> QED BY <1>8, <1>10, Zenon

\* Every document is serialised within 63 symbols.
LEMMA DocumentsFit ==
  \A d \in Documents : d \in Docs /\ Len(Emit(d)) \in 0 .. 63
<1> DEFINE Small(d) == d \in Docs /\ Len(Emit(d)) \in 0 .. 63
<1>0. ASSUME NEW d, NEW B \in 0 .. 63, d \in Docs, Len(Emit(d)) \in Nat, Len(Emit(d)) <= B
      PROVE  Small(d)
  <2> DEFINE m == Len(Emit(d))
  <2>1. m \in Nat /\ m <= B
    BY <1>0
  <2> HIDE DEF m
  <2>2. m \in 0 .. 63
    BY <2>1
  <2> QED BY <1>0, <2>2 DEF m
<1>1. ASSUME NEW d \in Leaves
      PROVE  d \in Trees(0) /\ Len(Emit(d)) \in Nat /\ Len(Emit(d)) <= 32
  <2>1. d \in Scalars /\ Len(Emit(d)) \in 0 .. 32
    BY LeafLength
  <2>2. \A m \in 0 .. 32 : m \in Nat /\ m <= 32
    OBVIOUS
  <2> QED BY <2>1, <2>2, TreesAreDocs, Zenon
<1>12. 8 \in Nat /\ 32 \in Nat /\ 37 \in Nat
  OBVIOUS
<1>2. /\ {32, 34, 19, 49, 37, 39, 54} \subseteq 0 .. 63
      /\ 32 + 2 = 34 /\ 2 * 8 + 3 = 19 /\ 2 * 8 + 33 = 49 /\ 37 + 2 = 39 /\ 37 + 17 = 54
  OBVIOUS
<1>3. ASSUME NEW S, S \subseteq Trees(1)
      PROVE  Arrays(S) \subseteq Docs /\ Objects(S) \subseteq Docs
  <2>1. Arrays(S) \subseteq Arrays(Trees(1))
    BY <1>3 DEF Arrays
  <2>2. Objects(S) \subseteq Objects(Trees(1))
    BY <1>3 DEF Objects
  <2> QED BY <2>1, <2>2, TreesAreDocs
<1>4. ASSUME NEW d \in Leaves PROVE Small(d)
  <2> HIDE DEF Small
  <2> QED BY <1>0, <1>1, <1>2, TreesAreDocs
<1>5. ASSUME NEW l \in Leaves PROVE Small(<<"arr", <<l>> >>)
  <2> DEFINE S == Leaves
             s == <<l>>
             v == <<"arr", s>>
  <2>1. S \subseteq Trees(1) /\ \A x \in S : Len(Emit(x)) <= 32
    BY <1>1, TreesAreDocs
  <2>2. s \in Seq(S) /\ Len(s) <= 1
    OBVIOUS
  <2> HIDE DEF S, s
  <2>3. Arrays(S) \subseteq Docs
    BY <1>3, <2>1
  <2>4. v \in Docs /\ Len(Emit(v)) \in Nat /\ Len(Emit(v)) <= 34
    <3>1. v \in Arrays(S) /\ Len(Emit(v)) \in Nat /\ Len(Emit(v)) <= 32 + 2
      BY <1>12, <2>1, <2>2, <2>3, ArrayFits, Zenon
    <3>2. 32 + 2 = 34
      OBVIOUS
    <3> QED BY <3>1, <3>2, <2>3, Zenon
  <2> HIDE DEF v, Small
  <2>5. Small(v)
    BY <1>0, <1>2, <2>4
  <2> QED BY <2>5 DEF v, s
<1>6. ASSUME NEW s \in SeqsTo(Few, 2) PROVE Small(<<"arr", s>>)
  <2> DEFINE v == <<"arr", s>>
  <2>1. Few \subseteq Trees(1) /\ \A x \in Few : Len(Emit(x)) <= 8
    BY FewFit, TreesAreDocs
  <2>2. s \in Seq(Few) /\ Len(s) <= 2 /\ Arrays(Few) \subseteq Docs
    BY <1>3, <2>1, ShortSeqs
  <2>3. v \in Docs /\ Len(Emit(v)) \in Nat /\ Len(Emit(v)) <= 19
    <3>1. v \in Arrays(Few) /\ Len(Emit(v)) \in Nat /\ Len(Emit(v)) <= 2 * 8 + 3
      BY <1>12, <2>1, <2>2, ArrayFits, Zenon
    <3>2. 2 * 8 + 3 = 19
      OBVIOUS
    <3> QED BY <3>1, <3>2, <2>2, Zenon
  <2> HIDE DEF v, Small
  <2>4. Small(v)
    BY <1>0, <1>2, <2>3
  <2> QED BY <2>4 DEF v
<1>7. ASSUME NEW s \in SeqsTo(Keys \X Few, 2), DistinctKeys(s) PROVE Small(<<"obj", s>>)
  <2> DEFINE v == <<"obj", s>>
  <2>1. Few \subseteq Trees(1) /\ \A x \in Few : Len(Emit(x)) <= 8
    BY FewFit, TreesAreDocs
  <2>2. s \in Seq(Keys \X Few) /\ Len(s) <= 2 /\ Objects(Few) \subseteq Docs
    BY <1>3, <2>1, ShortSeqs
  <2>3. Keys \subseteq Texts /\ \A k \in Keys : Len(k) <= 2
    BY KeysFit
  <2>4. Keys \X Few \subseteq Texts \X Few
    BY <2>3
  <2>5. s \in Seq(Texts \X Few) /\ \A i \in DOMAIN s : Len(s[i][1]) <= 2
    BY <2>2, <2>3, <2>4
  <2>6. v \in Docs /\ Len(Emit(v)) \in Nat /\ Len(Emit(v)) <= 49
    <3>1. v \in Objects(Few) /\ Len(Emit(v)) \in Nat /\ Len(Emit(v)) <= 2 * 8 + 33
      BY <1>12, <1>7, <2>1, <2>2, <2>5, ObjectFits, Zenon
    <3>2. 2 * 8 + 33 = 49
      OBVIOUS
    <3> QED BY <3>1, <3>2, <2>2, Zenon
  <2> HIDE DEF v, Small
  <2>7. Small(v)
    BY <1>0, <1>2, <2>6
  <2> QED BY <2>7 DEF v
<1>8. ASSUME NEW d \in Inner
      PROVE  Small(d) /\ Small(<<"obj", Reverse(d[2])>>)
  <2> HIDE DEF Small
  <2>1. /\ d \in Docs /\ Len(Emit(d)) \in Nat /\ Len(Emit(d)) <= 37
        /\ <<"obj", Reverse(d[2])>> \in Docs
        /\ Len(Emit(<<"obj", Reverse(d[2])>>)) \in Nat
        /\ Len(Emit(<<"obj", Reverse(d[2])>>)) <= 37
    BY InnerFit, TreesAreDocs
  <2>2. 37 \in 0 .. 63
    OBVIOUS
  <2> QED BY <1>0, <2>1, <2>2, Zenon
<1>9. ASSUME NEW d \in Inner
      PROVE  Small(<<"arr", <<d>> >>) /\ Small(<<"obj", << <<<<"a">>, d>> >> >>)
  <2> DEFINE S == Inner
             s == <<d>>
             t == << <<<<"a">>, d>> >>
             v == <<"arr", s>>
             w == <<"obj", t>>
  <2>1. S \subseteq Trees(1) /\ \A x \in S : Len(Emit(x)) <= 37
    BY InnerFit
  <2>2. <<"a">> \in Texts /\ Len(<<"a">>) <= 2
    BY MarksAreCharacters, OneSymbol
  <2>3. /\ s \in Seq(S) /\ Len(s) <= 1
        /\ t \in Seq(Texts \X S) /\ Len(t) <= 1 /\ DistinctKeys(t)
        /\ \A i \in DOMAIN t : Len(t[i][1]) <= 2
    BY <2>2 DEF DistinctKeys
  <2> HIDE DEF S, s, t
  <2>4. Arrays(S) \subseteq Docs /\ Objects(S) \subseteq Docs
    BY <1>3, <2>1
  <2>5. v \in Docs /\ Len(Emit(v)) \in Nat /\ Len(Emit(v)) <= 39
    <3>1. v \in Arrays(S) /\ Len(Emit(v)) \in Nat /\ Len(Emit(v)) <= 37 + 2
      BY <1>12, <2>1, <2>3, <2>4, ArrayFits, Zenon
    <3>2. 37 + 2 = 39
      OBVIOUS
    <3> QED BY <3>1, <3>2, <2>4, Zenon
  <2>6. w \in Docs /\ Len(Emit(w)) \in Nat /\ Len(Emit(w)) <= 54
    <3>1. w \in Objects(S) /\ Len(Emit(w)) \in Nat /\ Len(Emit(w)) <= 37 + 17
      BY <1>12, <2>1, <2>3, <2>4, ObjectFits, Zenon
    <3>2. 37 + 17 = 54
      OBVIOUS
    <3> QED BY <3>1, <3>2, <2>4, Zenon
  <2> HIDE DEF v, w, Small
  <2>7. Small(v) /\ Small(w)
    BY <1>0, <1>2, <2>5, <2>6
  <2> QED BY <2>7, Zenon DEF v, w, s, t
<1> HIDE DEF Small
<1>10. /\ \A d \in ArraysOf(Few) : Small(d)
       /\ \A d \in ObjectsOf(Few) : Small(d)
  BY <1>6, <1>7, Zenon DEF ArraysOf, ObjectsOf, DistinctKeys
<1>11. \A d \in Documents : Small(d)
  BY <1>4, <1>5, <1>8, <1>9, <1>10, Zenon DEF Documents
<1> QED BY <1>11 DEF Small

\* What the calls to serialise two documents are made from, and what they find.
TextInv == (call.family = "text" => call \in TextCalls) /\ CanonicalDecides
\* A call that serialises decides.
LEMMA TextStep ==
  ASSUME call \in TextCalls, SerialiseTwo
  PROVE  CanonicalDecides'
<1>1. PICK d \in Documents, e \in Documents : call = [family |-> "text", one |-> d, two |-> e]
  BY DEF TextCalls
<1>2. call.one = d /\ call.two = e
  BY <1>1
<1>3. ASSUME NEW x \in Documents
      PROVE  UptaneCanonicalJson(x, 64) = [err |-> "ESP_OK", text |-> Canonical(x)]
  <2>1. x \in Docs /\ Len(Emit(x)) \in 0 .. 63
    BY DocumentsFit
  <2>2. x # Missing
    BY <2>1, KindOf DEF Missing
  <2>3. Canonical(x) = Emit(x)
    BY <2>2 DEF Canonical
  <2> DEFINE m == Len(Emit(x))
  <2>4. m \in 0 .. 63
    BY <2>1
  <2> HIDE DEF m
  <2>5. ~(m + 1 > 64)
    BY <2>4
  <2>6. ~(Len(Canonical(x)) + 1 > 64)
    BY <2>3, <2>5, Zenon DEF m
  <2> QED BY <2>2, <2>6, Zenon DEF UptaneCanonicalJson
<1>4. out' = [err |-> "done", one |-> [err |-> "ESP_OK", text |-> Canonical(d)],
              two |-> [err |-> "ESP_OK", text |-> Canonical(e)]] /\ call' = call
  BY <1>2, <1>3, Zenon DEF SerialiseTwo, Is
<1>5. /\ out'.one.err = "ESP_OK" /\ out'.one.text = Canonical(d)
      /\ out'.two.err = "ESP_OK" /\ out'.two.text = Canonical(e)
      /\ call'.one = d /\ call'.two = e
  BY <1>2, <1>4
<1>6. Canonical(d) = Canonical(e) <=> Meaning(d) = Meaning(e)
  BY DocumentsFit, CanonicalDecidesMeaning
<1> QED BY <1>5, <1>6, Zenon DEF CanonicalDecides

\* SAFETY.  CanonicalDecides for every alphabet and every depth: of the calls of
\* aktualino_uptane_canonical_json, two documents have one text exactly when they
\* say the same, and every text fits the buffer.
THEOREM TextsDecide == Spec => []CanonicalDecides
<1>1. Init => TextInv
  <2> SUFFICES ASSUME Init PROVE TextInv
    OBVIOUS
  <2>1. ~Answered("text")
    BY DEF Init, Answered
  <2>2. CanonicalDecides
    BY <2>1 DEF CanonicalDecides
  <2>3. ASSUME call.family = "text" PROVE call \in TextCalls
    <3>1. \A c \in SignatureCalls \cup GateCalls : c.family = "role"
      BY RoleCalls
    <3>2. \A c \in BrokenCalls : c.family = "broken"
      BY DEF BrokenCalls
    <3>3. \A c \in CosignCalls : c.family = "cosign"
      BY CosignShapes
    <3>4. \A c \in LinkCalls : c.family = "link"
      BY DEF LinkCalls
    <3>5. \A c \in ReportCalls : c.family = "report"
      BY DEF ReportCalls
    <3> QED BY <2>3, <3>1, <3>2, <3>3, <3>4, <3>5 DEF Init
  <2> QED BY <2>2, <2>3 DEF TextInv
<1>2. TextInv /\ [Next]_vars => TextInv'
  <2> SUFFICES ASSUME TextInv, [Next]_vars PROVE TextInv'
    OBVIOUS
  <2>1. call' = call
    BY CallKept
  <2>2. CASE SerialiseTwo
    <3>1. call \in TextCalls
      BY <2>2 DEF SerialiseTwo, Is, TextInv
    <3> QED BY <2>1, <2>2, <3>1, TextStep DEF TextInv
  <2>3. CASE VerifyARole \/ VerifyABrokenRole \/ SelectAndCosign \/ CheckALink \/ Report
    <3>1. call.family # "text"
      BY <2>3, CallKept
    <3> QED BY <2>1, <3>1 DEF TextInv, CanonicalDecides, Answered
  <2>4. CASE UNCHANGED vars
    BY <2>4 DEF TextInv, CanonicalDecides, Answered, vars
  <2> QED BY <2>2, <2>3, <2>4 DEF Next
<1>3. TextInv => CanonicalDecides
  BY DEF TextInv
<1> QED BY <1>1, <1>2, <1>3, PTL DEF Spec

-----------------------------------------------------------------------------
\* RolesAreExact: the dates of the run, as they are written and as they are read.

\* What holds at the first number of an interval and, if at one, at the next,
\* holds in all of it.
LEMMA AlongInterval ==
  ASSUME NEW lo \in Int, NEW hi \in Int, NEW T, lo \in T, \A y \in lo + 1 .. hi : y - 1 \in T => y \in T
  PROVE  \A y \in lo .. hi : y \in T
<1> DEFINE F == {n \in Nat : lo + n <= hi /\ lo + n \notin T}
<1> SUFFICES ASSUME NEW z \in lo .. hi, z \notin T PROVE FALSE
  OBVIOUS
<1>1. z - lo \in F
  BY DEF F
<1>2. PICK n \in F : \A k \in F : n <= k
  <2>1. F \subseteq Nat /\ F # {}
    BY <1>1 DEF F
  <2> HIDE DEF F
  <2> QED BY <2>1, LeastExists
<1>3. n \in Nat /\ lo + n <= hi /\ lo + n \notin T
  BY <1>2 DEF F
<1>4. n # 0
  BY <1>3
<1>5. n - 1 \in Nat /\ lo + (n - 1) <= hi /\ ~(n <= n - 1)
  BY <1>3, <1>4
<1>6. lo + (n - 1) \in T
  BY <1>2, <1>5 DEF F
<1>7. lo + n \in lo + 1 .. hi /\ (lo + n) - 1 = lo + (n - 1)
  BY <1>3, <1>4
<1> QED BY <1>3, <1>6, <1>7

\* A year has 365 days or 366, and the months of a year follow each other.
LEMMA FirstDays ==
  /\ DaysFromCivil(1970, 1, 1) = 0
  /\ \A y \in Int : DaysFromCivil(y, 1, 1) = DaysFromCivil(y - 1, 1, 1) + IF Leap(y - 1) THEN 366 ELSE 365
  /\ \A y \in Int, m \in 2 .. 12 : DaysFromCivil(y, m, 1) = DaysFromCivil(y, m - 1, 1) + MonthDays(y, m - 1)
  /\ \A y \in Int, m \in 1 .. 12, d \in Int : DaysFromCivil(y, m, d) = DaysFromCivil(y, m, 1) + d - 1
<1>1. ASSUME NEW y \in Int
      PROVE  DaysFromCivil(y, 1, 1) = DaysFromCivil(y - 1, 1, 1) + IF Leap(y - 1) THEN 366 ELSE 365
  <2> DEFINE z == y - 1
  <2>0. z \in Int /\ z + 1 = y
    OBVIOUS
  <2> HIDE DEF z
  <2>1. DaysFromCivil(y, 1, 1) = YearBegins(y, 1) + MonthBegins(1) + 1
    BY ThreeParts
  <2>2. DaysFromCivil(z, 1, 1) = YearBegins(z, 1) + MonthBegins(1) + 1
    BY <2>0, ThreeParts
  <2>3. YearBegins(z, 1) = YearBegins(z, 2) /\ YearBegins(z + 1, 1) = YearBegins(z, 12) /\ YearBegins(z, 12) = YearBegins(z, 3)
    BY <2>0, YearBeginsInMarch
  <2>4. YearBegins(z, 3) = YearBegins(z, 2) + IF Leap(z) THEN 366 ELSE 365
    BY <2>0, YearLength
  <2>5. YearBegins(y, 1) \in Int /\ YearBegins(z, 1) \in Int /\ MonthBegins(1) \in Int
    BY <2>0, PartsAreNumbers
  <2>6. YearBegins(y, 1) = YearBegins(z, 1) + IF Leap(z) THEN 366 ELSE 365
    BY <2>0, <2>3, <2>4
  <2>7. DaysFromCivil(y, 1, 1) = DaysFromCivil(z, 1, 1) + IF Leap(z) THEN 366 ELSE 365
    BY <2>1, <2>2, <2>5, <2>6
  <2> QED BY <2>7 DEF z
<1>2. ASSUME NEW y \in Int, NEW m \in 2 .. 12
      PROVE  DaysFromCivil(y, m, 1) = DaysFromCivil(y, m - 1, 1) + MonthDays(y, m - 1)
  <2> DEFINE k == m - 1
  <2>0. k \in 1 .. 11 /\ k \in 1 .. 12 /\ k + 1 = m
    OBVIOUS
  <2> HIDE DEF k
  <2>1. DaysFromCivil(y, m, 1) = YearBegins(y, m) + MonthBegins(m) + 1
    BY ThreeParts
  <2>2. DaysFromCivil(y, k, 1) = YearBegins(y, k) + MonthBegins(k) + 1
    BY <2>0, ThreeParts
  <2>3. YearBegins(y, m) + MonthBegins(m) = YearBegins(y, k) + MonthBegins(k) + MonthDays(y, k)
    BY <2>0, MonthStarts
  <2>4. YearBegins(y, m) \in Int /\ MonthBegins(m) \in Int /\ YearBegins(y, k) \in Int /\ MonthBegins(k) \in Int
    <3>1. m \in Int /\ k \in Int
      BY <2>0
    <3> QED BY <3>1, PartsAreNumbers
  <2>5. MonthDays(y, k) \in Int
    BY <2>0, MonthLength
  <2>6. DaysFromCivil(y, m, 1) = DaysFromCivil(y, k, 1) + MonthDays(y, k)
    BY <2>1, <2>2, <2>3, <2>4, <2>5
  <2> QED BY <2>6 DEF k
<1>3. ASSUME NEW y \in Int, NEW m \in 1 .. 12, NEW d \in Int
      PROVE  DaysFromCivil(y, m, d) = DaysFromCivil(y, m, 1) + d - 1
  <2>1. DaysFromCivil(y, m, 1) = YearBegins(y, m) + MonthBegins(m) + 1
    BY ThreeParts
  <2>2. DaysFromCivil(y, m, d) = YearBegins(y, m) + MonthBegins(m) + d
    BY ThreeParts
  <2>3. YearBegins(y, m) \in Int /\ MonthBegins(m) \in Int
    BY PartsAreNumbers
  <2> QED BY <2>1, <2>2, <2>3
<1>4. DaysFromCivil(1970, 1, 1) = 0
  BY DaysAreCounted
<1> QED BY <1>1, <1>2, <1>3, <1>4

\* One step of the reference: the days before a year, and before a month.
YearStep(f, y) == IF y = 1970 THEN 0 ELSE f[y - 1] + IF Leap(y - 1) THEN 366 ELSE 365
\* The days before a month of year Y, b being those before the year.
MonthStep(Y, b, f, m) == IF m = 1 THEN b ELSE f[m - 1] + MonthDays(Y, m - 1)

\* days_from_civil counts the days year by year and month by month, as the
\* reference does.
LEMMA DaysCounted ==
  ASSUME NEW d, d[1] \in Int, d[1] >= 1970, d[2] \in 1 .. 12, d[3] \in Int
  PROVE  DayNumber(d) = DaysFromCivil(d[1], d[2], d[3])
<1> DEFINE Y == d[1]
           M == d[2]
           yearOf(f) == [y \in 1970 .. Y |-> YearStep(f, y)]
           year == CHOOSE f : f = yearOf(f)
           monthOf(b, f) == [m \in 1 .. M |-> MonthStep(Y, b, f, m)]
           month == CHOOSE f : f = monthOf(year[Y], f)
           gy == [y \in 1970 .. Y |-> DaysFromCivil(y, 1, 1)]
           gm == [m \in 1 .. M |-> DaysFromCivil(Y, m, 1)]
<1>1. DayNumber(d) = month[M] + d[3] - 1
  BY DEF DayNumber, YearStep, MonthStep
<1>2. gy = yearOf(gy)
  <2>1. ASSUME NEW y \in 1970 .. Y
        PROVE  gy[y] = YearStep(gy, y)
    <3>1. CASE y = 1970
      BY <3>1, FirstDays DEF YearStep
    <3>2. CASE y # 1970
      <4>1. y - 1 \in 1970 .. Y /\ y \in Int
        BY <3>2
      <4>2. gy[y] = DaysFromCivil(y, 1, 1) /\ gy[y - 1] = DaysFromCivil(y - 1, 1, 1)
        BY <4>1
      <4> HIDE DEF gy
      <4> QED BY <3>2, <4>1, <4>2, FirstDays DEF YearStep
    <3> QED BY <3>1, <3>2
  <2>2. gy = [y \in 1970 .. Y |-> gy[y]]
    OBVIOUS
  <2> HIDE DEF gy
  <2> QED BY <2>1, <2>2
<1>3. year = yearOf(year)
  <2> HIDE DEF gy, yearOf
  <2> QED BY <1>2
<1>4. year[Y] = DaysFromCivil(Y, 1, 1)
  <2> DEFINE T == {y \in 1970 .. Y : year[y] = DaysFromCivil(y, 1, 1)}
  <2> HIDE DEF year
  <2>1. 1970 \in T
    BY <1>3, FirstDays DEF YearStep
  <2>2. \A y \in 1970 + 1 .. Y : y - 1 \in T => y \in T
    <3> SUFFICES ASSUME NEW y \in 1970 + 1 .. Y, y - 1 \in T PROVE y \in T
      OBVIOUS
    <3>1. y \in Int /\ y \in 1970 .. Y /\ y # 1970
      OBVIOUS
    <3>2. year[y] = year[y - 1] + IF Leap(y - 1) THEN 366 ELSE 365
      BY <1>3, <3>1 DEF YearStep
    <3> QED BY <3>1, <3>2, FirstDays
  <2>3. \A y \in 1970 .. Y : y \in T
    <3> HIDE DEF T, Y
    <3>1. 1970 \in Int /\ Y \in Int
      BY DEF Y
    <3> QED BY <2>1, <2>2, <3>1, AlongInterval
  <2> QED BY <2>3
<1> DEFINE b == year[Y]
<1>5. gm = monthOf(b, gm)
  <2>0. b = DaysFromCivil(Y, 1, 1)
    BY <1>4
  <2>1. ASSUME NEW m \in 1 .. M
        PROVE  gm[m] = MonthStep(Y, b, gm, m)
    <3> HIDE DEF year, b
    <3>1. CASE m = 1
      BY <2>0, <3>1 DEF MonthStep
    <3>2. CASE m # 1
      <4>1. m - 1 \in 1 .. M /\ m \in 2 .. 12
        BY <3>2
      <4>2. gm[m] = DaysFromCivil(Y, m, 1) /\ gm[m - 1] = DaysFromCivil(Y, m - 1, 1)
        BY <4>1
      <4> HIDE DEF gm
      <4> QED BY <3>2, <4>1, <4>2, FirstDays DEF MonthStep
    <3> QED BY <3>1, <3>2
  <2>2. gm = [m \in 1 .. M |-> gm[m]]
    OBVIOUS
  <2> HIDE DEF gm, b
  <2> QED BY <2>1, <2>2
<1>6. month = monthOf(b, month)
  <2>1. month = CHOOSE f : f = monthOf(b, f)
    OBVIOUS
  <2> HIDE DEF gm, monthOf, month, b
  <2> QED BY <1>5, <2>1
<1>7. month[M] = DaysFromCivil(Y, M, 1)
  <2> DEFINE T == {m \in 1 .. M : month[m] = DaysFromCivil(Y, m, 1)}
  <2>0. b = DaysFromCivil(Y, 1, 1)
    BY <1>4
  <2> HIDE DEF month, b
  <2>1. 1 \in T
    BY <1>6, <2>0 DEF MonthStep
  <2>2. \A m \in 1 + 1 .. M : m - 1 \in T => m \in T
    <3> SUFFICES ASSUME NEW m \in 1 + 1 .. M, m - 1 \in T PROVE m \in T
      OBVIOUS
    <3>1. m \in 2 .. 12 /\ m \in 1 .. M /\ m # 1
      OBVIOUS
    <3>2. month[m] = month[m - 1] + MonthDays(Y, m - 1)
      BY <1>6, <3>1 DEF MonthStep
    <3>3. DaysFromCivil(Y, m, 1) = DaysFromCivil(Y, m - 1, 1) + MonthDays(Y, m - 1)
      BY <3>1, FirstDays
    <3> QED BY <3>1, <3>2, <3>3
  <2>3. \A m \in 1 .. M : m \in T
    <3> HIDE DEF T, M
    <3>1. 1 \in Int /\ M \in Int
      BY DEF M
    <3> QED BY <2>1, <2>2, <3>1, AlongInterval
  <2> QED BY <2>3
<1> HIDE DEF month, year, gm, gy
<1> QED BY <1>1, <1>7, FirstDays

\* The dates of the run are dates of the calendar.
LEMMA CallDates ==
  \A d \in Dates \cup {Noon} :
    /\ d[1] \in 1999 .. 2100 /\ d[2] \in 1 .. 12 /\ d[3] \in 1 .. MonthDays(d[1], d[2]) /\ d[4] \in 0 .. 23
<1> DEFINE Good(d) ==
      /\ d[1] \in 1999 .. 2100 /\ d[2] \in 1 .. 12 /\ d[3] \in 1 .. MonthDays(d[1], d[2]) /\ d[4] \in 0 .. 23
<1>0. ASSUME NEW y \in Int, NEW m \in 1 .. 12
      PROVE  /\ MonthDays(y, m) = IF m = 2 THEN (IF Leap(y) THEN 29 ELSE 28)
                                  ELSE IF m \in {4, 6, 9, 11} THEN 30 ELSE 31
             /\ MonthDays(y, m) \in 28 .. 31
  BY MonthLength
<1>1. ASSUME NEW y \in {1999, 2000, 2023, 2024, 2100}, NEW m \in {2, 3}, NEW k \in {1, 28}
      PROVE  Good(<<y, m, k, 0>>)
  <2>1. y \in 1999 .. 2100 /\ y \in Int /\ m \in 1 .. 12
    OBVIOUS
  <2>2. MonthDays(y, m) \in 28 .. 31
    BY <2>1, <1>0
  <2> QED BY <2>1, <2>2
<1>2. ASSUME NEW y \in {2000, 2024}, NEW h \in {0, 23}
      PROVE  Good(<<y, 2, 29, h>>)
  <2>1. y \in 1999 .. 2100 /\ y \in Int /\ Leap(y)
    BY DEF Leap
  <2>2. MonthDays(y, 2) = 29
    BY <2>1, <1>0
  <2> QED BY <2>1, <2>2
<1>3. ASSUME NEW y \in {1999, 2099}
      PROVE  Good(<<y, 12, 31, 23>>)
  <2>1. y \in 1999 .. 2100 /\ y \in Int
    OBVIOUS
  <2>2. MonthDays(y, 12) = 31
    BY <2>1, <1>0
  <2> QED BY <2>1, <2>2
<1>4. Good(<<2100, 1, 1, 0>>) /\ Good(<<2026, 1, 31, 12>>)
  <2>1. MonthDays(2100, 1) = 31 /\ MonthDays(2026, 1) = 31
    BY <1>0
  <2> QED BY <2>1
<1> HIDE DEF Good
<1>5. \A d \in Dates \cup {Noon} : Good(d)
  <2> DEFINE ends == {<<y, m, k, 0>> : y \in {1999, 2000, 2023, 2024, 2100}, m \in {2, 3}, k \in {1, 28}}
             leaps == {<<y, 2, 29, h>> : y \in {2000, 2024}, h \in {0, 23}}
             lasts == {<<y, 12, 31, 23>> : y \in {1999, 2099}}
  <2>1. Dates = ends \cup leaps \cup lasts \cup {<<2100, 1, 1, 0>>}
    BY ONLY TRUE DEF Dates
  <2>2. \A d \in ends : Good(d)
    BY ONLY <1>1
  <2>3. \A d \in leaps : Good(d)
    BY ONLY <1>2
  <2>4. \A d \in lasts : Good(d)
    BY ONLY <1>3
  <2>5. Noon = <<2026, 1, 31, 12>>
    BY DEF Noon
  <2> HIDE DEF ends, leaps, lasts
  <2> QED BY ONLY <1>4, <2>1, <2>2, <2>3, <2>4, <2>5
<1> QED BY <1>5 DEF Good

\* The digit of that weight in a decimal number.
Place(n, weight) == (n \div weight) % 10
\* A decimal digit, read back.
LEMMA DecimalRead ==
  ASSUME NEW n \in Nat, NEW w \in {1, 10, 100, 1000}
  PROVE  IsDecimal(Decimal(n, w)) /\ HexVal(Decimal(n, w)) = Place(n, w)
<1> DEFINE k == Place(n, w)
<1>1. k \in 0 .. 9
  BY DEF Place
<1>2. Decimal(n, w) = HexDigits[1 + k]
  BY DEF Decimal, Place
<1> HIDE DEF k
<1>3. 1 + k \in 1 .. 10 /\ 1 + k \in 1 .. 16 /\ (1 + k) - 1 = k
  BY <1>1
<1> QED BY <1>2, <1>3, ValueOfDigit DEF IsDecimal, k

\* A number of two decimal digits is what they say.
LEMMA TwoPlaces ==
  ASSUME NEW n \in 0 .. 99
  PROVE  10 * Place(n, 10) + Place(n, 1) = n
<1>1. n \in Nat /\ (n \div 10) % 10 = n \div 10 /\ n \div 10 \in Nat /\ (n \div 1) % 10 = n - 10 * (n \div 10)
  OBVIOUS
<1> QED BY <1>1 DEF Place

\* And one of four.
FourDigits(n) == 1000 * Place(n, 1000) + 100 * Place(n, 100) + (10 * Place(n, 10) + Place(n, 1))
FourDigitNumbers == 0 .. 9999
LEMMA FourPlaces ==
  ASSUME NEW n \in FourDigitNumbers
  PROVE  FourDigits(n) = n
<1>0. n \in 0 .. 9999
  BY DEF FourDigitNumbers
<1> DEFINE a == n \div 10
           b == n \div 100
           c == n \div 1000
<1>1. n \in Nat /\ a \in Nat /\ b \in Nat /\ c \in Nat
  BY <1>0
<1>2. (n \div 1) % 10 = n - 10 * a
  BY <1>0
<1>3. b = a \div 10
  BY <1>0
<1>4. c = b \div 10
  BY <1>0
<1>5. c <= 9
  BY <1>0, SMTT(30)
<1> HIDE DEF a, b, c
<1>6. a % 10 = a - 10 * b /\ b % 10 = b - 10 * c /\ c % 10 = c
  BY <1>1, <1>3, <1>4, <1>5
<1>7. 1000 * (c % 10) + 100 * (b % 10) + (10 * (a % 10) + (n - 10 * a)) = n
  BY <1>1, <1>6
<1> QED BY <1>2, <1>7 DEF a, b, c, Place, FourDigits

\* A text shows the date it was made from, when its numbers fit their places.
TwoDigitNumbers == 0 .. 99
FitsText(d) ==
  d[1] \in FourDigitNumbers /\ d[2] \in TwoDigitNumbers /\ d[3] \in TwoDigitNumbers /\ d[4] \in TwoDigitNumbers
LEMMA DateTextShows ==
  ASSUME NEW d, FitsText(d)
  PROVE  Layout(DateText(d)) /\ Shown(DateText(d)) = <<d[1], d[2], d[3], d[4], 0, 0>>
<1> DEFINE t == DateText(d)
           y == d[1]
           m == d[2]
           k == d[3]
           h == d[4]
<1>0. y \in 0 .. 9999 /\ m \in 0 .. 99 /\ k \in 0 .. 99 /\ h \in 0 .. 99
  <2>1. y \in FourDigitNumbers /\ m \in TwoDigitNumbers /\ k \in TwoDigitNumbers /\ h \in TwoDigitNumbers
    BY Zenon DEF FitsText
  <2> HIDE DEF y, m, k, h
  <2> QED BY ONLY <2>1 DEF FourDigitNumbers, TwoDigitNumbers
<1>1. /\ Len(t) = 20
      /\ t[1] = Decimal(y, 1000) /\ t[2] = Decimal(y, 100) /\ t[3] = Decimal(y, 10)
      /\ t[4] = Decimal(y, 1) /\ t[5] = "-" /\ t[6] = Decimal(m, 10) /\ t[7] = Decimal(m, 1)
      /\ t[8] = "-" /\ t[9] = Decimal(k, 10) /\ t[10] = Decimal(k, 1) /\ t[11] = "T"
      /\ t[12] = Decimal(h, 10) /\ t[13] = Decimal(h, 1) /\ t[14] = ":" /\ t[15] = "0" /\ t[16] = "0"
      /\ t[17] = ":" /\ t[18] = "0" /\ t[19] = "0"
  BY DEF DateText
<1> HIDE DEF t, y, m, k, h
<1>2. IsDecimal("0") /\ HexVal("0") = 0
  <2>1. HexDigits[1] = "0" /\ HexVal(HexDigits[1]) = 1 - 1
    BY ValueOfDigit DEF HexDigits
  <2> QED BY <2>1 DEF IsDecimal
<1>3. ASSUME NEW n \in Nat
      PROVE  /\ IsDecimal(Decimal(n, 1000)) /\ IsDecimal(Decimal(n, 100)) /\ IsDecimal(Decimal(n, 10)) /\ IsDecimal(Decimal(n, 1))
             /\ HexVal(Decimal(n, 1000)) = Place(n, 1000) /\ HexVal(Decimal(n, 100)) = Place(n, 100)
             /\ HexVal(Decimal(n, 10)) = Place(n, 10) /\ HexVal(Decimal(n, 1)) = Place(n, 1)
  BY DecimalRead
<1>4. y \in Nat /\ m \in Nat /\ k \in Nat /\ h \in Nat
  BY <1>0
<1>5. /\ IsDecimal(t[1]) /\ IsDecimal(t[2]) /\ IsDecimal(t[3]) /\ IsDecimal(t[4]) /\ IsDecimal(t[6])
      /\ IsDecimal(t[7]) /\ IsDecimal(t[9]) /\ IsDecimal(t[10]) /\ IsDecimal(t[12]) /\ IsDecimal(t[13])
      /\ IsDecimal(t[15]) /\ IsDecimal(t[16]) /\ IsDecimal(t[18]) /\ IsDecimal(t[19])
  BY <1>1, <1>2, <1>3, <1>4
<1>6. Layout(t)
  BY <1>1, <1>5 DEF Layout
<1>7. /\ TwoDigits(t, 6) = m /\ TwoDigits(t, 9) = k /\ TwoDigits(t, 12) = h
      /\ TwoDigits(t, 15) = 0 /\ TwoDigits(t, 18) = 0
  <2>1. ASSUME NEW n \in 0 .. 99
        PROVE  10 * HexVal(Decimal(n, 10)) + HexVal(Decimal(n, 1)) = n
    <3>1. n \in Nat
      OBVIOUS
    <3>2. HexVal(Decimal(n, 10)) = Place(n, 10) /\ HexVal(Decimal(n, 1)) = Place(n, 1)
      BY <1>3, <3>1
    <3>3. 10 * Place(n, 10) + Place(n, 1) = n
      BY TwoPlaces
    <3> QED BY <3>2, <3>3
  <2>2. /\ TwoDigits(t, 6) = 10 * HexVal(t[6]) + HexVal(t[7]) /\ TwoDigits(t, 9) = 10 * HexVal(t[9]) + HexVal(t[10])
        /\ TwoDigits(t, 12) = 10 * HexVal(t[12]) + HexVal(t[13])
        /\ TwoDigits(t, 15) = 10 * HexVal(t[15]) + HexVal(t[16])
        /\ TwoDigits(t, 18) = 10 * HexVal(t[18]) + HexVal(t[19])
    BY DEF TwoDigits
  <2> QED BY <1>0, <1>1, <1>2, <2>1, <2>2
<1>8. 1000 * HexVal(t[1]) + 100 * HexVal(t[2]) + TwoDigits(t, 3) = y
  <2>1. 1000 * HexVal(Decimal(y, 1000)) + 100 * HexVal(Decimal(y, 100))
        + (10 * HexVal(Decimal(y, 10)) + HexVal(Decimal(y, 1))) = y
    <3>1. /\ HexVal(Decimal(y, 1000)) = Place(y, 1000) /\ HexVal(Decimal(y, 100)) = Place(y, 100)
          /\ HexVal(Decimal(y, 10)) = Place(y, 10) /\ HexVal(Decimal(y, 1)) = Place(y, 1)
      BY <1>3, <1>4
    <3>2. FourDigits(y) = y
      <4>1. y \in FourDigitNumbers
        BY <1>0 DEF FourDigitNumbers
      <4> QED BY <4>1, FourPlaces
    <3> QED BY <3>1, <3>2 DEF FourDigits
  <2>2. TwoDigits(t, 3) = 10 * HexVal(t[3]) + HexVal(t[4])
    BY DEF TwoDigits
  <2> QED BY <1>1, <2>1, <2>2
<1>9. Shown(t) = <<y, m, k, h, 0, 0>>
  BY <1>7, <1>8 DEF Shown
<1>10. <<y, m, k, h, 0, 0>> = <<d[1], d[2], d[3], d[4], 0, 0>>
  BY DEF y, m, k, h
<1> QED BY ONLY <1>6, <1>9, <1>10 DEF t

\* So akt_parse_iso8601_utc reads the run's dates as the instants they are of;
\* none of them is the unset clock.
LEMMA CallDateRead ==
  ASSUME NEW d \in Dates \cup {Noon}
  PROVE  /\ IsDate(DateText(d)) /\ DateTime(DateText(d)) = Instant(d)
         /\ Instant(d) # Unknown /\ Instant(d) \in Instants
<1>1. /\ d[1] \in 1999 .. 2100 /\ d[2] \in 1 .. 12 /\ d[3] \in 1 .. MonthDays(d[1], d[2]) /\ d[4] \in 0 .. 23
  BY CallDates
<1>2. MonthDays(d[1], d[2]) \in 28 .. 31 /\ d[1] \in Int
  BY <1>1, MonthLength
<1>3. /\ d[1] \in 0 .. 9999 /\ d[2] \in 0 .. 99 /\ d[3] \in 0 .. 99 /\ d[4] \in 0 .. 99
      /\ d[1] \in Int /\ d[2] \in Int /\ d[3] \in Int /\ d[4] \in Int
  BY <1>1, <1>2
<1> DEFINE t == <<d[1], d[2], d[3], d[4], 0, 0>>
<1>4. Layout(DateText(d)) /\ Shown(DateText(d)) = t
  <2>1. ASSUME NEW e, e[1] \in 1999 .. 2100, e[2] \in 1 .. 12, e[3] \in 1 .. 31, e[4] \in 0 .. 23
        PROVE  FitsText(e)
    BY ONLY <2>1 DEF FitsText, FourDigitNumbers, TwoDigitNumbers
  <2>2. d[3] \in 1 .. 31
    BY ONLY <1>1, <1>2
  <2>3. FitsText(d)
    BY ONLY <1>1, <2>1, <2>2
  <2> QED BY ONLY <2>3, DateTextShows, Zenon
<1>5. t \in Timestamps
  <2>1. /\ t \in Int \X Int \X Int \X Int \X Int \X Int
        /\ t[1] = d[1] /\ t[2] = d[2] /\ t[3] = d[3] /\ t[4] = d[4] /\ t[5] = 0 /\ t[6] = 0
    BY ONLY <1>3
  <2>2. t[2] \in 1 .. 12 /\ t[3] \in 1 .. MonthDays(t[1], t[2]) /\ t[4] \in 0 .. 23
    BY ONLY <1>1, <2>1
  <2>3. t[5] \in 0 .. 59 /\ t[6] \in 0 .. 59
    BY ONLY <2>1
  <2> HIDE DEF t
  <2> QED BY ONLY <2>1, <2>2, <2>3 DEF Timestamps
<1>6. IsDate(DateText(d)) /\ DateTime(DateText(d)) = InstantOf(t)
  BY <1>4, <1>5, TimestampRead
<1>7. DayNumber(d) = DaysFromCivil(d[1], d[2], d[3])
  BY <1>1, <1>3, DaysCounted
<1>8. InstantOf(t) = Instant(d)
  <2>1. SecondOfDay(t) = d[4] * 3600
    BY <1>3 DEF SecondOfDay, TimeOfDay
  <2> QED BY <2>1, <1>7 DEF InstantOf, Instant
<1>9. DayNumber(d) > 0 /\ DayNumber(d) \in Int
  <2>1. <<1970, 1, 1, 0, 0, 0>> \in Timestamps
    <3>1. MonthDays(1970, 1) = 31
      BY MonthLength
    <3> QED BY <3>1 DEF Timestamps
  <2>2. DaysFromCivil(1970, 1, 1) < DaysFromCivil(d[1], d[2], d[3])
    <3> DEFINE u == <<1970, 1, 1, 0, 0, 0>>
    <3>1. u[1] = 1970 /\ u[2] = 1 /\ u[3] = 1 /\ t[1] = d[1] /\ t[2] = d[2] /\ t[3] = d[3]
      OBVIOUS
    <3>2. u \in Timestamps /\ t \in Timestamps /\ u[1] < t[1]
      BY <1>1, <1>5, <2>1
    <3> HIDE DEF u, t
    <3> QED BY <3>1, <3>2, DatesInOrder
  <2>3. DaysFromCivil(d[1], d[2], d[3]) \in Int
    <3>1. \A y \in Int, m \in Int, k \in Int : DaysFromCivil(y, m, k) \in Int
      BY SMT DEF DaysFromCivil
    <3>2. d[1] \in Int /\ d[2] \in Int /\ d[3] \in Int
      BY <1>3
    <3> QED BY Zenon, <3>2, <3>1
  <2> QED BY <1>7, <2>2, <2>3, FirstDays
<1>10. Instant(d) = <<DayNumber(d), d[4] * 3600>> /\ d[4] * 3600 \in DaySeconds
  BY <1>1 DEF Instant, DaySeconds
<1>11. Instant(d) # Unknown /\ Instant(d) \in Instants
  BY <1>9, <1>10 DEF Unknown, Instants
<1> QED BY <1>6, <1>8, <1>11

\* The signed part of an envelope, and the same with its fields reversed.
Part(v, t) == Object(SignedFields(v, t))
PartReversed(v, t) == Object(Reverse(SignedFields(v, t)))

\* Their fields.
LEMMA SignedPart ==
  ASSUME NEW v, NEW t
  PROVE  /\ Part(v, t) = <<"obj", <<Field("version", <<"num", v>>), Field("expires", <<"str", t>>),
                                    Field("_type", Word("Targets"))>> >>
         /\ PartReversed(v, t) = <<"obj", <<Field("_type", Word("Targets")), Field("expires", <<"str", t>>),
                                            Field("version", <<"num", v>>)>> >>
         /\ Part(v, t)[1] = "obj" /\ Get(Part(v, t), "version") = <<"num", v>>
         /\ Get(Part(v, t), "expires") = <<"str", t>> /\ Get(Part(v, t), "_type") = Word("Targets")
         /\ Get(PartReversed(v, t), "version") = <<"num", v>>
         /\ Get(PartReversed(v, t), "expires") = <<"str", t>> /\ Get(PartReversed(v, t), "_type") = Word("Targets")
<1> DEFINE o == Part(v, t)
           r == PartReversed(v, t)
           version == <<"num", v>>
           expires == <<"str", t>>
           type == Word("Targets")
<1>1. SignedFields(v, t) = << <<"version", version>>, <<"expires", expires>>, <<"_type", type>> >>
  BY DEF SignedFields
<1>2. Reverse(SignedFields(v, t)) = << <<"_type", type>>, <<"expires", expires>>, <<"version", version>> >>
  <2>1. \A a, b, c : Reverse(<<a, b, c>>) = <<c, b, a>>
    BY DEF Reverse
  <2> QED BY <1>1, <2>1
<1> HIDE DEF version, expires, type
<1>3. o = <<"obj", <<Field("version", version), Field("expires", expires), Field("_type", type)>> >>
  BY <1>1 DEF Object, Part
<1>4. r = <<"obj", <<Field("_type", type), Field("expires", expires), Field("version", version)>> >>
  BY <1>2 DEF Object, PartReversed
<1>5. "version" # "expires" /\ "expires" # "_type" /\ "version" # "_type"
  OBVIOUS
<1> HIDE DEF o, r
<1>6. Get(o, "version") = version /\ Get(o, "expires") = expires /\ Get(o, "_type") = type
  BY <1>3, <1>5, ThreeFields
<1>7. Get(r, "version") = version /\ Get(r, "expires") = expires /\ Get(r, "_type") = type
  BY <1>4, <1>5, ThreeFields
<1>8. o[1] = "obj"
  BY <1>3
<1> QED BY <1>3, <1>4, <1>6, <1>7, <1>8 DEF o, r, version, expires, type

\* The gates, for a date of the run: the document expires after `now', by the
\* calendar, and is no older than asked.
LEMMA GatesOfDate ==
  ASSUME NEW v \in Int, NEW d \in Dates \cup {Noon}, NEW now, NEW min \in Int
  PROVE  Gates(Part(v, DateText(d)), now, min) = "OK"
           <=> (now # Unknown => ~NotAfter(Instant(d), now)) /\ v >= min
<1> DEFINE o == Part(v, DateText(d))
           exp == Get(o, "expires")
           ver == Get(o, "version")
<1>1. exp = <<"str", DateText(d)>> /\ ver = <<"num", v>>
  BY SignedPart
<1>2. IsString(exp) /\ exp[2] = DateText(d) /\ IsNumber(ver) /\ ver[2] = v
  BY <1>1 DEF IsString, IsNumber
<1>3. IsDate(exp[2]) /\ DateTime(exp[2]) = Instant(d)
  BY <1>2, CallDateRead
<1> HIDE DEF o
<1>4. Gates(o, now, min) = "OK"
        <=> ~(now # Unknown /\ NotAfter(Instant(d), now)) /\ ~(v < min)
  <2>1. Gates(o, now, min) = "OK"
        <=> /\ ~(now # Unknown /\ (~IsString(exp) \/ ~IsDate(exp[2])))
            /\ ~(now # Unknown /\ NotAfter(DateTime(exp[2]), now))
            /\ ~((IF IsNumber(ver) THEN ver[2] ELSE 0) < min)
    BY DEF Gates
  <2> HIDE DEF exp, ver
  <2>2. (IF IsNumber(ver) THEN ver[2] ELSE 0) = v
    BY <1>2
  <2> QED BY <1>2, <1>3, <2>1, <2>2, Zenon
<1> QED BY <1>4 DEF o

\* The three key ids.
KeyIds == {"a", "b", "r"}
\* The raw keys are keys, and no two are one.
LEMMA PubsDiffer ==
  /\ PubOf["a"] \in [1 .. DigestBytes -> Byte] /\ PubOf["b"] \in [1 .. DigestBytes -> Byte]
  /\ PubOf["a"] # PubOf["b"]
  /\ MethodOf["a"] = "ed25519" /\ MethodOf["b"] = "ed25519" /\ MethodOf["r"] = "rsassa-pss-sha256"
<1>1. DigestBytes \in Nat /\ 1 \in 1 .. DigestBytes /\ DigestBytes <= 32
  BY CryptoAssumption
<1>2. /\ PubOf["a"] = [i \in 1 .. DigestBytes |-> IF i = 1 THEN 1 ELSE 24 + i]
      /\ PubOf["b"] = [i \in 1 .. DigestBytes |-> IF i = 1 THEN 2 ELSE 257 - i]
  BY DEF PubOf
<1>3. ASSUME NEW i \in 1 .. DigestBytes
      PROVE  (IF i = 1 THEN 1 ELSE 24 + i) \in Byte /\ (IF i = 1 THEN 2 ELSE 257 - i) \in Byte
  BY <1>1 DEF Byte
<1>4. PubOf["a"][1] = 1 /\ PubOf["b"][1] = 2
  BY <1>1, <1>2
<1>5. MethodOf["a"] = "ed25519" /\ MethodOf["b"] = "ed25519" /\ MethodOf["r"] = "rsassa-pss-sha256"
  BY DEF MethodOf
<1>6. PubOf["a"] \in [1 .. DigestBytes -> Byte] /\ PubOf["b"] \in [1 .. DigestBytes -> Byte]
  BY <1>2, <1>3
<1>7. PubOf["a"] # PubOf["b"]
  BY <1>4
<1> QED BY <1>5, <1>6, <1>7

\* A key parsed from an object with these two fields.
LEMMA KeyParsed ==
  ASSUME NEW key, NEW type, NEW pub, Get(key, "keytype") = <<"str", type>>,
         IsObject(Get(key, "keyval")), Get(Get(key, "keyval"), "public") = <<"str", pub>>
  PROVE  /\ SameButCase(type, "ED25519") =>
              ParseTufKey(key) = IF IsDigest(pub) THEN [method |-> "ed25519", pub |-> HexDecode(pub)] ELSE Refused
         /\ ~SameButCase(type, "ED25519") =>
              ParseTufKey(key) = IF SameButCase(type, "RSA")
                                 THEN [method |-> "rsassa-pss-sha256", pub |-> pub] ELSE Refused
<1>1. IsString(<<"str", type>>) /\ <<"str", type>>[2] = type /\ IsString(<<"str", pub>>) /\ <<"str", pub>>[2] = pub
  BY DEF IsString
<1> QED BY <1>1 DEF ParseTufKey

\* The objects of the root's `keys' have the method and the key they were made
\* from.
LEMMA KeyOfObject ==
  ASSUME NEW k \in KeyIds
  PROVE  /\ IsObject(KeyObject(k))
         /\ ParseTufKey(KeyObject(k)) = [method |-> MethodOf[k], pub |-> PubOf[k]]
<1> DEFINE key == KeyObject(k)
           name == IF k = "r" THEN "RSA" ELSE IF k = "a" THEN "ED25519" ELSE "ed25519"
           pub == IF k = "r" THEN PubOf[k] ELSE HexEncode(PubOf[k])
           val == Object(<<<<"public", <<"str", pub>> >> >>)
<1>1. key = Object(<< <<"keytype", Word(name)>>, <<"keyval", val>> >>)
  BY DEF KeyObject
<1>2. Word(name) = <<"str", <<name>> >>
  BY DEF Word
<1>3. val[1] = "obj" /\ Get(val, "public") = <<"str", pub>>
  <2> HIDE DEF pub
  <2> QED BY ObjectOfOne
<1>4. "keytype" # "keyval"
  OBVIOUS
<1> HIDE DEF key, val, pub, name
<1>5. key[1] = "obj" /\ Get(key, "keytype") = <<"str", <<name>> >> /\ Get(key, "keyval") = val
  BY <1>1, <1>2, <1>4, ObjectOfTwo
<1>6. IsObject(val) /\ IsObject(key)
  BY <1>3, <1>5 DEF IsObject
<1>7. CASE k \in {"a", "b"}
  <2>1. SameButCase(<<name>>, "ED25519")
    BY <1>7 DEF SameButCase, name
  <2>2. ParseTufKey(key) = IF IsDigest(pub) THEN [method |-> "ed25519", pub |-> HexDecode(pub)] ELSE Refused
    BY <1>3, <1>5, <1>6, <2>1, KeyParsed
  <2>3. PubOf[k] \in [1 .. DigestBytes -> Byte] /\ DigestBytes \in Nat
    BY <1>7, PubsDiffer, CryptoAssumption
  <2>4. pub = HexEncode(PubOf[k])
    BY <1>7 DEF pub
  <2>5. IsDigest(pub) /\ HexDecode(pub) = PubOf[k]
    BY <2>3, <2>4, WrittenByEncode, WrittenDecodes
  <2>6. MethodOf[k] = "ed25519"
    BY <1>7, PubsDiffer
  <2> QED BY <1>6, <2>2, <2>5, <2>6 DEF key
<1>8. CASE k = "r"
  <2>1. ~SameButCase(<<name>>, "ED25519") /\ SameButCase(<<name>>, "RSA")
    BY <1>8 DEF SameButCase, name
  <2>2. ParseTufKey(key) = [method |-> "rsassa-pss-sha256", pub |-> pub]
    BY <1>3, <1>5, <1>6, <2>1, KeyParsed
  <2>3. pub = PubOf[k]
    BY <1>8 DEF pub
  <2>4. MethodOf[k] = "rsassa-pss-sha256"
    BY <1>8, PubsDiffer
  <2> QED BY <1>6, <2>2, <2>3, <2>4 DEF key
<1> QED BY <1>7, <1>8 DEF KeyIds

\* Such a key verifies the signatures made with it and no others.
LEMMA KeyVerifies ==
  ASSUME NEW k \in KeyIds, NEW text, NEW sig
  PROVE  VerifyWithPubkey(ParseTufKey(KeyObject(k)), text, sig)
           <=> sig = SignatureOf(MethodOf[k], PubOf[k], text)
<1>1. ParseTufKey(KeyObject(k)) = [method |-> MethodOf[k], pub |-> PubOf[k]]
  BY KeyOfObject
<1>2. CASE k \in {"a", "b"}
  <2>1. MethodOf[k] = "ed25519" /\ Len(PubOf[k]) = DigestBytes
    BY <1>2, PubsDiffer, CryptoAssumption
  <2> QED BY <1>1, <2>1 DEF VerifyWithPubkey, VerifyEd25519
<1>3. CASE k = "r"
  <2>1. MethodOf[k] = "rsassa-pss-sha256"
    BY <1>3, PubsDiffer
  <2> QED BY <1>1, <2>1 DEF VerifyWithPubkey, VerifyRsaPss
<1> QED BY <1>2, <1>3 DEF KeyIds

\* The versions of the run.
Versions == {1, 2, 3, 7}

\* The dates are written in characters.
LEMMA DateTextIsText ==
  ASSUME NEW d \in Dates \cup {Noon}
  PROVE  DateText(d) \in Texts
<1>1. {"0", "1", "2", "3", "4", "5", "6", "7", "8", "9", "-", ":", "T", "Z"} \subseteq Characters
  BY MarksAreCharacters, CasesAssumption
<1>2. d[1] \in Nat /\ d[2] \in Nat /\ d[3] \in Nat /\ d[4] \in Nat
  <2>1. /\ d[1] \in 1999 .. 2100 /\ d[2] \in 1 .. 12 /\ d[3] \in 1 .. MonthDays(d[1], d[2]) /\ d[4] \in 0 .. 23
    BY CallDates
  <2>2. MonthDays(d[1], d[2]) \in 28 .. 31
    BY <2>1, MonthLength
  <2> QED BY <2>1, <2>2
<1>3. ASSUME NEW n \in Nat, NEW w \in {1, 10, 100, 1000}
      PROVE  Decimal(n, w) \in Characters
  <2>1. PICK i \in 1 .. 10 : Decimal(n, w) = HexDigits[i]
    BY DecimalRead DEF IsDecimal
  <2>2. HexDigits[i] \in {"0", "1", "2", "3", "4", "5", "6", "7", "8", "9"}
    BY DEF HexDigits
  <2> QED BY <1>1, <2>1, <2>2
<1>4. \A n \in Nat : /\ Decimal(n, 1000) \in Characters /\ Decimal(n, 100) \in Characters
                     /\ Decimal(n, 10) \in Characters /\ Decimal(n, 1) \in Characters
  BY <1>3
<1>5. /\ Decimal(d[1], 1000) \in Characters /\ Decimal(d[1], 100) \in Characters
      /\ Decimal(d[1], 10) \in Characters /\ Decimal(d[1], 1) \in Characters
      /\ Decimal(d[2], 10) \in Characters /\ Decimal(d[2], 1) \in Characters
      /\ Decimal(d[3], 10) \in Characters /\ Decimal(d[3], 1) \in Characters
      /\ Decimal(d[4], 10) \in Characters /\ Decimal(d[4], 1) \in Characters
  BY <1>2, <1>4
<1> QED BY <1>1, <1>5 DEF DateText, Texts

\* The keys of a signed part are three.
SignedKeys == {<<"version">>, <<"expires">>, <<"_type">>}

\* An object of these three fields, in any order, is a document.
LEMMA ThreeItems ==
  ASSUME NEW a, NEW x \in Scalars, NEW b, NEW y \in Scalars, NEW c, NEW z \in Scalars,
         <<a>> \in Texts, <<b>> \in Texts, <<c>> \in Texts, a # b, b # c, a # c
  PROVE  LET o == <<"obj", <<Field(a, x), Field(b, y), Field(c, z)>> >>
         IN  o \in Docs /\ o[1] = "obj" /\ ObjectKeys(o[2]) = {<<a>>, <<b>>, <<c>>}
<1> DEFINE s == <<Field(a, x), Field(b, y), Field(c, z)>>
           o == <<"obj", s>>
<1>1. Len(s) = 3 /\ s[1] = << <<a>>, x>> /\ s[2] = << <<b>>, y>> /\ s[3] = << <<c>>, z>>
  BY DEF Field
<1>2. DOMAIN s = 1 .. 3 /\ s \in Seq(Texts \X Scalars)
  BY DEF Field
<1>3. <<a>> # <<b>> /\ <<b>> # <<c>> /\ <<a>> # <<c>>
  OBVIOUS
<1>4. s[1][1] = <<a>> /\ s[2][1] = <<b>> /\ s[3][1] = <<c>>
  BY <1>1
<1> HIDE DEF s
<1>5. DistinctKeys(s)
  BY <1>2, <1>3, <1>4 DEF DistinctKeys
<1>6. ObjectKeys(s) = {<<a>>, <<b>>, <<c>>}
  BY <1>2, <1>4 DEF ObjectKeys
<1>7. o \in Objects(Scalars)
  BY <1>2, <1>5 DEF Objects
<1>8. o \in Docs
  BY <1>7, TreesAreDocs
<1> QED BY <1>6, <1>8 DEF s

\* The signed parts of the run, in both orders, are documents with these keys.
LEMMA SignedDocs ==
  ASSUME NEW v \in Int, NEW d \in Dates \cup {Noon}
  PROVE  LET o == Part(v, DateText(d))
             r == PartReversed(v, DateText(d))
         IN  /\ o \in Docs /\ o[1] = "obj" /\ ObjectKeys(o[2]) = SignedKeys
             /\ r \in Docs /\ r[1] = "obj" /\ ObjectKeys(r[2]) = SignedKeys
<1> DEFINE x == <<"num", v>>
           y == <<"str", DateText(d)>>
           z == Word("Targets")
<1>1. x \in Scalars /\ y \in Scalars /\ z \in Scalars
  <2>1. <<"Targets">> \in Texts
    BY CasesAssumption DEF Texts
  <2> QED BY <2>1, DateTextIsText DEF Scalars, Word
<1>2. <<"version">> \in Texts /\ <<"expires">> \in Texts /\ <<"_type">> \in Texts
  BY CasesAssumption DEF Texts
<1>3. "version" # "expires" /\ "expires" # "_type" /\ "version" # "_type"
  OBVIOUS
<1> HIDE DEF x, y, z
<1> DEFINE o == <<"obj", <<Field("version", x), Field("expires", y), Field("_type", z)>> >>
           r == <<"obj", <<Field("_type", z), Field("expires", y), Field("version", x)>> >>
<1>4. o \in Docs /\ o[1] = "obj" /\ ObjectKeys(o[2]) = SignedKeys
  BY <1>1, <1>2, <1>3, ThreeItems DEF SignedKeys
<1>5. r \in Docs /\ r[1] = "obj" /\ ObjectKeys(r[2]) = SignedKeys
  <2>1. r \in Docs /\ r[1] = "obj" /\ ObjectKeys(r[2]) = {<<"_type">>, <<"expires">>, <<"version">>}
    BY <1>1, <1>2, <1>3, ThreeItems
  <2>2. {<<"_type">>, <<"expires">>, <<"version">>} = SignedKeys
    BY DEF SignedKeys
  <2> QED BY <2>1, <2>2
<1>6. o = Part(v, DateText(d)) /\ r = PartReversed(v, DateText(d))
  BY SignedPart, Zenon DEF x, y, z
<1> QED BY <1>4, <1>5, <1>6

\* The text signed for a document.
TextOfSigned(v, d) == Canonical(Part(v, DateText(d)))

\* The order of the fields makes no difference to it, and the version does.
LEMMA SignedTexts ==
  ASSUME NEW v \in Int, NEW d \in Dates \cup {Noon}
  PROVE  /\ Canonical(PartReversed(v, DateText(d))) = TextOfSigned(v, d)
         /\ \A w \in Int : w # v => TextOfSigned(w, d) # TextOfSigned(v, d)
<1> DEFINE o == Part(v, DateText(d))
           r == PartReversed(v, DateText(d))
<1>1. /\ o \in Docs /\ o[1] = "obj" /\ ObjectKeys(o[2]) = SignedKeys
      /\ r \in Docs /\ r[1] = "obj" /\ ObjectKeys(r[2]) = SignedKeys
  BY SignedDocs
<1>2. \A k \in SignedKeys : GetText(r, k) = GetText(o, k)
  <2>1. /\ GetText(o, <<"version">>) = GetText(r, <<"version">>)
        /\ GetText(o, <<"expires">>) = GetText(r, <<"expires">>)
        /\ GetText(o, <<"_type">>) = GetText(r, <<"_type">>)
    <3>1. /\ GetText(o, <<"version">>) = <<"num", v>> /\ GetText(r, <<"version">>) = <<"num", v>>
          /\ GetText(o, <<"expires">>) = <<"str", DateText(d)>> /\ GetText(r, <<"expires">>) = <<"str", DateText(d)>>
          /\ GetText(o, <<"_type">>) = Word("Targets") /\ GetText(r, <<"_type">>) = Word("Targets")
      BY SignedPart, Zenon DEF Get
    <3> HIDE DEF o, r
    <3> QED BY <3>1
  <2> HIDE DEF o, r
  <2> QED BY <2>1 DEF SignedKeys
<1>3. Canonical(r) = Canonical(o)
  <2> HIDE DEF o, r
  <2>1. SameParts(r, o)
    BY <1>1, <1>2 DEF SameParts
  <2>2. Meaning(r) = Meaning(o)
    BY <1>1, <2>1, SameMeaning
  <2> QED BY <1>1, <2>2, CanonicalDecidesMeaning
<1>4. ASSUME NEW w \in Int, w # v
      PROVE  TextOfSigned(w, d) # TextOfSigned(v, d)
  <2> DEFINE p == Part(w, DateText(d))
  <2>1. p \in Docs /\ p[1] = "obj" /\ ObjectKeys(p[2]) = SignedKeys
    BY SignedDocs
  <2>2. GetText(p, <<"version">>) = <<"num", w>> /\ GetText(o, <<"version">>) = <<"num", v>>
    BY SignedPart, Zenon DEF Get
  <2>3. Meaning(<<"num", w>>) # Meaning(<<"num", v>>)
    <3>1. \A n \in Int : Meaning(<<"num", n>>) = <<"num", n>>
      <4> SUFFICES ASSUME NEW n \in Int PROVE Meaning(<<"num", n>>) = <<"num", n>>
        OBVIOUS
      <4>1. <<"num", n>> \in Docs /\ <<"num", n>>[1] = "num"
        BY TreesAreDocs DEF Scalars
      <4> QED BY <4>1, MeaningOf
    <3>2. <<"num", w>> # <<"num", v>>
      BY <1>4
    <3> QED BY <3>1, <3>2
  <2> HIDE DEF o, p
  <2>4. ~SameParts(p, o)
    BY <1>1, <2>1, <2>2, <2>3 DEF SameParts, SignedKeys
  <2>5. Meaning(p) # Meaning(o)
    BY <1>1, <2>1, <2>4, SameMeaning
  <2>6. Canonical(p) # Canonical(o)
    BY <1>1, <2>1, <2>5, CanonicalDecidesMeaning
  <2> QED BY <2>6 DEF TextOfSigned, p, o
<1> QED BY <1>3, <1>4 DEF TextOfSigned

\* What was made of a signature.
Whats == {"same", "reordered", "other", "garbled"}

\* A signature of the run verifies under a key of the run exactly when that key
\* made it over this document.
LEMMA SignatureVerifies ==
  ASSUME NEW k \in KeyIds, NEW e, e.by \in KeyIds, e.what \in Whats,
         NEW v \in {1, 2, 3}, NEW d \in Dates \cup {Noon},
         NEW sig, sig = SignatureText(e, SignedFields(v, DateText(d)))
  PROVE  (/\ Base64Decode(sig) # Missing
          /\ VerifyWithPubkey(ParseTufKey(KeyObject(k)), TextOfSigned(v, d), Base64Decode(sig)))
           <=> e.by = k /\ e.what \in {"same", "reordered"}
<1> DEFINE fields == SignedFields(v, DateText(d))
           doc == CASE e.what = "same" -> fields
                    [] e.what = "reordered" -> Reverse(fields)
                    [] OTHER -> With(fields, "version", <<"num", 7>>)
           key(x) == <<MethodOf[x], PubOf[x]>>
           made(x, t) == SignatureOf(MethodOf[x], PubOf[x], t)
<1>1. sig = IF e.what = "garbled" THEN <<"!">> ELSE made(e.by, Canonical(Object(doc)))
  BY DEF SignatureText
<1>2. With(fields, "version", <<"num", 7>>) = SignedFields(7, DateText(d))
  BY DEF With, SignedFields
<1>3. e.what # "garbled" =>
        Canonical(Object(doc)) = IF e.what = "other" THEN TextOfSigned(7, d) ELSE TextOfSigned(v, d)
  <2>1. CASE e.what = "same"
    <3>1. doc = fields
      BY <2>1
    <3> HIDE DEF doc
    <3> QED BY <2>1, <3>1 DEF TextOfSigned, Part
  <2>2. CASE e.what = "reordered"
    <3>1. doc = Reverse(fields)
      BY <2>2
    <3>2. Canonical(Object(Reverse(fields))) = TextOfSigned(v, d)
      <4>1. Canonical(PartReversed(v, DateText(d))) = TextOfSigned(v, d)
        <5>1. v \in Int
          OBVIOUS
        <5> QED BY <5>1, SignedTexts
      <4> QED BY <4>1 DEF PartReversed
    <3> HIDE DEF doc, fields
    <3> QED BY <2>2, <3>1, <3>2
  <2>3. CASE e.what = "other"
    <3>1. doc = SignedFields(7, DateText(d))
      BY <1>2, <2>3
    <3> HIDE DEF doc
    <3> QED BY <2>3, <3>1 DEF TextOfSigned, Part
  <2> QED BY <2>1, <2>2, <2>3 DEF Whats
<1>4. TextOfSigned(7, d) # TextOfSigned(v, d) /\ TextOfSigned(7, d) \in TextsSigned /\ TextOfSigned(v, d) \in TextsSigned
  <2>1. 7 # v /\ v \in Int /\ 7 \in Int /\ v \in {1, 2, 3, 7} /\ 7 \in {1, 2, 3, 7}
    OBVIOUS
  <2>2. TextOfSigned(7, d) # TextOfSigned(v, d)
    BY <2>1, SignedTexts
  <2> QED BY <2>1, <2>2 DEF TextsSigned, TextOfSigned, Part
<1>5. \A x \in KeyIds : key(x) \in KeysTried
  BY DEF KeyIds, KeysTried
<1>6. \A x \in KeyIds, y \in KeyIds : key(x) = key(y) => x = y
  BY PubsDiffer DEF KeyIds
<1>7. \A x, y \in KeyIds, s, t \in TextsSigned :
        /\ made(x, s) = made(y, t) => x = y /\ s = t
        /\ made(x, s) # <<"!">> /\ made(x, s) # Missing
  <2> SUFFICES ASSUME NEW x \in KeyIds, NEW y \in KeyIds, NEW s \in TextsSigned, NEW t \in TextsSigned
               PROVE  /\ made(x, s) = made(y, t) => x = y /\ s = t
                      /\ made(x, s) # <<"!">> /\ made(x, s) # Missing
    OBVIOUS
  <2>1. /\ SignatureOf(key(x)[1], key(x)[2], s) = SignatureOf(key(y)[1], key(y)[2], t) => key(x) = key(y) /\ s = t
        /\ SignatureOf(key(x)[1], key(x)[2], s) \notin {<<"!">>, Missing}
    <3> HIDE DEF key
    <3> QED BY <1>5, SignatureAssumption, Zenon
  <2>2. key(x)[1] = MethodOf[x] /\ key(x)[2] = PubOf[x] /\ key(y)[1] = MethodOf[y] /\ key(y)[2] = PubOf[y]
    OBVIOUS
  <2> HIDE DEF key
  <2> QED BY <1>6, <2>1, <2>2
<1>8. CASE e.what = "garbled"
  <2>1. sig = <<"!">>
    BY <1>1, <1>8
  <2>2. Base64Decode(sig) = Missing
    BY <2>1 DEF Base64Decode
  <2> QED BY <1>8, <2>2
<1>9. CASE e.what # "garbled"
  <2> DEFINE t == IF e.what = "other" THEN TextOfSigned(7, d) ELSE TextOfSigned(v, d)
  <2>1. sig = made(e.by, t)
    BY <1>1, <1>3, <1>9
  <2>2. t \in TextsSigned /\ (t = TextOfSigned(v, d) <=> e.what # "other")
    BY <1>4
  <2> HIDE DEF t, made, fields, doc
  <2>3. Base64Decode(sig) = sig /\ sig # Missing
    BY <1>7, <2>1, <2>2 DEF Base64Decode
  <2>4. VerifyWithPubkey(ParseTufKey(KeyObject(k)), TextOfSigned(v, d), sig) <=> sig = made(k, TextOfSigned(v, d))
    BY KeyVerifies DEF made
  <2>5. sig = made(k, TextOfSigned(v, d)) <=> e.by = k /\ t = TextOfSigned(v, d)
    BY <1>4, <1>7, <2>1, <2>2
  <2>6. e.what # "other" <=> e.what \in {"same", "reordered"}
    BY <1>9 DEF Whats
  <2> QED BY <2>2, <2>3, <2>4, <2>5, <2>6
<1> QED BY <1>8, <1>9

-----------------------------------------------------------------------------
\* Who signed what, and what akt_verify_role answers.

\* The fields of an envelope of the run.
LEMMA EnvelopeFields ==
  ASSUME NEW entries, IsList(entries), NEW v, NEW t
  PROVE  LET e == Envelope(entries, SignedFields(v, t))
             s == Get(e, "signatures")
         IN  /\ Get(e, "signed") = Part(v, t) /\ IsArray(s) /\ IsList(s[2]) /\ Len(s[2]) = Len(entries)
             /\ \A i \in 1 .. Len(entries) :
                  /\ Get(s[2][i], "keyid") = Word(entries[i].keyid)
                  /\ Get(s[2][i], "sig") = <<"str", SignatureText(entries[i], SignedFields(v, t))>>
<1> DEFINE text(i) == <<"str", SignatureText(entries[i], SignedFields(v, t))>>
           one(i) == Object(<<<<"keyid", Word(entries[i].keyid)>>, <<"sig", text(i)>> >>)
           list == [i \in DOMAIN entries |-> one(i)]
           arr == <<"arr", list>>
           e == Envelope(entries, SignedFields(v, t))
<1>1. e = Object(<<<<"signatures", arr>>, <<"signed", Part(v, t)>> >>)
  BY DEF Envelope, Part
<1>2. "signatures" # "signed" /\ "keyid" # "sig"
  OBVIOUS
<1>3. \A i : Get(one(i), "keyid") = Word(entries[i].keyid) /\ Get(one(i), "sig") = text(i)
  <2> SUFFICES ASSUME NEW i PROVE Get(one(i), "keyid") = Word(entries[i].keyid) /\ Get(one(i), "sig") = text(i)
    OBVIOUS
  <2> DEFINE a == Word(entries[i].keyid)
             b == text(i)
  <2>1. one(i) = Object(<<<<"keyid", a>>, <<"sig", b>> >>)
    OBVIOUS
  <2> HIDE DEF a, b, text, one
  <2>2. Get(one(i), "keyid") = a /\ Get(one(i), "sig") = b
    BY <1>2, <2>1, ObjectOfTwo
  <2> QED BY <2>2 DEF a, b
<1> HIDE DEF one, text
<1>4. IsList(list) /\ Len(list) = Len(entries) /\ \A i \in 1 .. Len(entries) : list[i] = one(i)
  BY DEF IsList
<1>5. arr[1] = "arr" /\ arr[2] = list
  OBVIOUS
<1> HIDE DEF arr, list
<1>6. Get(e, "signatures") = arr /\ Get(e, "signed") = Part(v, t)
  <2> HIDE DEF e
  <2> QED BY <1>1, <1>2, ObjectOfTwo
<1> QED BY <1>3, <1>4, <1>5, <1>6 DEF IsArray, text

\* The fields of its root.
LEMMA RootFieldsRead ==
  ASSUME NEW keyids, NEW threshold
  PROVE  LET r == Object(RootFields(keyids, threshold))
             role == Get(Get(r, "roles"), "targets")
         IN  /\ IsObject(Get(r, "roles")) /\ IsObject(Get(r, "keys")) /\ IsObject(role)
             /\ Get(role, "keyids") = <<"arr", [i \in DOMAIN keyids |-> Word(keyids[i])]>>
             /\ Get(role, "threshold") = <<"num", threshold>>
             /\ \A k \in KeyIds : Get(Get(r, "keys"), k) = KeyObject(k)
<1> DEFINE ids == <<"arr", [i \in DOMAIN keyids |-> Word(keyids[i])]>>
           num == <<"num", threshold>>
           role == Object(<<<<"keyids", ids>>, <<"threshold", num>> >>)
           roles == Object(<<<<"targets", role>> >>)
           keys == Object(<<<<"a", KeyObject("a")>>, <<"b", KeyObject("b")>>, <<"r", KeyObject("r")>> >>)
           r == Object(RootFields(keyids, threshold))
<1>1. r = Object(<<<<"roles", roles>>, <<"keys", keys>> >>)
  BY DEF RootFields
<1>2. "keyids" # "threshold" /\ "roles" # "keys" /\ "a" # "b" /\ "b" # "r" /\ "a" # "r"
  OBVIOUS
<1> HIDE DEF ids, num
<1>3. role[1] = "obj" /\ Get(role, "keyids") = ids /\ Get(role, "threshold") = num
  BY <1>2, ObjectOfTwo
<1> HIDE DEF role
<1>4. roles[1] = "obj" /\ Get(roles, "targets") = role
  BY ObjectOfOne
<1> HIDE DEF roles
<1>5. keys[1] = "obj" /\ \A k \in KeyIds : Get(keys, k) = KeyObject(k)
  <2> DEFINE a == KeyObject("a")
             b == KeyObject("b")
             c == KeyObject("r")
  <2>1. keys = Object(<<<<"a", a>>, <<"b", b>>, <<"r", c>> >>)
    OBVIOUS
  <2> HIDE DEF a, b, c, keys
  <2>2. keys[1] = "obj" /\ Get(keys, "a") = a /\ Get(keys, "b") = b /\ Get(keys, "r") = c
    BY <1>2, <2>1, ObjectOfThree
  <2> QED BY <2>2 DEF a, b, c, KeyIds
<1> HIDE DEF keys, r
<1>6. Get(r, "roles") = roles /\ Get(r, "keys") = keys
  BY <1>1, <1>2, ObjectOfTwo
<1> QED BY <1>3, <1>4, <1>5, <1>6 DEF IsObject, r, ids, num

\* The library accepts a document exactly when it has the shape, signatures
\* enough, and passes the gates.
LEMMA RoleAccepts ==
  ASSUME NEW root, NEW name, NEW envelope, NEW now, NEW min
  PROVE  LET role == Get(Get(root, "roles"), name)
             thresh == Get(role, "threshold")[2]
             signed == Get(envelope, "signed")
         IN  UptaneVerifyRole(root, name, envelope, now, min) = "ESP_OK"
               <=> /\ WellFormed(root, name, envelope) /\ thresh > 0
                   /\ ValidCount(Get(root, "keys"), Get(role, "keyids"), Get(envelope, "signatures"),
                                 Canonical(signed)) >= thresh
                   /\ Gates(signed, now, min) = "OK"
<1> DEFINE rc == VerifyRole(root, name, envelope, now, min)
           role == Get(Get(root, "roles"), name)
           thresh == Get(role, "threshold")[2]
           signed == Get(envelope, "signed")
           count == ValidCount(Get(root, "keys"), Get(role, "keyids"), Get(envelope, "signatures"), Canonical(signed))
<1>1. UptaneVerifyRole(root, name, envelope, now, min) = MapErr(rc)
  BY DEF UptaneVerifyRole
<1>2. rc = CASE ~IsObject(Get(root, "roles")) \/ ~IsObject(Get(root, "keys")) -> "PARSE"
             [] ~IsObject(role) -> "NO_ROLE"
             [] ~IsArray(Get(role, "keyids")) \/ ~IsNumber(Get(role, "threshold")) -> "PARSE"
             [] ~IsObject(signed) \/ ~IsArray(Get(envelope, "signatures")) -> "PARSE"
             [] ~(thresh > 0 /\ count >= thresh) -> "THRESHOLD"
             [] OTHER -> Gates(signed, now, min)
  BY DEF VerifyRole
<1> HIDE DEF rc, count, thresh
<1>3. MapErr(rc) = "ESP_OK" <=> rc = "OK"
  BY DEF MapErr
<1>4. rc = "OK" <=> /\ WellFormed(root, name, envelope) /\ thresh > 0 /\ count >= thresh
                    /\ Gates(signed, now, min) = "OK"
  BY <1>2, Zenon DEF WellFormed
<1> QED BY <1>1, <1>3, <1>4 DEF count, thresh

\* The entry of the key id that signed this document with its own key.
SignedIn(entries, k, i) ==
  entries[i].keyid = k /\ entries[i].by = k /\ entries[i].what \in {"same", "reordered"}
OneEach(entries) ==
  \A i, j \in DOMAIN entries : entries[i].keyid = entries[j].keyid => i = j

\* A key id's vote counts only if it has such an entry, and it does count if it
\* has no other.
LEMMA VoteCounts ==
  ASSUME NEW entries, IsList(entries),
         \A i \in DOMAIN entries : entries[i].by \in KeyIds /\ entries[i].what \in Whats,
         NEW v \in {1, 2, 3}, NEW d \in Dates \cup {Noon}, NEW k \in KeyIds,
         NEW keys, Get(keys, k) = KeyObject(k),
         NEW s, s = Get(Envelope(entries, SignedFields(v, DateText(d))), "signatures")
  PROVE  /\ SignedBy(keys, s, Word(k), TextOfSigned(v, d)) => \E i \in DOMAIN entries : SignedIn(entries, k, i)
         /\ OneEach(entries) /\ (\E i \in DOMAIN entries : SignedIn(entries, k, i))
              => SignedBy(keys, s, Word(k), TextOfSigned(v, d))
<1> DEFINE fields == SignedFields(v, DateText(d))
           kid == Word(k)
           text == TextOfSigned(v, d)
           L == 1 .. Len(entries)
<1>1. /\ IsList(s[2]) /\ Len(s[2]) = Len(entries) /\ DOMAIN entries = L
      /\ \A i \in L : /\ Get(s[2][i], "keyid") = Word(entries[i].keyid)
                      /\ Get(s[2][i], "sig") = <<"str", SignatureText(entries[i], fields)>>
  <2>1. DOMAIN entries = L
    BY DEF IsList
  <2> QED BY <2>1, EnvelopeFields
<1>2. IsString(kid) /\ kid[2] = <<k>> /\ \A x : Word(x) = kid <=> x = k
  BY DEF Word, IsString
<1>3. GetText(keys, <<k>>) = KeyObject(k) /\ IsObject(KeyObject(k))
  BY KeyOfObject DEF Get
<1>4. CASE \A j \in 1 .. Len(s[2]) : Get(s[2][j], "keyid") # kid
  <2>1. FindSig(s, kid) = Missing
    BY <1>1, <1>4, NoEntry
  <2>2. ~IsString(Get(Missing, "sig"))
    BY DEF Get, GetText, Missing, IsObject, IsString
  <2>3. ~SignedBy(keys, s, kid, text)
    BY <2>1, <2>2 DEF SignedBy
  <2>4. \A j \in L : entries[j].keyid # k
    BY <1>1, <1>2, <1>4
  <2> HIDE DEF L, kid, text
  <2> QED BY <1>1, <2>3, <2>4 DEF SignedIn, kid, text
<1>5. ASSUME NEW i \in 1 .. Len(s[2]), Get(s[2][i], "keyid") = kid,
             \A j \in 1 .. i - 1 : Get(s[2][j], "keyid") # kid
      PROVE  SignedBy(keys, s, kid, text) <=> SignedIn(entries, k, i)
  <2>1. FindSig(s, kid) = s[2][i]
    BY <1>1, <1>5, FirstEntry
  <2> DEFINE entry == entries[i]
             sig == SignatureText(entry, fields)
  <2>2. i \in L /\ entry.by \in KeyIds /\ entry.what \in Whats /\ entry.keyid = k
    BY <1>1, <1>2, <1>5
  <2>3. Get(s[2][i], "sig") = <<"str", sig>>
    BY <1>1, <2>2
  <2>4. (/\ Base64Decode(sig) # Missing
         /\ VerifyWithPubkey(ParseTufKey(KeyObject(k)), text, Base64Decode(sig)))
          <=> entry.by = k /\ entry.what \in {"same", "reordered"}
    BY <2>2, SignatureVerifies
  <2> HIDE DEF sig, kid, text, entry, L
  <2>5. IsString(<<"str", sig>>) /\ <<"str", sig>>[2] = sig
    BY DEF IsString
  <2>6. SignedBy(keys, s, kid, text)
          <=> /\ Base64Decode(sig) # Missing
              /\ VerifyWithPubkey(ParseTufKey(KeyObject(k)), text, Base64Decode(sig))
    BY <1>2, <1>3, <2>1, <2>3, <2>5 DEF SignedBy
  <2> QED BY <2>2, <2>4, <2>6 DEF SignedIn, entry
<1>6. CASE \E i \in 1 .. Len(s[2]) : /\ Get(s[2][i], "keyid") = kid
                                     /\ \A j \in 1 .. i - 1 : Get(s[2][j], "keyid") # kid
  <2>1. PICK i \in 1 .. Len(s[2]) : /\ Get(s[2][i], "keyid") = kid
                                    /\ \A j \in 1 .. i - 1 : Get(s[2][j], "keyid") # kid
    BY <1>6
  <2>2. SignedBy(keys, s, kid, text) <=> SignedIn(entries, k, i)
    BY <2>1, <1>5
  <2>3. i \in L /\ entries[i].keyid = k
    BY <1>1, <1>2, <2>1
  <2>4. ASSUME OneEach(entries), NEW j \in L, SignedIn(entries, k, j) PROVE SignedIn(entries, k, i)
    BY <1>1, <2>3, <2>4 DEF OneEach, SignedIn
  <2> HIDE DEF L, kid, text
  <2> QED BY <1>1, <2>2, <2>3, <2>4 DEF kid, text
<1>7. \/ \A j \in 1 .. Len(s[2]) : Get(s[2][j], "keyid") # kid
      \/ \E i \in 1 .. Len(s[2]) : /\ Get(s[2][i], "keyid") = kid
                                   /\ \A j \in 1 .. i - 1 : Get(s[2][j], "keyid") # kid
  <2>1. IsList(s[2])
    BY <1>1
  <2> HIDE DEF kid
  <2> QED BY ONLY <2>1, FirstOrNone
<1> QED BY <1>4, <1>6, <1>7

\* What a call of akt_verify_role consists of.
RoleShape(c) ==
  /\ c.family = "role"
  /\ IsList(c.keyids) /\ \A i \in DOMAIN c.keyids : c.keyids[i] \in KeyIds
  /\ c.threshold \in Int
  /\ IsList(c.entries) /\ \A i \in DOMAIN c.entries : c.entries[i].by \in KeyIds /\ c.entries[i].what \in Whats
  /\ c.version \in {1, 2, 3} /\ c.min \in Int
  /\ c.exp \in Dates \cup {Noon} /\ c.now \in Dates \cup {Noon, Unknown}

LEMMA RoleShapes ==
  ASSUME NEW c \in SignatureCalls \cup GateCalls
  PROVE  RoleShape(c)
<1> DEFINE K == {<<"a">>, <<"a", "b">>, <<"b", "r">>}
           One == {Entry(k, by, w) : k \in {"a", "b"}, by \in {"a", "b"},
                                     w \in {"same", "reordered", "other", "garbled"}}
                  \cup {Entry("r", "r", "same"), Entry("r", "a", "same")}
           E == SeqsTo(One, 2)
           Good(es) == IsList(es) /\ \A i \in DOMAIN es : es[i].by \in KeyIds /\ es[i].what \in Whats
<1>1. \A ks \in K : IsList(ks) /\ \A i \in DOMAIN ks : ks[i] \in KeyIds
  BY DEF IsList, KeyIds
<1>2. \A x \in One : x.by \in KeyIds /\ x.what \in Whats
  BY DEF Entry, KeyIds, Whats
<1>3. ASSUME NEW es \in E PROVE Good(es)
  <2> HIDE DEF One
  <2>1. PICK m \in 0 .. 2 : es \in [1 .. m -> One]
    BY <1>3 DEF SeqsTo
  <2>2. DOMAIN es = 1 .. m /\ Len(es) = m /\ m \in Nat
    BY <2>1
  <2> QED BY <1>2, <2>1, <2>2 DEF IsList
<1>4. Good(<<Entry("a", "a", "same")>>)
  BY DEF IsList, Entry, KeyIds, Whats
<1>5. ASSUME NEW ks \in K, NEW t \in 0 .. 2, NEW es, Good(es), NEW v \in {1, 2, 3}, NEW e \in Dates \cup {Noon},
             NEW n \in Dates \cup {Noon, Unknown}, NEW m \in 0 .. 3
      PROVE  RoleShape(RoleCall(ks, t, es, v, e, n, m))
  <2> HIDE DEF K
  <2> QED BY <1>1, <1>5 DEF RoleShape, RoleCall
<1>6. CASE c \in SignatureCalls
  <2>1. PICK ks \in K, t \in 0 .. 2, es \in E : c = RoleCall(ks, t, es, 2, Noon, Unknown, 2)
    <3>1. SignatureCalls = {RoleCall(ks, t, es, 2, Noon, Unknown, 2) : ks \in K, t \in 0 .. 2, es \in E}
      BY DEF SignatureCalls
    <3> HIDE DEF K, E
    <3> QED BY <1>6, <3>1
  <2>2. 2 \in {1, 2, 3} /\ 2 \in 0 .. 3 /\ Noon \in Dates \cup {Noon} /\ Unknown \in Dates \cup {Noon, Unknown}
    OBVIOUS
  <2> HIDE DEF K, E, Good
  <2> QED BY <1>3, <1>5, <2>1, <2>2
<1> DEFINE es == <<Entry("a", "a", "same")>>
<1>7. <<"a">> \in K /\ 1 \in 0 .. 2 /\ 2 \in {1, 2, 3} /\ 2 \in 0 .. 3 /\ \A v \in 1 .. 3 : v \in {1, 2, 3}
  OBVIOUS
<1> HIDE DEF K, Good, es
<1>8. CASE c \in {RoleCall(<<"a">>, 1, es, 2, e, n, 2) : e \in Dates, n \in Dates}
  BY <1>4, <1>5, <1>7, <1>8 DEF es
<1>9. CASE c \in {RoleCall(<<"a">>, 1, es, v, Noon, Noon, m) : v \in 1 .. 3, m \in 0 .. 3}
  BY <1>4, <1>5, <1>7, <1>9 DEF es
<1>10. CASE c \in {RoleCall(<<"a">>, 1, es, v, Noon, Unknown, m) : v \in 1 .. 3, m \in 0 .. 3}
  BY <1>4, <1>5, <1>7, <1>10 DEF es
<1> QED BY <1>6, <1>8, <1>9, <1>10 DEF GateCalls, es

\* Deserved, of any call.
HasSigned(c, k) == \E i \in DOMAIN c.entries : SignedIn(c.entries, k, i)
Deserves(c) ==
  /\ c.threshold > 0
  /\ Cardinality({i \in DOMAIN c.keyids : HasSigned(c, c.keyids[i])}) >= c.threshold
  /\ c.now # Unknown => ~NotAfter(Instant(c.exp), Instant(c.now))
  /\ c.version >= c.min

\* The answer to a call of akt_verify_role.
AnswerTo(c) ==
  UptaneVerifyRole(Object(RootFields(c.keyids, c.threshold)), "targets",
                   Envelope(c.entries, SignedFields(c.version, DateText(c.exp))),
                   IF c.now = Unknown THEN Unknown ELSE Instant(c.now), c.min)

\* The gates let a document through by the calendar and the version.
LEMMA GatesOfCall ==
  ASSUME NEW c, RoleShape(c)
  PROVE  Gates(Part(c.version, DateText(c.exp)), IF c.now = Unknown THEN Unknown ELSE Instant(c.now), c.min) = "OK"
           <=> (c.now # Unknown => ~NotAfter(Instant(c.exp), Instant(c.now))) /\ c.version >= c.min
<1> DEFINE now == IF c.now = Unknown THEN Unknown ELSE Instant(c.now)
<1>1. now # Unknown <=> c.now # Unknown
  BY CallDateRead DEF RoleShape
<1>2. c.version \in Int /\ c.min \in Int /\ c.exp \in Dates \cup {Noon}
  BY DEF RoleShape
<1>3. c.now # Unknown => now = Instant(c.now)
  OBVIOUS
<1> HIDE DEF now
<1>4. Gates(Part(c.version, DateText(c.exp)), now, c.min) = "OK"
        <=> (now # Unknown => ~NotAfter(Instant(c.exp), now)) /\ c.version >= c.min
  BY <1>2, GatesOfDate
<1>5. (now # Unknown => ~NotAfter(Instant(c.exp), now))
        <=> (c.now # Unknown => ~NotAfter(Instant(c.exp), Instant(c.now)))
  BY <1>1, <1>3
<1> QED BY <1>4, <1>5 DEF now

\* An accepted document deserved it; and one that deserves it is accepted, if
\* no key id has two entries.
LEMMA RoleAnswer ==
  ASSUME NEW c, RoleShape(c)
  PROVE  /\ AnswerTo(c) = "ESP_OK" => Deserves(c)
         /\ Deserves(c) /\ OneEach(c.entries) => AnswerTo(c) = "ESP_OK"
<1> DEFINE root == Object(RootFields(c.keyids, c.threshold))
           env == Envelope(c.entries, SignedFields(c.version, DateText(c.exp)))
           now == IF c.now = Unknown THEN Unknown ELSE Instant(c.now)
           role == Get(Get(root, "roles"), "targets")
           keys == Get(root, "keys")
           s == Get(env, "signatures")
           text == TextOfSigned(c.version, c.exp)
           V == {i \in DOMAIN c.keyids : SignedBy(keys, s, Word(c.keyids[i]), text)}
           W == {i \in DOMAIN c.keyids : HasSigned(c, c.keyids[i])}
<1>1. /\ IsObject(Get(root, "roles")) /\ IsObject(keys) /\ IsObject(role)
      /\ Get(role, "keyids") = <<"arr", [i \in DOMAIN c.keyids |-> Word(c.keyids[i])]>>
      /\ Get(role, "threshold") = <<"num", c.threshold>>
      /\ \A k \in KeyIds : Get(keys, k) = KeyObject(k)
  BY RootFieldsRead
<1>2. IsList(c.entries) /\ c.threshold \in Int
  BY DEF RoleShape
<1>3. Get(env, "signed") = Part(c.version, DateText(c.exp)) /\ IsArray(s)
  BY <1>2, EnvelopeFields
<1>4. IsObject(Get(env, "signed")) /\ Canonical(Get(env, "signed")) = text
  <2>1. Part(c.version, DateText(c.exp))[1] = "obj"
    BY SignedPart
  <2> HIDE DEF env
  <2> QED BY <1>3, <2>1, Zenon DEF IsObject, TextOfSigned
<1>5. ValidCount(keys, Get(role, "keyids"), s, text) = Cardinality(V)
  <2> DEFINE words == [i \in DOMAIN c.keyids |-> Word(c.keyids[i])]
  <2>1. Get(role, "keyids")[2] = words /\ DOMAIN words = DOMAIN c.keyids
        /\ \A i \in DOMAIN c.keyids : words[i] = Word(c.keyids[i])
    BY <1>1
  <2> HIDE DEF words, role, keys, s, text
  <2>2. {i \in DOMAIN words : SignedBy(keys, s, words[i], text)} = V
    BY <2>1
  <2> QED BY <2>1, <2>2 DEF ValidCount
<1>6. V \subseteq W /\ (OneEach(c.entries) => V = W)
  <2>1. ASSUME NEW i \in DOMAIN c.keyids
        PROVE  /\ SignedBy(keys, s, Word(c.keyids[i]), text) => HasSigned(c, c.keyids[i])
               /\ OneEach(c.entries) /\ HasSigned(c, c.keyids[i]) => SignedBy(keys, s, Word(c.keyids[i]), text)
    <3> DEFINE k == c.keyids[i]
               es == c.entries
    <3>1. /\ k \in KeyIds /\ Get(keys, k) = KeyObject(k) /\ c.version \in {1, 2, 3} /\ c.exp \in Dates \cup {Noon}
          /\ IsList(es) /\ \A j \in DOMAIN es : es[j].by \in KeyIds /\ es[j].what \in Whats
      BY <1>1 DEF RoleShape
    <3>2. s = Get(Envelope(es, SignedFields(c.version, DateText(c.exp))), "signatures")
      OBVIOUS
    <3> HIDE DEF k, es, keys, s
    <3>3. /\ SignedBy(keys, s, Word(k), text) => \E j \in DOMAIN es : SignedIn(es, k, j)
          /\ OneEach(es) /\ (\E j \in DOMAIN es : SignedIn(es, k, j)) => SignedBy(keys, s, Word(k), text)
      BY <3>1, <3>2, VoteCounts
    <3> QED BY <3>3 DEF HasSigned, k, es
  <2> HIDE DEF keys, s, text
  <2> QED BY <2>1
<1>7. Cardinality(V) \in Nat /\ Cardinality(W) \in Nat /\ Cardinality(V) <= Cardinality(W)
  <2>1. IsFiniteSet(DOMAIN c.keyids)
    <3>1. Len(c.keyids) \in Int /\ 1 \in Int /\ DOMAIN c.keyids = 1 .. Len(c.keyids)
      BY DEF RoleShape, IsList
    <3> QED BY <3>1, FS_Interval
  <2>2. W \subseteq DOMAIN c.keyids
    OBVIOUS
  <2> HIDE DEF V, W
  <2>3. IsFiniteSet(W)
    BY <2>1, <2>2, FS_Subset
  <2>4. IsFiniteSet(V) /\ Cardinality(V) <= Cardinality(W)
    BY <1>6, <2>3, FS_Subset
  <2> QED BY <2>3, <2>4, FS_CardinalityType
<1>8. AnswerTo(c) = "ESP_OK"
        <=> /\ WellFormed(root, "targets", env) /\ Get(role, "threshold")[2] > 0
            /\ ValidCount(keys, Get(role, "keyids"), s, Canonical(Get(env, "signed"))) >= Get(role, "threshold")[2]
            /\ Gates(Get(env, "signed"), now, c.min) = "OK"
  <2>1. AnswerTo(c) = UptaneVerifyRole(root, "targets", env, now, c.min)
    BY DEF AnswerTo
  <2> HIDE DEF root, env, now
  <2> QED BY <2>1, RoleAccepts
<1>9. Get(role, "threshold")[2] = c.threshold /\ WellFormed(root, "targets", env)
  <2>1. IsArray(Get(role, "keyids")) /\ IsNumber(Get(role, "threshold"))
    BY <1>1 DEF IsArray, IsNumber
  <2> HIDE DEF root, env
  <2> QED BY <1>1, <1>3, <1>4, <2>1 DEF WellFormed
<1> DEFINE dated == c.now # Unknown => ~NotAfter(Instant(c.exp), Instant(c.now))
<1>10. Gates(Get(env, "signed"), now, c.min) = "OK" <=> dated /\ c.version >= c.min
  BY <1>3, GatesOfCall
<1>11. Deserves(c) <=> /\ c.threshold > 0 /\ Cardinality(W) >= c.threshold /\ dated /\ c.version >= c.min
  BY DEF Deserves
<1> HIDE DEF root, env, now, role, keys, s, text, V, W, dated
<1>12. AnswerTo(c) = "ESP_OK"
         <=> c.threshold > 0 /\ Cardinality(V) >= c.threshold /\ dated /\ c.version >= c.min
  BY <1>4, <1>5, <1>8, <1>9, <1>10
<1> QED BY <1>2, <1>6, <1>7, <1>11, <1>12

\* A call of akt_verify_role is answered exactly.
LEMMA RoleStep ==
  ASSUME call \in SignatureCalls \cup GateCalls, VerifyARole
  PROVE  AcceptsExactly'
<1>1. call' = call /\ call.family = "role"
  BY DEF VerifyARole, Is
<1>2. out' = [err |-> AnswerTo(call)]
  BY DEF VerifyARole, AnswerTo
<1>3. RoleShape(call)
  BY RoleShapes
<1>4. /\ AnswerTo(call) = "ESP_OK" => Deserves(call)
      /\ Deserves(call) /\ OneEach(call.entries) => AnswerTo(call) = "ESP_OK"
  BY <1>3, RoleAnswer
<1>5. Deserved' <=> Deserves(call')
  BY DEF Deserved, Deserves, Signed, HasSigned, SignedIn
<1>6. OneEntryEach' <=> OneEach(call'.entries)
  BY DEF OneEntryEach, OneEach
<1>7. out'.err = AnswerTo(call)
  BY <1>2
<1> QED BY <1>1, <1>4, <1>5, <1>6, <1>7 DEF AcceptsExactly, Answered

-----------------------------------------------------------------------------
\* Documents with a piece broken.

\* A sequence without one of its elements.
LEMMA RemovedElements ==
  ASSUME NEW S, NEW s \in Seq(S), NEW i \in 1 .. Len(s)
  PROVE  /\ RemoveAt(s, i) \in Seq(S) /\ Len(RemoveAt(s, i)) = Len(s) - 1
         /\ \A j \in 1 .. i - 1 : RemoveAt(s, i)[j] = s[j]
         /\ \A j \in i .. Len(s) - 1 : RemoveAt(s, i)[j] = s[j + 1]
<1> DEFINE a == SubSeq(s, 1, i - 1)
           b == SubSeq(s, i + 1, Len(s))
<1>1. a \in Seq(S) /\ Len(a) = i - 1 /\ \A j \in 1 .. i - 1 : a[j] = s[j]
  OBVIOUS
<1>2. b \in Seq(S) /\ Len(b) = Len(s) - i /\ \A j \in 1 .. Len(s) - i : b[j] = s[i + j]
  OBVIOUS
<1>3. RemoveAt(s, i) = a \o b
  BY DEF RemoveAt
<1> HIDE DEF a, b
<1>4. /\ a \o b \in Seq(S) /\ Len(a \o b) = Len(a) + Len(b)
      /\ \A j \in 1 .. Len(a) + Len(b) : (a \o b)[j] = IF j <= Len(a) THEN a[j] ELSE b[j - Len(a)]
  BY <1>1, <1>2, ConcatProperties
<1>5. Len(s) \in Nat /\ i \in Nat /\ 1 <= i /\ i <= Len(s) /\ Len(a) + Len(b) = Len(s) - 1
  BY <1>1, <1>2
<1>6. ASSUME NEW j \in 1 .. i - 1 PROVE (a \o b)[j] = s[j]
  BY <1>1, <1>4, <1>5
<1>7. ASSUME NEW j \in i .. Len(s) - 1 PROVE (a \o b)[j] = s[j + 1]
  <2>1. j \in 1 .. Len(a) + Len(b) /\ ~(j <= Len(a)) /\ j - Len(a) = j - i + 1 /\ j - i + 1 \in 1 .. Len(s) - i
    BY <1>1, <1>5
  <2>2. i + (j - i + 1) = j + 1
    BY <1>5
  <2> QED BY <1>2, <1>4, <2>1, <2>2
<1> QED BY <1>3, <1>4, <1>5, <1>6, <1>7

\* Dropping one of up to three items.
LEMMA RemovedAt ==
  /\ \A p : RemoveAt(<<p>>, 1) = <<>>
  /\ \A p, q : RemoveAt(<<p, q>>, 1) = <<q>> /\ RemoveAt(<<p, q>>, 2) = <<p>>
  /\ \A p, q, r : RemoveAt(<<p, q, r>>, 1) = <<q, r>> /\ RemoveAt(<<p, q, r>>, 2) = <<p, r>>
<1>0. ASSUME NEW S, NEW s \in Seq(S)
      PROVE  /\ Len(s) = 0 => s = <<>>
             /\ Len(s) = 1 => s = <<s[1]>>
             /\ Len(s) = 2 => s = <<s[1], s[2]>>
  <2>1. s = [i \in 1 .. Len(s) |-> s[i]]
    OBVIOUS
  <2> QED BY <2>1
<1>1. ASSUME NEW p PROVE RemoveAt(<<p>>, 1) = <<>>
  <2> DEFINE s == <<p>>
  <2>1. s \in Seq({p}) /\ Len(s) = 1
    OBVIOUS
  <2> HIDE DEF s
  <2>2. RemoveAt(s, 1) \in Seq({p}) /\ Len(RemoveAt(s, 1)) = 0
    BY <2>1, RemovedElements
  <2> QED BY <1>0, <2>2 DEF s
<1>2. ASSUME NEW p, NEW q PROVE RemoveAt(<<p, q>>, 1) = <<q>> /\ RemoveAt(<<p, q>>, 2) = <<p>>
  <2> DEFINE S == {p, q}
             s == <<p, q>>
             t == RemoveAt(s, 1)
             u == RemoveAt(s, 2)
  <2>1. s \in Seq(S) /\ Len(s) = 2 /\ s[1] = p /\ s[2] = q
    OBVIOUS
  <2> HIDE DEF s, S
  <2>2. 1 \in 1 .. Len(s) /\ 2 \in 1 .. Len(s) /\ Len(s) - 1 = 1
    BY <2>1
  <2>3. t \in Seq(S) /\ Len(t) = 1 /\ \A j \in 1 .. 1 : t[j] = s[j + 1]
    BY <2>1, <2>2, RemovedElements
  <2>4. u \in Seq(S) /\ Len(u) = 1 /\ \A j \in 1 .. 2 - 1 : u[j] = s[j]
    BY <2>1, <2>2, RemovedElements
  <2> HIDE DEF t, u
  <2>5. t[1] = q /\ u[1] = p
    BY <2>1, <2>3, <2>4
  <2>6. t = <<t[1]>> /\ u = <<u[1]>>
    BY <1>0, <2>3, <2>4
  <2> QED BY <2>5, <2>6 DEF s, t, u
<1>3. ASSUME NEW p, NEW q, NEW r PROVE RemoveAt(<<p, q, r>>, 1) = <<q, r>> /\ RemoveAt(<<p, q, r>>, 2) = <<p, r>>
  <2> DEFINE S == {p, q, r}
             s == <<p, q, r>>
             t == RemoveAt(s, 1)
             u == RemoveAt(s, 2)
  <2>1. s \in Seq(S) /\ Len(s) = 3 /\ s[1] = p /\ s[2] = q /\ s[3] = r
    OBVIOUS
  <2> HIDE DEF s, S
  <2>2. 1 \in 1 .. Len(s) /\ 2 \in 1 .. Len(s) /\ Len(s) - 1 = 2
    BY <2>1
  <2>3. t \in Seq(S) /\ Len(t) = 2 /\ \A j \in 1 .. 2 : t[j] = s[j + 1]
    BY <2>1, <2>2, RemovedElements
  <2>4. /\ u \in Seq(S) /\ Len(u) = 2 /\ \A j \in 1 .. 2 - 1 : u[j] = s[j]
        /\ \A j \in 2 .. 2 : u[j] = s[j + 1]
    BY <2>1, <2>2, RemovedElements
  <2> HIDE DEF t, u
  <2>5. t[1] = q /\ t[2] = r /\ u[1] = p /\ u[2] = r
    BY <2>1, <2>3, <2>4
  <2>6. t = <<t[1], t[2]>> /\ u = <<u[1], u[2]>>
    BY <1>0, <2>3, <2>4
  <2> QED BY <2>5, <2>6 DEF s, t, u
<1> QED BY <1>1, <1>2, <1>3

\* A list of fields without a missing one is made as it is, and one with a
\* missing one without that one.
LEMMA MadeOf ==
  ASSUME NEW s, IsList(s)
  PROVE  /\ (\A j \in 1 .. Len(s) : s[j][2] # Missing) => Made(s) = Object(s)
         /\ \A i \in 1 .. Len(s) : s[i][2] = Missing /\ (\A j \in 1 .. Len(s) : s[j][2] = Missing => j = i)
                                     => Made(s) = Object(RemoveAt(s, i))
<1> DEFINE I == {j \in 1 .. Len(s) : s[j][2] = Missing}
<1>1. Made(s) = IF I = {} THEN Object(s) ELSE IF Min(I) = 0 THEN Object(s) ELSE Object(RemoveAt(s, Min(I)))
  BY DEF Made, SelectInSeq
<1>2. ASSUME NEW i \in 1 .. Len(s), s[i][2] = Missing, \A j \in 1 .. Len(s) : s[j][2] = Missing => j = i
      PROVE  Made(s) = Object(RemoveAt(s, i))
  <2>1. I = {i} /\ i \in Nat /\ i # 0
    BY <1>2 DEF IsList
  <2> HIDE DEF I
  <2>2. Min(I) \in I
    BY <2>1, MinIsLeast
  <2> QED BY <1>1, <2>1, <2>2
<1>3. ASSUME \A j \in 1 .. Len(s) : s[j][2] # Missing
      PROVE  Made(s) = Object(s)
  <2>1. I = {}
    BY <1>3
  <2> QED BY <1>1, <2>1
<1> QED BY <1>2, <1>3

\* So its fields read as what they were given, NULL among them: one field.
LEMMA MadeOfOne ==
  ASSUME NEW a, NEW x
  PROVE  LET o == Made(<<<<a, x>> >>)
         IN  o[1] = "obj" /\ Get(o, a) = x
<1> DEFINE s == <<<<a, x>> >>
<1>1. IsList(s) /\ Len(s) = 1 /\ s[1][2] = x
  BY DEF IsList
<1>2. CASE x = Missing
  <2>1. Made(s) = Object(RemoveAt(s, 1))
    <3> HIDE DEF s
    <3> QED BY <1>1, <1>2, MadeOf
  <2>2. RemoveAt(s, 1) = <<>>
    BY RemovedAt
  <2>3. Made(s) = <<"obj", <<>> >> /\ Get(Made(s), a) = Missing
    BY <2>1, <2>2, NoFields
  <2> QED BY <1>2, <2>3
<1>3. CASE x # Missing
  <2>1. Made(s) = Object(s)
    <3> HIDE DEF s
    <3> QED BY <1>1, <1>3, MadeOf
  <2> QED BY <2>1, ObjectOfOne
<1> QED BY <1>2, <1>3

\* Two.
LEMMA MadeOfTwo ==
  ASSUME NEW a, NEW x, NEW b, NEW y, a # b, x # Missing \/ y # Missing
  PROVE  LET o == Made(<<<<a, x>>, <<b, y>> >>)
         IN  o[1] = "obj" /\ Get(o, a) = x /\ Get(o, b) = y
<1> DEFINE s == <<<<a, x>>, <<b, y>> >>
<1>1. IsList(s) /\ Len(s) = 2 /\ s[1][2] = x /\ s[2][2] = y
  BY DEF IsList
<1>2. s = <<<<a, x>>, <<b, y>> >>
  OBVIOUS
<1> HIDE DEF s
<1>3. CASE x = Missing
  <2>1. Made(s) = Object(RemoveAt(s, 1))
    BY <1>1, <1>3, MadeOf
  <2>2. RemoveAt(s, 1) = <<<<b, y>> >>
    BY <1>2, RemovedAt
  <2>3. Made(s)[1] = "obj" /\ Get(Made(s), b) = y /\ Get(Made(s), a) = Missing
    BY <2>1, <2>2, ObjectOfOne
  <2> QED BY <1>2, <1>3, <2>3
<1>4. CASE y = Missing
  <2>1. Made(s) = Object(RemoveAt(s, 2))
    BY <1>1, <1>4, MadeOf
  <2>2. RemoveAt(s, 2) = <<<<a, x>> >>
    BY <1>2, RemovedAt
  <2>3. Made(s)[1] = "obj" /\ Get(Made(s), a) = x /\ Get(Made(s), b) = Missing
    BY <2>1, <2>2, ObjectOfOne
  <2> QED BY <1>2, <1>4, <2>3
<1>5. CASE x # Missing /\ y # Missing
  <2>1. Made(s) = Object(s)
    BY <1>1, <1>5, MadeOf
  <2>2. Object(s)[1] = "obj" /\ Get(Object(s), a) = x /\ Get(Object(s), b) = y
    BY <1>2, ObjectOfTwo
  <2> QED BY <1>2, <2>1, <2>2
<1> QED BY <1>3, <1>4, <1>5

\* Three, of which the last is there.
LEMMA MadeOfThree ==
  ASSUME NEW a, NEW x, NEW b, NEW y, NEW c, NEW z, a # b, b # c, a # c, x # Missing \/ y # Missing, z # Missing
  PROVE  LET o == Made(<<<<a, x>>, <<b, y>>, <<c, z>> >>)
         IN  o[1] = "obj" /\ Get(o, a) = x /\ Get(o, b) = y /\ Get(o, c) = z
<1> DEFINE s == <<<<a, x>>, <<b, y>>, <<c, z>> >>
<1>1. IsList(s) /\ Len(s) = 3 /\ s[1][2] = x /\ s[2][2] = y /\ s[3][2] = z
  BY DEF IsList
<1>2. s = <<<<a, x>>, <<b, y>>, <<c, z>> >>
  OBVIOUS
<1> HIDE DEF s
<1>3. CASE x = Missing
  <2>1. Made(s) = Object(RemoveAt(s, 1))
    BY <1>1, <1>3, MadeOf
  <2>2. RemoveAt(s, 1) = <<<<b, y>>, <<c, z>> >>
    BY <1>2, RemovedAt
  <2>3. Made(s)[1] = "obj" /\ Get(Made(s), b) = y /\ Get(Made(s), c) = z /\ Get(Made(s), a) = Missing
    BY <2>1, <2>2, ObjectOfTwo
  <2> QED BY <1>2, <1>3, <2>3
<1>4. CASE y = Missing
  <2>1. Made(s) = Object(RemoveAt(s, 2))
    BY <1>1, <1>4, MadeOf
  <2>2. RemoveAt(s, 2) = <<<<a, x>>, <<c, z>> >>
    BY <1>2, RemovedAt
  <2>3. Made(s)[1] = "obj" /\ Get(Made(s), a) = x /\ Get(Made(s), c) = z /\ Get(Made(s), b) = Missing
    BY <2>1, <2>2, ObjectOfTwo
  <2> QED BY <1>2, <1>4, <2>3
<1>5. CASE x # Missing /\ y # Missing
  <2>1. Made(s) = Object(s)
    BY <1>1, <1>5, MadeOf
  <2>2. Object(s)[1] = "obj" /\ Get(Object(s), a) = x /\ Get(Object(s), b) = y /\ Get(Object(s), c) = z
    BY <1>2, ObjectOfThree
  <2> QED BY <1>2, <2>1, <2>2
<1> QED BY <1>3, <1>4, <1>5

\* The scan of any text satisfies its equations.
ScanBody(text, k, start) == StepOf(text, start, k)
Scanning == INSTANCE RecursiveFunctions WITH Body <- ScanBody
LEMMA ScanSteps ==
  ASSUME NEW text
  PROVE  \A k \in 1 .. 7 : Scan(text)[k] = StepOf(text, Scan(text), k)
<1> DEFINE rank == [k \in 1 .. 7 |-> k]
           scan == Scan(text)
<1>1. Scanning!LooksLower(text, 1 .. 7, rank)
  <2> SUFFICES ASSUME NEW k \in 1 .. 7, NEW f, NEW g,
                      \A j \in 1 .. 7 : rank[j] < rank[k] => f[j] = g[j]
               PROVE  ScanBody(text, k, f) = ScanBody(text, k, g)
    BY DEF Scanning!LooksLower
  <2>1. k # 1 => f[k - 1] = g[k - 1]
    OBVIOUS
  <2> HIDE DEF rank
  <2> QED BY <2>1 DEF ScanBody, StepOf
<1>2. \A k \in 1 .. 7 : rank[k] \in Nat
  OBVIOUS
<1>3. \E f : Scanning!Solves(text, 1 .. 7, f)
  <2> HIDE DEF rank
  <2> QED BY <1>1, <1>2, Scanning!Solved
<1>4. \E f : f = [k \in 1 .. 7 |-> ScanBody(text, k, f)]
  BY <1>3 DEF Scanning!Solves
<1>5. scan = CHOOSE f : f = [k \in 1 .. 7 |-> ScanBody(text, k, f)]
  BY Zenon DEF Scan, StepOf, ScanBody
<1> HIDE DEF scan
<1>6. scan = [k \in 1 .. 7 |-> ScanBody(text, k, scan)]
  BY <1>4, <1>5
<1>7. \A k \in 1 .. 7 : scan[k] = ScanBody(text, k, scan)
  BY <1>6
<1> QED BY <1>7 DEF scan, ScanBody

\* How many digits are read is a number.
LEMMA DigitsReadIsNumber ==
  ASSUME NEW text, NEW i, NEW w \in {2, 4}
  PROVE  DigitsRead(text, i, w) \in Nat
<1> DEFINE R == {n \in 1 .. w : /\ i + n - 1 <= Len(text)
                                /\ \A j \in i .. i + n - 1 : IsDecimal(text[j])}
<1>1. IsFiniteSet(1 .. w)
  <2>1. 1 \in Int /\ w \in Int
    OBVIOUS
  <2> QED BY <2>1, FS_Interval
<1>2. R \subseteq 1 .. w
  OBVIOUS
<1> HIDE DEF R
<1>3. Cardinality(R) \in Nat
  BY <1>1, <1>2, FS_Subset, FS_CardinalityType
<1> QED BY <1>3 DEF DigitsRead, R

\* A text without a dash is no date: the scan stops before the month.
LEMMA NoDashNoDate ==
  ASSUME NEW text, Len(text) \in Nat, \A j \in 1 .. Len(text) : text[j] # "-"
  PROVE  ~IsDate(text)
<1> DEFINE s == Scan(text)
           n == DigitsRead(text, 1, 4)
<1>1. \A k \in 1 .. 7 : s[k] = StepOf(text, s, k)
  BY ScanSteps
<1>2. n \in Nat
  BY DigitsReadIsNumber
<1> HIDE DEF s, n
<1>3. s[1] = 1
  BY <1>1 DEF StepOf
<1>4. s[2] = 0
  <2>1. s[2] = IF n # 0 /\ 1 + n <= Len(text) /\ text[1 + n] = "-" THEN 1 + n + 1 ELSE 0
    <3>1. s[2] = StepOf(text, s, 2)
      BY <1>1
    <3> QED BY <1>3, <3>1 DEF StepOf, n
  <2>2. n # 0 /\ 1 + n <= Len(text) => 1 + n \in 1 .. Len(text)
    BY <1>2
  <2> QED BY <2>1, <2>2
<1>5. \A k \in 3 .. 7 : s[k - 1] = 0 => s[k] = 0
  BY <1>1 DEF StepOf
<1>6. s[3] = 0 BY <1>4, <1>5
<1>7. s[4] = 0 BY <1>6, <1>5
<1>8. s[5] = 0 BY <1>7, <1>5
<1>9. s[6] = 0 BY <1>8, <1>5
<1>10. s[7] = 0 BY <1>9, <1>5
<1> QED BY <1>10 DEF IsDate, s

\* The four texts the calls write for a date are none.
LEMMA NotDates ==
  ASSUME NEW t \in Undated
  PROVE  ~IsDate(t)
<1>1. CASE t = <<>>
  <2>1. Len(t) = 0 /\ \A j \in 1 .. Len(t) : t[j] # "-"
    BY <1>1
  <2> QED BY <2>1, NoDashNoDate
<1>2. CASE t = <<"n", "e", "v", "e", "r">>
  <2>1. Len(t) = 5 /\ \A j \in 1 .. 5 : t[j] # "-"
    BY <1>2
  <2> QED BY <2>1, NoDashNoDate
<1>3. CASE t = <<"2", "1", "0", "0">>
  <2>1. Len(t) = 4 /\ \A j \in 1 .. 4 : t[j] # "-"
    BY <1>3
  <2> QED BY <2>1, NoDashNoDate
<1>4. CASE t = MonthThirteen
  <2> DEFINE s == Scan(t)
  <2>1. /\ Len(t) = 16 /\ t[1] = "2" /\ t[2] = "1" /\ t[3] = "0" /\ t[4] = "0" /\ t[5] = "-"
        /\ t[6] = "1" /\ t[7] = "3" /\ t[8] = "-"
    BY <1>4 DEF MonthThirteen
  <2>2. IsDecimal("0") /\ IsDecimal("1") /\ IsDecimal("2") /\ IsDecimal("3")
    <3>1. \A n \in 1 .. 10 : IsDecimal(HexDigits[n])
      BY DEF IsDecimal
    <3>2. HexDigits[1] = "0" /\ HexDigits[2] = "1" /\ HexDigits[3] = "2" /\ HexDigits[4] = "3"
      BY DEF HexDigits
    <3> QED BY <3>1, <3>2
  <2>3. DigitsRead(t, 1, 4) = 4 /\ DigitsRead(t, 6, 2) = 2
    <3>1. 1 \in 1 .. 19 /\ 4 \in {2, 4} /\ 1 + 4 - 1 <= Len(t) /\ \A j \in 1 .. 1 + 4 - 1 : IsDecimal(t[j])
      BY <2>1, <2>2
    <3>2. 6 \in 1 .. 19 /\ 2 \in {2, 4} /\ 6 + 2 - 1 <= Len(t) /\ \A j \in 6 .. 6 + 2 - 1 : IsDecimal(t[j])
      BY <2>1, <2>2
    <3>3. Len(t) \in Nat
      BY <2>1
    <3> QED BY <3>1, <3>2, <3>3, DigitsCounted
  <2>4. \A k \in 1 .. 7 : s[k] = StepOf(t, s, k)
    BY ScanSteps
  <2> HIDE DEF s
  <2>5. s[1] = 1
    BY <2>4 DEF StepOf
  <2>6. s[2] = 6
    <3>1. s[2] = StepOf(t, s, 2)
      BY <2>4
    <3> QED BY <2>1, <2>3, <2>5, <3>1 DEF StepOf
  <2>7. s[3] = 9
    <3>1. s[3] = StepOf(t, s, 3)
      BY <2>4
    <3> QED BY <2>1, <2>3, <2>6, <3>1 DEF StepOf
  <2> DEFINE digit(i) == IF i < 6 THEN 0 ELSE HexVal(t[i])
  <2>8. Read(t, 2) = 1000 * digit(4) + 100 * digit(5) + 10 * digit(6) + digit(7)
    <3>1. s[2 + 1] = 9
      BY <2>7
    <3> QED BY <2>6, <3>1 DEF Read, s
  <2>9. HexVal("1") = 1 /\ HexVal("3") = 3
    <3>1. HexDigits[2] = "1" /\ HexDigits[4] = "3"
      BY DEF HexDigits
    <3> QED BY <3>1, ValueOfDigit
  <2>10. digit(4) = 0 /\ digit(5) = 0 /\ digit(6) = 1 /\ digit(7) = 3
    BY <2>1, <2>9
  <2> HIDE DEF digit
  <2>11. Read(t, 2) = 13
    BY <2>8, <2>10
  <2> QED BY <2>11 DEF IsDate
<1> QED BY <1>1, <1>2, <1>3, <1>4, Zenon DEF Undated

\* A key's text with its end replaced or with more is no digest.
LEMMA OtherTextsAreNoDigests ==
  ASSUME NEW b \in [1 .. DigestBytes -> Byte]
  PROVE  ~IsDigest(Append(Tail(HexEncode(b)), "g")) /\ ~IsDigest(HexEncode(b) \o <<"0", "0">>)
<1> DEFINE hex == HexEncode(b)
<1>1. DigestBytes \in Nat \ {0} /\ Written(hex, DigestBytes, b)
  BY CryptoAssumption, WrittenByEncode
<1> DEFINE S == {hex[i] : i \in DOMAIN hex} \cup {"0", "g"}
<1>2. Len(hex) = 2 * DigestBytes /\ hex \in Seq(S) /\ "g" \in S /\ "0" \in S
  <2>1. hex = [i \in 1 .. 2 * DigestBytes |-> hex[i]] /\ DOMAIN hex = 1 .. 2 * DigestBytes
    BY <1>1 DEF Written, HexEncode
  <2> HIDE DEF hex
  <2>2. hex \in [1 .. 2 * DigestBytes -> S]
    BY <2>1
  <2>3. 2 * DigestBytes \in Nat
    BY <1>1
  <2> HIDE DEF S
  <2>4. hex \in Seq(S) /\ Len(hex) = 2 * DigestBytes
    BY <2>2, <2>3
  <2> QED BY <2>4 DEF S
<1> HIDE DEF hex, S
<1>3. hex # <<>>
  BY <1>1, <1>2
<1>4. Tail(hex) \in Seq(S) /\ Len(Tail(hex)) = 2 * DigestBytes - 1
  BY <1>1, <1>2, <1>3
<1> DEFINE t == Append(Tail(hex), "g")
           u == hex \o <<"0", "0">>
           n == 2 * DigestBytes
<1>5. n \in Nat /\ n >= 1
  BY <1>1
<1>6. Len(t) = n /\ n \in DOMAIN t /\ t[n] = "g"
  <2>1. t \in Seq(S) /\ Len(t) = Len(Tail(hex)) + 1 /\ t[Len(Tail(hex)) + 1] = "g"
    BY <1>2, <1>4
  <2>2. Len(Tail(hex)) + 1 = n
    BY <1>1, <1>4
  <2> HIDE DEF t, n
  <2> QED BY <1>5, <2>1, <2>2
<1>7. HexVal("g") = -1
  BY DEF HexVal, HexDigits, HexUpper
<1>8. ~IsDigest(t)
  <2>1. ~(HexVal("g") >= 0)
    BY <1>7
  <2> HIDE DEF t
  <2> QED BY <1>6, <2>1, Zenon DEF IsDigest
<1>9. Len(u) \div 2 # DigestBytes
  <2>1. <<"0", "0">> \in Seq(S) /\ Len(<<"0", "0">>) = 2
    BY <1>2
  <2>2. Len(u) = n + 2
    BY <1>2, <2>1
  <2> QED BY <1>1, <2>2
<1>10. ~IsDigest(u)
  BY <1>9, Zenon DEF IsDigest
<1> QED BY <1>8, <1>10 DEF hex, t, u

\* A piece of a broken document.
Piece(path, here, v, w) == IF path = here THEN w ELSE v

\* The objects of a broken root.
RolePart(path, w) ==
  Made(<<<<"keyids", Piece(path, <<"roles", "targets", "keyids">>, <<"arr", <<Word("a")>> >>, w)>>,
         <<"threshold", Piece(path, <<"roles", "targets", "threshold">>, <<"num", 1>>, w)>> >>)
RolesPart(path, w) == Made(<<<<"targets", Piece(path, <<"roles", "targets">>, RolePart(path, w), w)>> >>)
ValPart(path, w) ==
  Made(<<<<"public", Piece(path, <<"keys", "a", "keyval", "public">>, <<"str", HexEncode(PubOf.a)>>, w)>> >>)
KeyPart(path, w) ==
  Made(<<<<"keytype", Piece(path, <<"keys", "a", "keytype">>, Word("ED25519"), w)>>,
         <<"keyval", Piece(path, <<"keys", "a", "keyval">>, ValPart(path, w), w)>> >>)
KeysPart(path, w) ==
  Made(<<<<"a", Piece(path, <<"keys", "a">>, KeyPart(path, w), w)>>, <<"b", KeyObject("b")>> >>)

\* The fields of a broken root, each as it is or broken.
LEMMA BrokenRootFields ==
  ASSUME NEW path, NEW w
  PROVE  LET r == BrokenRoot(path, w)
             role == RolePart(path, w)   roles == RolesPart(path, w)
             val == ValPart(path, w)     key == KeyPart(path, w)     keys == KeysPart(path, w)
         IN  /\ IsObject(role) /\ IsObject(roles) /\ IsObject(val) /\ IsObject(key) /\ IsObject(keys)
             /\ Get(r, "roles") = Piece(path, <<"roles">>, roles, w)
             /\ Get(r, "keys") = Piece(path, <<"keys">>, keys, w)
             /\ Get(roles, "targets") = Piece(path, <<"roles", "targets">>, role, w)
             /\ Get(role, "keyids") = Piece(path, <<"roles", "targets", "keyids">>, <<"arr", <<Word("a")>> >>, w)
             /\ Get(role, "threshold") = Piece(path, <<"roles", "targets", "threshold">>, <<"num", 1>>, w)
             /\ Get(keys, "a") = Piece(path, <<"keys", "a">>, key, w)
             /\ Get(key, "keytype") = Piece(path, <<"keys", "a", "keytype">>, Word("ED25519"), w)
             /\ Get(key, "keyval") = Piece(path, <<"keys", "a", "keyval">>, val, w)
             /\ Get(val, "public") = Piece(path, <<"keys", "a", "keyval", "public">>, <<"str", HexEncode(PubOf.a)>>, w)
<1> DEFINE r == BrokenRoot(path, w)
           role == RolePart(path, w)
           roles == RolesPart(path, w)
           val == ValPart(path, w)
           key == KeyPart(path, w)
           keys == KeysPart(path, w)
           pub == <<"str", HexEncode(PubOf.a)>>
<1>0. \A h1, h2, x, y : h1 # h2 /\ x # Missing /\ y # Missing
        => Piece(path, h1, x, w) # Missing \/ Piece(path, h2, y, w) # Missing
  BY DEF Piece
<1>1. \A v : v[1] \in {"obj", "arr", "num", "str"} => v # Missing
  BY DEF Missing
<1>2. role[1] = "obj" /\ Get(role, "keyids") = Piece(path, <<"roles", "targets", "keyids">>, <<"arr", <<Word("a")>> >>, w)
      /\ Get(role, "threshold") = Piece(path, <<"roles", "targets", "threshold">>, <<"num", 1>>, w)
  <2> DEFINE x == Piece(path, <<"roles", "targets", "keyids">>, <<"arr", <<Word("a")>> >>, w)
             y == Piece(path, <<"roles", "targets", "threshold">>, <<"num", 1>>, w)
  <2>1. <<"roles", "targets", "keyids">> # <<"roles", "targets", "threshold">> /\ "keyids" # "threshold"
    OBVIOUS
  <2>2. <<"arr", <<Word("a")>> >> # Missing /\ <<"num", 1>> # Missing
    BY DEF Missing
  <2>3. x # Missing \/ y # Missing
    BY <1>0, <2>1, <2>2
  <2>4. role = Made(<<<<"keyids", x>>, <<"threshold", y>> >>)
    BY DEF RolePart
  <2> HIDE DEF x, y, role
  <2>5. role[1] = "obj" /\ Get(role, "keyids") = x /\ Get(role, "threshold") = y
    BY <2>1, <2>3, <2>4, MadeOfTwo
  <2> QED BY <2>5 DEF x, y
<1> HIDE DEF role
<1>3. roles[1] = "obj" /\ Get(roles, "targets") = Piece(path, <<"roles", "targets">>, role, w)
  BY MadeOfOne DEF RolesPart, role
<1>4. val[1] = "obj" /\ Get(val, "public") = Piece(path, <<"keys", "a", "keyval", "public">>, pub, w)
  BY MadeOfOne DEF ValPart
<1> HIDE DEF val, roles
<1>5. key[1] = "obj" /\ Get(key, "keytype") = Piece(path, <<"keys", "a", "keytype">>, Word("ED25519"), w)
      /\ Get(key, "keyval") = Piece(path, <<"keys", "a", "keyval">>, val, w)
  <2> DEFINE x == Piece(path, <<"keys", "a", "keytype">>, Word("ED25519"), w)
             y == Piece(path, <<"keys", "a", "keyval">>, val, w)
  <2>1. <<"keys", "a", "keytype">> # <<"keys", "a", "keyval">> /\ "keytype" # "keyval"
    OBVIOUS
  <2>2. Word("ED25519") # Missing /\ val # Missing
    BY <1>1, <1>4 DEF Missing, Word
  <2>3. x # Missing \/ y # Missing
    BY <1>0, <2>1, <2>2
  <2>4. key = Made(<<<<"keytype", x>>, <<"keyval", y>> >>)
    BY DEF KeyPart, val
  <2> HIDE DEF x, y, key
  <2>5. key[1] = "obj" /\ Get(key, "keytype") = x /\ Get(key, "keyval") = y
    BY <2>1, <2>3, <2>4, MadeOfTwo
  <2> QED BY <2>5 DEF x, y
<1> HIDE DEF key
<1>6. keys[1] = "obj" /\ Get(keys, "a") = Piece(path, <<"keys", "a">>, key, w)
  <2> DEFINE x == Piece(path, <<"keys", "a">>, key, w)
             y == KeyObject("b")
  <2>1. y # Missing /\ "a" # "b"
    BY <1>1, KeyOfObject DEF KeyIds, IsObject
  <2>2. keys = Made(<<<<"a", x>>, <<"b", y>> >>)
    BY DEF KeysPart, key
  <2> HIDE DEF x, y, keys
  <2>3. keys[1] = "obj" /\ Get(keys, "a") = x
    BY <2>1, <2>2, MadeOfTwo
  <2> QED BY <2>3 DEF x
<1> HIDE DEF keys
<1>7. Get(r, "roles") = Piece(path, <<"roles">>, roles, w) /\ Get(r, "keys") = Piece(path, <<"keys">>, keys, w)
  <2> DEFINE x == Piece(path, <<"roles">>, roles, w)
             y == Piece(path, <<"keys">>, keys, w)
  <2>1. <<"roles">> # <<"keys">> /\ "roles" # "keys"
    OBVIOUS
  <2>2. roles # Missing /\ keys # Missing
    BY <1>1, <1>3, <1>6
  <2>3. x # Missing \/ y # Missing
    BY <1>0, <2>1, <2>2
  <2>4. r = Made(<<<<"roles", x>>, <<"keys", y>> >>)
    BY DEF BrokenRoot, Piece, roles, keys, RolesPart, RolePart, KeysPart, KeyPart, ValPart
  <2> HIDE DEF x, y, r
  <2>5. Get(r, "roles") = x /\ Get(r, "keys") = y
    BY <2>1, <2>3, <2>4, MadeOfTwo
  <2> QED BY <2>5 DEF x, y
<1> QED BY <1>2, <1>3, <1>4, <1>5, <1>6, <1>7 DEF IsObject, r, role, roles, val, key, keys, pub

\* The objects of a broken envelope.
SignedOf(path, w) ==
  Made(<<<<"version", Piece(path, <<"signed", "version">>, <<"num", 2>>, w)>>,
         <<"expires", Piece(path, <<"signed", "expires">>, <<"str", DateText(Noon)>>, w)>>,
         <<"_type", Word("Targets")>> >>)
SigOf(path, w) == SignatureOf(MethodOf.a, PubOf.a, Canonical(SignedOf(path, w)))
EntryOf(path, w) ==
  Made(<<<<"keyid", Piece(path, <<"signatures", "keyid">>, Word("a"), w)>>,
         <<"sig", Piece(path, <<"signatures", "sig">>, <<"str", SigOf(path, w)>>, w)>> >>)

\* The fields of a broken envelope, each as it is or broken.
LEMMA BrokenEnvelopeFields ==
  ASSUME NEW path, NEW w
  PROVE  LET e == BrokenEnvelope(path, w)
             signed == SignedOf(path, w)     entry == EntryOf(path, w)
         IN  /\ IsObject(signed) /\ IsObject(entry)
             /\ Get(e, "signed") = Piece(path, <<"signed">>, signed, w)
             /\ Get(e, "signatures") = Piece(path, <<"signatures">>, <<"arr", <<entry>> >>, w)
             /\ Get(signed, "version") = Piece(path, <<"signed", "version">>, <<"num", 2>>, w)
             /\ Get(signed, "expires") = Piece(path, <<"signed", "expires">>, <<"str", DateText(Noon)>>, w)
             /\ Get(entry, "keyid") = Piece(path, <<"signatures", "keyid">>, Word("a"), w)
             /\ Get(entry, "sig") = Piece(path, <<"signatures", "sig">>, <<"str", SigOf(path, w)>>, w)
             /\ path \notin {<<"signed", "version">>, <<"signed", "expires">>} => signed = Part(2, DateText(Noon))
<1> DEFINE e == BrokenEnvelope(path, w)
           signed == SignedOf(path, w)
           entry == EntryOf(path, w)
           type == Word("Targets")
           exp == <<"str", DateText(Noon)>>
           sig == <<"str", SigOf(path, w)>>
<1>0. \A h1, h2, x, y : h1 # h2 /\ x # Missing /\ y # Missing
        => Piece(path, h1, x, w) # Missing \/ Piece(path, h2, y, w) # Missing
  BY DEF Piece
<1>1. \A v : v[1] \in {"obj", "arr", "num", "str"} => v # Missing
  BY DEF Missing
<1>2. /\ signed[1] = "obj"
      /\ Get(signed, "version") = Piece(path, <<"signed", "version">>, <<"num", 2>>, w)
      /\ Get(signed, "expires") = Piece(path, <<"signed", "expires">>, exp, w)
      /\ path \notin {<<"signed", "version">>, <<"signed", "expires">>} => signed = Part(2, DateText(Noon))
  <2> DEFINE x == Piece(path, <<"signed", "version">>, <<"num", 2>>, w)
             y == Piece(path, <<"signed", "expires">>, exp, w)
             s == <<<<"version", x>>, <<"expires", y>>, <<"_type", type>> >>
  <2>1. /\ <<"signed", "version">> # <<"signed", "expires">>
        /\ "version" # "expires" /\ "expires" # "_type" /\ "version" # "_type"
    OBVIOUS
  <2>2. <<"num", 2>> # Missing /\ exp # Missing /\ type # Missing
    BY DEF Missing, Word
  <2>3. x # Missing \/ y # Missing
    <3> HIDE DEF exp
    <3> QED BY <1>0, <2>1, <2>2
  <2>4. signed = Made(s)
    BY DEF SignedOf
  <2>5. ASSUME path \notin {<<"signed", "version">>, <<"signed", "expires">>}
        PROVE  signed = Part(2, DateText(Noon))
    <3>1. x = <<"num", 2>> /\ y = exp
      BY <2>5 DEF Piece
    <3>2. IsList(s) /\ Len(s) = 3 /\ s[1][2] = x /\ s[2][2] = y /\ s[3][2] = type
      BY DEF IsList
    <3>3. s = SignedFields(2, DateText(Noon))
      BY <3>1 DEF SignedFields
    <3> HIDE DEF s, x, y, exp, type, signed
    <3>4. \A j \in 1 .. Len(s) : s[j][2] # Missing
      BY <2>2, <3>1, <3>2
    <3>5. Made(s) = Object(s)
      BY <3>2, <3>4, MadeOf
    <3> QED BY <2>4, <3>3, <3>5 DEF Part
  <2> HIDE DEF x, y, type, signed, exp
  <2>6. signed[1] = "obj" /\ Get(signed, "version") = x /\ Get(signed, "expires") = y
    BY <2>1, <2>2, <2>3, <2>4, MadeOfThree
  <2> QED BY <2>5, <2>6 DEF x, y
<1> HIDE DEF signed
<1>3. /\ entry[1] = "obj"
      /\ Get(entry, "keyid") = Piece(path, <<"signatures", "keyid">>, Word("a"), w)
      /\ Get(entry, "sig") = Piece(path, <<"signatures", "sig">>, sig, w)
  <2> DEFINE x == Piece(path, <<"signatures", "keyid">>, Word("a"), w)
             y == Piece(path, <<"signatures", "sig">>, sig, w)
  <2>1. <<"signatures", "keyid">> # <<"signatures", "sig">> /\ "keyid" # "sig"
    OBVIOUS
  <2>2. Word("a") # Missing /\ sig # Missing
    BY DEF Missing, Word
  <2>3. x # Missing \/ y # Missing
    BY <1>0, <2>1, <2>2
  <2>4. entry = Made(<<<<"keyid", x>>, <<"sig", y>> >>)
    BY DEF EntryOf
  <2> HIDE DEF x, y, entry
  <2>5. entry[1] = "obj" /\ Get(entry, "keyid") = x /\ Get(entry, "sig") = y
    BY <2>1, <2>3, <2>4, MadeOfTwo
  <2> QED BY <2>5 DEF x, y
<1> HIDE DEF entry
<1>4. /\ Get(e, "signatures") = Piece(path, <<"signatures">>, <<"arr", <<entry>> >>, w)
      /\ Get(e, "signed") = Piece(path, <<"signed">>, signed, w)
  <2> DEFINE x == Piece(path, <<"signatures">>, <<"arr", <<entry>> >>, w)
             y == Piece(path, <<"signed">>, signed, w)
  <2>1. <<"signatures">> # <<"signed">> /\ "signatures" # "signed"
    OBVIOUS
  <2>2. <<"arr", <<entry>> >> # Missing /\ signed # Missing
    BY <1>1, <1>2 DEF Missing
  <2>3. x # Missing \/ y # Missing
    BY <1>0, <2>1, <2>2
  <2>4. e = Made(<<<<"signatures", x>>, <<"signed", y>> >>)
    BY DEF BrokenEnvelope, Piece, entry, signed, SignedOf, EntryOf, SigOf
  <2> HIDE DEF x, y, e
  <2>5. Get(e, "signatures") = x /\ Get(e, "signed") = y
    BY <2>1, <2>3, <2>4, MadeOfTwo
  <2> QED BY <2>5 DEF x, y
<1> QED BY <1>2, <1>3, <1>4 DEF IsObject, e, entry, signed, sig, exp

\* With one entry and one key id, one round of the counting loop decides.
Votes(keys, entry, text) ==
  LET sig == Get(entry, "sig")
  IN  /\ Get(entry, "keyid") = Word("a")
      /\ IsObject(Get(keys, "a")) /\ IsString(sig) /\ Base64Decode(sig[2]) # Missing
      /\ VerifyWithPubkey(ParseTufKey(Get(keys, "a")), text, Base64Decode(sig[2]))
LEMMA OneVote ==
  ASSUME NEW keys, NEW entry, NEW text
  PROVE  ValidCount(keys, <<"arr", <<Word("a")>> >>, <<"arr", <<entry>> >>, text) >= 1 <=> Votes(keys, entry, text)
<1> DEFINE s == <<"arr", <<entry>> >>
           kid == Word("a")
           ids == <<"arr", <<kid>> >>
           V == {i \in DOMAIN ids[2] : SignedBy(keys, s, ids[2][i], text)}
<1>1. s[2] = <<entry>> /\ IsList(s[2]) /\ Len(s[2]) = 1 /\ s[2][1] = entry
  BY DEF IsList
<1>2. IsString(kid) /\ kid[2] = <<"a">>
  BY DEF Word, IsString
<1>3. DOMAIN ids[2] = {1} /\ ids[2][1] = kid
  OBVIOUS
<1> HIDE DEF s, kid, ids
<1>4. SignedBy(keys, s, kid, text) <=> Votes(keys, entry, text)
  <2>1. CASE Get(entry, "keyid") = kid
    <3>1. FindSig(s, kid) = entry
      <4>1. 1 \in 1 .. Len(s[2]) /\ Get(s[2][1], "keyid") = kid /\ \A j \in 1 .. 1 - 1 : Get(s[2][j], "keyid") # kid
        BY <1>1, <2>1
      <4>2. FindSig(s, kid) = s[2][1]
        BY <1>1, <4>1, FirstEntry
      <4> QED BY <1>1, <4>2
    <3> QED BY <1>2, <2>1, <3>1, Zenon DEF SignedBy, Votes, Get, kid
  <2>2. CASE Get(entry, "keyid") # kid
    <3>1. FindSig(s, kid) = Missing
      <4>1. \A j \in 1 .. Len(s[2]) : Get(s[2][j], "keyid") # kid
        BY <1>1, <2>2
      <4> QED BY <1>1, <4>1, NoEntry
    <3>2. ~IsString(Get(Missing, "sig"))
      BY DEF Get, GetText, Missing, IsObject, IsString
    <3> QED BY <2>2, <3>1, <3>2, Zenon DEF SignedBy, Votes, kid
  <2> QED BY <2>1, <2>2
<1>5. V = IF SignedBy(keys, s, kid, text) THEN {1} ELSE {}
  BY <1>3
<1>6. Cardinality({1}) = 1 /\ Cardinality({}) = 0
  BY FS_Singleton, FS_EmptySet
<1>7. ValidCount(keys, ids, s, text) = Cardinality(V)
  BY DEF ValidCount
<1> HIDE DEF V
<1>8. Cardinality(V) >= 1 <=> SignedBy(keys, s, kid, text)
  BY <1>5, <1>6
<1> QED BY <1>4, <1>7, <1>8 DEF s, kid, ids

\* When the broken documents are checked, and the answer.
LeapDay == <<2024, 2, 29, 0>>
AnswerToBroken(path, w) ==
  UptaneVerifyRole(BrokenRoot(path, w), "targets", BrokenEnvelope(path, w), Instant(LeapDay), 2)

\* A value of no type a document needs has none.
LEMMA BlanksHaveNoType ==
  ASSUME NEW w \in Blanks
  PROVE  ~IsObject(w) /\ ~IsArray(w) /\ ~IsNumber(w) /\ ~IsString(w) /\ w # Word("a")
<1>1. w[1] \in {"none", "null", "bool"}
  <2>1. Missing[1] = "none" /\ <<"null">>[1] = "null" /\ <<"bool", TRUE>>[1] = "bool"
    BY DEF Missing
  <2> QED BY <2>1, Zenon DEF Blanks
<1>2. Word("a")[1] = "str"
  BY DEF Word
<1>3. w[1] # "str" /\ w[1] # "obj" /\ w[1] # "arr" /\ w[1] # "num"
  BY <1>1
<1>4. w # Word("a")
  BY <1>2, <1>3
<1> QED BY <1>3, <1>4 DEF IsObject, IsArray, IsNumber, IsString

\* The pieces the library looks at before it counts.
Structure == {<<"roles">>, <<"keys">>, <<"roles", "targets">>, <<"roles", "targets", "keyids">>,
              <<"roles", "targets", "threshold">>, <<"signed">>, <<"signatures">>}

\* Without one of them nothing is accepted.
LEMMA StructureNeeded ==
  ASSUME NEW path \in Structure, NEW w \in Blanks
  PROVE  AnswerToBroken(path, w) # "ESP_OK"
<1> DEFINE r == BrokenRoot(path, w)
           e == BrokenEnvelope(path, w)
           ids == <<"arr", <<Word("a")>> >>
           one == <<"num", 1>>
           roles == RolesPart(path, w)
           role == RolePart(path, w)
           keys == KeysPart(path, w)
           signed == SignedOf(path, w)
           entries == <<"arr", <<EntryOf(path, w)>> >>
<1>1. /\ Get(r, "roles") = Piece(path, <<"roles">>, roles, w)
      /\ Get(r, "keys") = Piece(path, <<"keys">>, keys, w)
      /\ Get(roles, "targets") = Piece(path, <<"roles", "targets">>, role, w)
      /\ Get(role, "keyids") = Piece(path, <<"roles", "targets", "keyids">>, ids, w)
      /\ Get(role, "threshold") = Piece(path, <<"roles", "targets", "threshold">>, one, w)
  BY BrokenRootFields
<1>2. /\ Get(e, "signed") = Piece(path, <<"signed">>, signed, w)
      /\ Get(e, "signatures") = Piece(path, <<"signatures">>, entries, w)
  BY BrokenEnvelopeFields
<1>3. ~IsObject(w) /\ ~IsArray(w) /\ ~IsNumber(w)
  BY BlanksHaveNoType
<1> HIDE DEF r, e, roles, role, keys, signed, entries, ids, one
<1>4. ~WellFormed(r, "targets", e)
  <2>1. CASE path = <<"roles">>
    <3>1. Get(r, "roles") = w
      BY <1>1, <2>1 DEF Piece
    <3> QED BY <1>3, <3>1 DEF WellFormed
  <2>2. CASE path = <<"keys">>
    <3>1. Get(r, "keys") = w
      BY <1>1, <2>2 DEF Piece
    <3> QED BY <1>3, <3>1 DEF WellFormed
  <2>3. CASE path = <<"roles", "targets">>
    <3>1. path # <<"roles">>
      BY <2>3
    <3>2. Get(Get(r, "roles"), "targets") = w
      BY <1>1, <2>3, <3>1 DEF Piece
    <3> QED BY <1>3, <3>2 DEF WellFormed
  <2>4. CASE path = <<"roles", "targets", "keyids">>
    <3>1. path # <<"roles">> /\ path # <<"roles", "targets">>
      BY <2>4
    <3>2. Get(Get(Get(r, "roles"), "targets"), "keyids") = w
      BY <1>1, <2>4, <3>1 DEF Piece
    <3> QED BY <1>3, <3>2 DEF WellFormed
  <2>5. CASE path = <<"roles", "targets", "threshold">>
    <3>1. path # <<"roles">> /\ path # <<"roles", "targets">>
      BY <2>5
    <3>2. Get(Get(Get(r, "roles"), "targets"), "threshold") = w
      BY <1>1, <2>5, <3>1 DEF Piece
    <3> QED BY <1>3, <3>2 DEF WellFormed
  <2>6. CASE path = <<"signed">>
    <3>1. Get(e, "signed") = w
      BY <1>2, <2>6 DEF Piece
    <3> QED BY <1>3, <3>1 DEF WellFormed
  <2>7. CASE path = <<"signatures">>
    <3>1. Get(e, "signatures") = w
      BY <1>2, <2>7 DEF Piece
    <3> QED BY <1>3, <3>1 DEF WellFormed
  <2> QED BY <2>1, <2>2, <2>3, <2>4, <2>5, <2>6, <2>7 DEF Structure
<1> QED BY <1>4, RoleAccepts DEF AnswerToBroken, r, e

\* With all of them, the one signature and the gates decide.
LEMMA BrokenAnswer ==
  ASSUME NEW path, path \notin Structure, NEW w
  PROVE  AnswerToBroken(path, w) = "ESP_OK"
           <=> /\ Votes(KeysPart(path, w), EntryOf(path, w), Canonical(SignedOf(path, w)))
               /\ Gates(SignedOf(path, w), Instant(LeapDay), 2) = "OK"
<1> DEFINE r == BrokenRoot(path, w)
           e == BrokenEnvelope(path, w)
           ids == <<"arr", <<Word("a")>> >>
           one == <<"num", 1>>
           roles == RolesPart(path, w)
           role == RolePart(path, w)
           keys == KeysPart(path, w)
           signed == SignedOf(path, w)
           entries == <<"arr", <<EntryOf(path, w)>> >>
<1>1. /\ IsObject(roles) /\ IsObject(role) /\ IsObject(keys)
      /\ Get(r, "roles") = Piece(path, <<"roles">>, roles, w)
      /\ Get(r, "keys") = Piece(path, <<"keys">>, keys, w)
      /\ Get(roles, "targets") = Piece(path, <<"roles", "targets">>, role, w)
      /\ Get(role, "keyids") = Piece(path, <<"roles", "targets", "keyids">>, ids, w)
      /\ Get(role, "threshold") = Piece(path, <<"roles", "targets", "threshold">>, one, w)
  BY BrokenRootFields
<1>2. /\ IsObject(signed)
      /\ Get(e, "signed") = Piece(path, <<"signed">>, signed, w)
      /\ Get(e, "signatures") = Piece(path, <<"signatures">>, entries, w)
  BY BrokenEnvelopeFields
<1>3. IsArray(ids) /\ IsNumber(one) /\ one[2] = 1 /\ IsArray(entries)
  BY DEF IsArray, IsNumber
<1>4. ValidCount(keys, ids, entries, Canonical(signed)) >= 1 <=> Votes(keys, EntryOf(path, w), Canonical(signed))
  BY OneVote
<1> HIDE DEF r, e, roles, role, keys, signed, entries, ids, one
<1>5. /\ Get(r, "roles") = roles /\ Get(r, "keys") = keys /\ Get(roles, "targets") = role
      /\ Get(role, "keyids") = ids /\ Get(role, "threshold") = one
      /\ Get(e, "signed") = signed /\ Get(e, "signatures") = entries
  BY <1>1, <1>2, Zenon DEF Structure, Piece
<1>6. WellFormed(r, "targets", e)
  BY <1>1, <1>2, <1>3, <1>5 DEF WellFormed
<1>7. AnswerToBroken(path, w) = "ESP_OK"
        <=> 1 > 0 /\ ValidCount(keys, ids, entries, Canonical(signed)) >= 1 /\ Gates(signed, Instant(LeapDay), 2) = "OK"
  <2>1. AnswerToBroken(path, w) = UptaneVerifyRole(r, "targets", e, Instant(LeapDay), 2)
    BY DEF AnswerToBroken, r, e
  <2> DEFINE rl == Get(Get(r, "roles"), "targets")
  <2>2. UptaneVerifyRole(r, "targets", e, Instant(LeapDay), 2) = "ESP_OK"
          <=> /\ WellFormed(r, "targets", e) /\ Get(rl, "threshold")[2] > 0
              /\ ValidCount(Get(r, "keys"), Get(rl, "keyids"), Get(e, "signatures"), Canonical(Get(e, "signed")))
                   >= Get(rl, "threshold")[2]
              /\ Gates(Get(e, "signed"), Instant(LeapDay), 2) = "OK"
    BY RoleAccepts
  <2>3. rl = role
    BY <1>5
  <2> HIDE DEF rl
  <2> QED BY <1>3, <1>5, <1>6, <2>1, <2>2, <2>3
<1> QED BY <1>4, <1>7 DEF keys, signed

\* The gates of a broken document: it expires in time and has the version asked
\* for if these two are whole.
LEMMA LeapDayIsEarlier == LeapDay \in Dates /\ Instant(LeapDay) # Unknown /\ ~NotAfter(Instant(Noon), Instant(LeapDay))
<1>1. LeapDay \in Dates
  BY DEF LeapDay, Dates
<1>2. DayNumber(LeapDay) = DaysFromCivil(2024, 2, 29) /\ DayNumber(Noon) = DaysFromCivil(2026, 1, 31)
  <2>1. LeapDay[1] = 2024 /\ LeapDay[2] = 2 /\ LeapDay[3] = 29 /\ Noon[1] = 2026 /\ Noon[2] = 1 /\ Noon[3] = 31
    BY DEF LeapDay, Noon
  <2> QED BY <2>1, DaysCounted
<1>3. DaysFromCivil(2024, 2, 29) < DaysFromCivil(2026, 1, 31) /\ DaysFromCivil(2024, 2, 29) \in Int
      /\ DaysFromCivil(2026, 1, 31) \in Int
  BY DEF DaysFromCivil
<1>4. Instant(LeapDay)[1] = DayNumber(LeapDay) /\ Instant(Noon)[1] = DayNumber(Noon)
  BY DEF Instant
<1>5. ~NotAfter(Instant(Noon), Instant(LeapDay))
  BY <1>2, <1>3, <1>4 DEF NotAfter
<1> QED BY <1>1, <1>5, CallDateRead

\* The three pieces of a key, and what a key without one of them is parsed to.
KeyPieces == {<<"keys", "a", "keytype">>, <<"keys", "a", "keyval">>, <<"keys", "a", "keyval", "public">>}

\* A key that is refused verifies nothing.
LEMMA RefusedVerifiesNothing ==
  ASSUME NEW keys, NEW entry, NEW text, ParseTufKey(Get(keys, "a")) = Refused
  PROVE  ~Votes(keys, entry, text)
<1>1. Refused.method = "refused"
  BY DEF Refused
<1>2. \A sig : ~VerifyWithPubkey(Refused, text, sig)
  BY <1>1 DEF VerifyWithPubkey
<1> QED BY <1>2 DEF Votes

\* A key with a piece broken is refused, or taken for another key.
LEMMA BrokenKey ==
  ASSUME NEW path, NEW w, path \notin {<<"keys">>, <<"keys", "a">>}
  PROVE  LET key == ParseTufKey(Get(KeysPart(path, w), "a"))
             hex == HexEncode(PubOf.a)
         IN  /\ path \in KeyPieces /\ w \in Blanks => key = Refused
             /\ path = Public /\ (\E t : w = <<"str", t>> /\ ~IsDigest(t)) => key = Refused
             /\ path = <<"keys", "a", "keytype">> /\ w = Word("ecPrime256v1") => key = Refused
             /\ path = <<"keys", "a", "keytype">> /\ w = Word("RSA")
                  => key = [method |-> "rsassa-pss-sha256", pub |-> hex]
             /\ path \notin KeyPieces => key = [method |-> "ed25519", pub |-> PubOf.a]
<1> DEFINE obj == KeyPart(path, w)
           val == ValPart(path, w)
           hex == HexEncode(PubOf.a)
           key == ParseTufKey(obj)
           pub == <<"str", hex>>
           type == Word("ED25519")
<1>1. /\ Get(KeysPart(path, w), "a") = obj /\ IsObject(val)
      /\ Get(obj, "keytype") = Piece(path, <<"keys", "a", "keytype">>, type, w)
      /\ Get(obj, "keyval") = Piece(path, <<"keys", "a", "keyval">>, val, w)
      /\ Get(val, "public") = Piece(path, Public, pub, w)
  <2>1. Get(KeysPart(path, w), "a") = Piece(path, <<"keys", "a">>, obj, w)
    BY BrokenRootFields
  <2>2. Get(KeysPart(path, w), "a") = obj
    <3> HIDE DEF obj
    <3> QED BY <2>1 DEF Piece
  <2> QED BY <2>2, BrokenRootFields DEF Public
<1>2. /\ <<"keys", "a", "keytype">> # <<"keys", "a", "keyval">>
      /\ <<"keys", "a", "keytype">> # Public /\ <<"keys", "a", "keyval">> # Public
  BY DEF Public
<1>3. type = <<"str", <<"ED25519">> >>
  BY DEF Word
<1>4. IsDigest(hex) /\ HexDecode(hex) = PubOf.a
  <2>1. DigestBytes \in Nat /\ PubOf["a"] \in [1 .. DigestBytes -> Byte]
    BY ONLY CryptoAssumption, PubsDiffer
  <2> QED BY <2>1, WrittenByEncode, WrittenDecodes
<1> HIDE DEF obj, val, hex, type
<1>5. ASSUME path \in KeyPieces, w \in Blanks
      PROVE  key = Refused
  <2>1. ~IsObject(w) /\ ~IsString(w)
    BY <1>5, BlanksHaveNoType
  <2>2. CASE path = <<"keys", "a", "keytype">>
    <3>1. ~IsString(Get(obj, "keytype"))
      BY <1>1, <2>1, <2>2 DEF Piece
    <3> QED BY <3>1 DEF ParseTufKey
  <2>3. CASE path = <<"keys", "a", "keyval">>
    <3>1. ~IsObject(Get(obj, "keyval"))
      BY <1>1, <2>1, <2>3 DEF Piece
    <3> QED BY <3>1 DEF ParseTufKey
  <2>4. CASE path = Public
    <3>1. ~IsString(Get(Get(obj, "keyval"), "public"))
      BY <1>1, <1>2, <2>1, <2>4 DEF Piece
    <3> QED BY <3>1 DEF ParseTufKey
  <2> QED BY <1>5, <2>2, <2>3, <2>4 DEF KeyPieces, Public
<1>6. ASSUME path = Public, NEW t, w = <<"str", t>>, ~IsDigest(t)
      PROVE  key = Refused
  <2>1. Get(obj, "keytype") = type /\ Get(obj, "keyval") = val /\ Get(val, "public") = <<"str", t>>
    BY <1>1, <1>2, <1>6 DEF Piece
  <2>2. SameButCase(<<"ED25519">>, "ED25519")
    BY DEF SameButCase
  <2>3. key = IF IsDigest(t) THEN [method |-> "ed25519", pub |-> HexDecode(t)] ELSE Refused
    BY <1>1, <1>3, <2>1, <2>2, KeyParsed
  <2> QED BY <1>6, <2>3
<1>7. ASSUME NEW name, path = <<"keys", "a", "keytype">>, w = Word(name), name \in {"RSA", "ecPrime256v1"}
      PROVE  key = IF name = "RSA" THEN [method |-> "rsassa-pss-sha256", pub |-> hex] ELSE Refused
  <2>1. Get(obj, "keytype") = <<"str", <<name>> >> /\ Get(obj, "keyval") = val /\ Get(val, "public") = pub
    BY <1>1, <1>2, <1>7 DEF Piece, Word
  <2>2. ~SameButCase(<<name>>, "ED25519") /\ (SameButCase(<<name>>, "RSA") <=> name = "RSA")
    BY <1>7 DEF SameButCase
  <2>3. key = IF SameButCase(<<name>>, "RSA") THEN [method |-> "rsassa-pss-sha256", pub |-> hex] ELSE Refused
    BY <1>1, <2>1, <2>2, KeyParsed
  <2> QED BY <2>2, <2>3
<1>8. ASSUME path \notin KeyPieces
      PROVE  key = [method |-> "ed25519", pub |-> PubOf.a]
  <2>1. Get(obj, "keytype") = type /\ Get(obj, "keyval") = val /\ Get(val, "public") = pub
    BY <1>1, <1>8 DEF Piece, KeyPieces, Public
  <2>2. SameButCase(<<"ED25519">>, "ED25519")
    BY DEF SameButCase
  <2>3. key = IF IsDigest(hex) THEN [method |-> "ed25519", pub |-> HexDecode(hex)] ELSE Refused
    BY <1>1, <1>3, <2>1, <2>2, KeyParsed
  <2> QED BY <1>4, <2>3
<1>9. "RSA" # "ecPrime256v1"
  OBVIOUS
<1> QED BY <1>1, <1>5, <1>6, <1>7, <1>8, <1>9 DEF hex

\* The signature of the broken documents, over the whole signed part, is none
\* of another key, and stands.
LEMMA WholeSignature ==
  ASSUME NEW path, NEW w, path \notin {<<"signed", "version">>, <<"signed", "expires">>}
  PROVE  LET text == Canonical(SignedOf(path, w))
             sig == SigOf(path, w)
         IN  /\ ~VerifyRsaPss(HexEncode(PubOf.a), text, sig) /\ VerifyEd25519(PubOf.a, text, sig)
             /\ Base64Decode(sig) = sig /\ sig # Missing
<1> DEFINE text == Canonical(SignedOf(path, w))
           sig == SigOf(path, w)
           k == <<MethodOf.a, PubOf.a>>
           l == <<MethodOf.r, HexEncode(PubOf.a)>>
<1>1. text \in TextsSigned
  <2>1. SignedOf(path, w) = Part(2, DateText(Noon))
    BY BrokenEnvelopeFields
  <2>2. Part(2, DateText(Noon)) = Object(SignedFields(2, DateText(Noon)))
    BY DEF Part
  <2>3. 2 \in {1, 2, 3, 7} /\ Noon \in Dates \cup {Noon}
    OBVIOUS
  <2>4. Canonical(Object(SignedFields(2, DateText(Noon)))) \in TextsSigned
    BY <2>3 DEF TextsSigned
  <2> QED BY <2>1, <2>2, <2>4
<1>2. k \in KeysTried /\ l \in KeysTried
  BY DEF KeysTried
<1>3. sig = SignatureOf(MethodOf.a, PubOf.a, text)
  BY DEF SigOf
<1>4. MethodOf.a = "ed25519" /\ MethodOf.r = "rsassa-pss-sha256" /\ Len(PubOf.a) = DigestBytes
  BY PubsDiffer, CryptoAssumption
<1>5. k[1] = MethodOf.a /\ k[2] = PubOf.a /\ l[1] = MethodOf.r /\ l[2] = HexEncode(PubOf.a)
  OBVIOUS
<1> HIDE DEF k, l, text, sig
<1>6. SignatureOf(k[1], k[2], text) = SignatureOf(l[1], l[2], text) => k = l
  BY <1>1, <1>2, SignatureAssumption, Zenon
<1>7. SignatureOf(k[1], k[2], text) \notin {<<"!">>, Missing}
  BY <1>1, <1>2, SignatureAssumption, Zenon
<1>8. k # l
  BY <1>4, <1>5
<1>9. ~VerifyRsaPss(HexEncode(PubOf.a), text, sig)
  BY <1>3, <1>4, <1>5, <1>6, <1>8 DEF VerifyRsaPss
<1>10. VerifyEd25519(PubOf.a, text, sig)
  BY <1>3, <1>4 DEF VerifyEd25519
<1>11. Base64Decode(sig) = sig /\ sig # Missing
  BY <1>3, <1>5, <1>7 DEF Base64Decode
<1> QED BY <1>9, <1>10, <1>11 DEF text, sig

\* How a document of the run is broken: a piece of another type or missing, a
\* malformed key, date or key type.
BrokenBy(path, w) ==
  \/ path \in RootPaths \cup EnvelopePaths /\ w \in Blanks
  \/ path = Public /\ \E t : w = <<"str", t>> /\ ~IsDigest(t)
  \/ path = Expires /\ \E t : w = <<"str", t>> /\ ~IsDate(t)
  \/ path = <<"keys", "a", "keytype">> /\ w \in {Word("RSA"), Word("ecPrime256v1")}

LEMMA BrokenShapes ==
  ASSUME NEW c \in BrokenCalls
  PROVE  c.family = "broken" /\ ((c.path = <<>> /\ c.by = Missing) \/ BrokenBy(c.path, c.by))
<1>1. PICK b \in BrokenPieces \cup {Whole} : c = [family |-> "broken", path |-> b[1], by |-> b[2]]
  BY DEF BrokenCalls
<1>2. c.family = "broken" /\ c.path = b[1] /\ c.by = b[2]
  BY <1>1
<1>3. \/ b = Whole
      \/ \E p \in RootPaths \cup EnvelopePaths, w \in Blanks : b = <<p, w>>
      \/ \E t \in Undigested : b = <<Public, <<"str", t>> >>
      \/ \E t \in Undated : b = <<Expires, <<"str", t>> >>
      \/ \E x \in {"RSA", "ecPrime256v1"} : b = << <<"keys", "a", "keytype">>, Word(x)>>
  <2> DEFINE blank == {<<p, w>> : p \in RootPaths \cup EnvelopePaths, w \in Blanks}
             keyed == {<<Public, <<"str", t>> >> : t \in Undigested}
             dated == {<<Expires, <<"str", t>> >> : t \in Undated}
             typed == {<< <<"keys", "a", "keytype">>, Word(x)>> : x \in {"RSA", "ecPrime256v1"}}
  <2>1. b = Whole \/ b \in blank \/ b \in keyed \/ b \in dated \/ b \in typed
    <3>1. BrokenPieces = blank \cup keyed \cup dated \cup typed
      BY ONLY TRUE DEF BrokenPieces
    <3> HIDE DEF blank, keyed, dated, typed
    <3> QED BY ONLY <1>1, <3>1
  <2>2. b \in blank => \E p \in RootPaths \cup EnvelopePaths, w \in Blanks : b = <<p, w>>
    OBVIOUS
  <2>3. b \in keyed => \E t \in Undigested : b = <<Public, <<"str", t>> >>
    BY Zenon
  <2>4. b \in dated => \E t \in Undated : b = <<Expires, <<"str", t>> >>
    BY Zenon
  <2>5. b \in typed => \E x \in {"RSA", "ecPrime256v1"} : b = << <<"keys", "a", "keytype">>, Word(x)>>
    BY Zenon
  <2> QED BY <2>1, <2>2, <2>3, <2>4, <2>5
<1>4. \A t \in Undigested : ~IsDigest(t)
  <2>1. PubOf.a \in [1 .. DigestBytes -> Byte]
    BY ONLY PubsDiffer
  <2> QED BY <2>1, TailsAreNoDigests, OtherTextsAreNoDigests, Zenon DEF Undigested
<1>5. \A t \in Undated : ~IsDate(t)
  BY NotDates, Zenon
<1>6. CASE b = Whole
  BY <1>2, <1>6 DEF Whole
<1>7. ASSUME NEW p \in RootPaths \cup EnvelopePaths, NEW w \in Blanks, b = <<p, w>>
      PROVE  BrokenBy(b[1], b[2])
  <2>1. b[1] = p /\ b[2] = w
    BY <1>7
  <2> QED BY <2>1, Zenon DEF BrokenBy
<1>8. ASSUME NEW t \in Undigested, b = <<Public, <<"str", t>> >>
      PROVE  BrokenBy(b[1], b[2])
  <2>1. b[1] = Public /\ b[2] = <<"str", t>>
    BY <1>8
  <2> QED BY <1>4, <2>1, Zenon DEF BrokenBy
<1>9. ASSUME NEW t \in Undated, b = <<Expires, <<"str", t>> >>
      PROVE  BrokenBy(b[1], b[2])
  <2>1. b[1] = Expires /\ b[2] = <<"str", t>>
    BY <1>9
  <2> QED BY <1>5, <2>1, Zenon DEF BrokenBy
<1>10. ASSUME NEW x \in {"RSA", "ecPrime256v1"}, b = << <<"keys", "a", "keytype">>, Word(x)>>
       PROVE  BrokenBy(b[1], b[2])
  <2>1. b[1] = <<"keys", "a", "keytype">> /\ b[2] = Word(x)
    BY <1>10
  <2> QED BY <2>1, Zenon DEF BrokenBy
<1> QED BY <1>2, <1>3, <1>6, <1>7, <1>8, <1>9, <1>10

\* A broken document is refused.
LEMMA BrokenRefused ==
  ASSUME NEW path, NEW w, BrokenBy(path, w)
  PROVE  AnswerToBroken(path, w) # "ESP_OK"
<1> DEFINE keys == KeysPart(path, w)
           entry == EntryOf(path, w)
           signed == SignedOf(path, w)
           text == Canonical(signed)
           now == Instant(LeapDay)
<1>1. path \notin Structure /\ (~Votes(keys, entry, text) \/ Gates(signed, now, 2) # "OK")
        => AnswerToBroken(path, w) # "ESP_OK"
  BY BrokenAnswer
<1>2. /\ Get(keys, "a") = Piece(path, <<"keys", "a">>, KeyPart(path, w), w)
      /\ Get(entry, "keyid") = Piece(path, <<"signatures", "keyid">>, Word("a"), w)
      /\ Get(entry, "sig") = Piece(path, <<"signatures", "sig">>, <<"str", SigOf(path, w)>>, w)
      /\ Get(signed, "version") = Piece(path, <<"signed", "version">>, <<"num", 2>>, w)
      /\ Get(signed, "expires") = Piece(path, Expires, <<"str", DateText(Noon)>>, w)
  BY BrokenRootFields, BrokenEnvelopeFields DEF Expires
<1>3. w \in Blanks => ~IsObject(w) /\ ~IsNumber(w) /\ ~IsString(w) /\ w # Word("a")
  BY BlanksHaveNoType
<1>4. now # Unknown
  BY LeapDayIsEarlier
<1> HIDE DEF keys, entry, signed, text, now
<1>5. CASE path \in Structure /\ w \in Blanks
  BY <1>5, StructureNeeded
<1>6. CASE path = <<"keys", "a">> /\ w \in Blanks
  <2>1. Get(keys, "a") = w
    BY <1>2, <1>6 DEF Piece
  <2>2. path \notin Structure
    BY <1>6 DEF Structure
  <2> QED BY <1>1, <1>3, <1>6, <2>1, <2>2 DEF Votes
<1>7. CASE path = <<"signatures", "keyid">> /\ w \in Blanks
  <2>1. Get(entry, "keyid") = w
    BY <1>2, <1>7 DEF Piece
  <2>2. path \notin Structure
    BY <1>7 DEF Structure
  <2> QED BY <1>1, <1>3, <1>7, <2>1, <2>2 DEF Votes
<1>8. CASE path = <<"signatures", "sig">> /\ w \in Blanks
  <2>1. Get(entry, "sig") = w
    BY <1>2, <1>8 DEF Piece
  <2>2. path \notin Structure
    BY <1>8 DEF Structure
  <2> QED BY <1>1, <1>3, <1>8, <2>1, <2>2 DEF Votes
<1>9. CASE path = <<"signed", "version">> /\ w \in Blanks
  <2>1. ~IsNumber(Get(signed, "version"))
    BY <1>2, <1>3, <1>9 DEF Piece
  <2>2. Gates(signed, now, 2) # "OK"
    BY <2>1 DEF Gates
  <2>3. path \notin Structure
    BY <1>9 DEF Structure
  <2> QED BY <1>1, <2>2, <2>3
<1>10. CASE path = Expires /\ (w \in Blanks \/ \E t : w = <<"str", t>> /\ ~IsDate(t))
  <2>1. Get(signed, "expires") = w
    BY <1>2, <1>10 DEF Piece
  <2>2. ~IsString(w) \/ ~IsDate(w[2])
    <3>1. ASSUME NEW t, w = <<"str", t>>, ~IsDate(t) PROVE ~IsDate(w[2])
      <4>1. w[2] = t
        BY <3>1
      <4> QED BY <3>1, <4>1
    <3> QED BY <1>3, <1>10, <3>1
  <2>3. Gates(signed, now, 2) # "OK"
    BY <1>4, <2>1, <2>2 DEF Gates
  <2>4. path \notin Structure
    BY <1>10 DEF Structure, Expires
  <2> QED BY <1>1, <2>3, <2>4
<1>11. CASE path \in KeyPieces
  <2>1. path \notin Structure /\ path \notin {<<"keys">>, <<"keys", "a">>}
    BY <1>11 DEF Structure, KeyPieces
  <2> DEFINE key == ParseTufKey(Get(keys, "a"))
  <2>2. /\ w \in Blanks => key = Refused
        /\ path = Public /\ (\E t : w = <<"str", t>> /\ ~IsDigest(t)) => key = Refused
        /\ path = <<"keys", "a", "keytype">> /\ w = Word("ecPrime256v1") => key = Refused
        /\ path = <<"keys", "a", "keytype">> /\ w = Word("RSA")
             => key = [method |-> "rsassa-pss-sha256", pub |-> HexEncode(PubOf.a)]
    BY <1>11, <2>1, BrokenKey DEF keys
  <2> HIDE DEF key
  <2>3. CASE key = Refused
    <3>1. ~Votes(keys, entry, text)
      BY <2>3, RefusedVerifiesNothing DEF key
    <3> QED BY <1>1, <2>1, <3>1
  <2>4. CASE key = [method |-> "rsassa-pss-sha256", pub |-> HexEncode(PubOf.a)]
    <3> DEFINE sig == SigOf(path, w)
    <3>1. /\ path # <<"signatures", "sig">>
          /\ path \notin {<<"signed", "version">>, <<"signed", "expires">>}
      BY <1>11 DEF KeyPieces
    <3>2. Get(entry, "sig") = <<"str", sig>>
      <4> HIDE DEF sig
      <4> QED BY <1>2, <3>1 DEF Piece, sig
    <3>3. ~VerifyRsaPss(HexEncode(PubOf.a), text, sig) /\ Base64Decode(sig) = sig
      BY <3>1, WholeSignature DEF text, signed
    <3> HIDE DEF sig
    <3>4. key.method = "rsassa-pss-sha256" /\ key.pub = HexEncode(PubOf.a)
      BY <2>4
    <3>5. ~VerifyWithPubkey(key, text, sig)
      BY <3>3, <3>4 DEF VerifyWithPubkey
    <3>6. <<"str", sig>>[2] = sig
      OBVIOUS
    <3>7. ~Votes(keys, entry, text)
      BY <3>2, <3>3, <3>5, <3>6, Zenon DEF Votes, key
    <3> QED BY <1>1, <2>1, <3>7
  <2>5. \/ w \in Blanks
        \/ path = Public /\ \E t : w = <<"str", t>> /\ ~IsDigest(t)
        \/ path = <<"keys", "a", "keytype">> /\ w \in {Word("RSA"), Word("ecPrime256v1")}
    <3>1. path # Expires
      BY <1>11 DEF KeyPieces, Expires
    <3> QED BY <3>1, Zenon DEF BrokenBy
  <2> QED BY <2>2, <2>3, <2>4, <2>5
<1>12. \/ path \in Structure /\ w \in Blanks
       \/ path = <<"keys", "a">> /\ w \in Blanks
       \/ path = <<"signatures", "keyid">> /\ w \in Blanks
       \/ path = <<"signatures", "sig">> /\ w \in Blanks
       \/ path = <<"signed", "version">> /\ w \in Blanks
       \/ path = Expires /\ (w \in Blanks \/ \E t : w = <<"str", t>> /\ ~IsDate(t))
       \/ path \in KeyPieces
  BY Zenon DEF BrokenBy, RootPaths, EnvelopePaths, Structure, KeyPieces, Expires, Public
<1> QED BY <1>5, <1>6, <1>7, <1>8, <1>9, <1>10, <1>11, <1>12

\* The whole one is accepted.
LEMMA WholeAccepted == AnswerToBroken(<<>>, Missing) = "ESP_OK"
<1> DEFINE p == <<>>
           w == Missing
           keys == KeysPart(p, w)
           entry == EntryOf(p, w)
           signed == SignedOf(p, w)
           text == Canonical(signed)
           sig == SigOf(p, w)
<1>1. /\ p \notin Structure /\ p \notin {<<"keys">>, <<"keys", "a">>} /\ p \notin KeyPieces
      /\ p # <<"signatures", "keyid">> /\ p # <<"signatures", "sig">>
      /\ p \notin {<<"signed", "version">>, <<"signed", "expires">>}
  BY DEF Structure, KeyPieces
<1> HIDE DEF p, w
<1>2. Get(keys, "a") = KeyPart(p, w) /\ IsObject(KeyPart(p, w))
  <2>1. Get(keys, "a") = Piece(p, <<"keys", "a">>, KeyPart(p, w), w) /\ IsObject(KeyPart(p, w))
    BY BrokenRootFields
  <2> QED BY <1>1, <2>1 DEF Piece
<1>3. Get(entry, "keyid") = Word("a") /\ Get(entry, "sig") = <<"str", sig>>
  <2>1. /\ Get(entry, "keyid") = Piece(p, <<"signatures", "keyid">>, Word("a"), w)
        /\ Get(entry, "sig") = Piece(p, <<"signatures", "sig">>, <<"str", sig>>, w)
    BY BrokenEnvelopeFields
  <2> HIDE DEF entry, sig
  <2> QED BY <1>1, <2>1 DEF Piece
<1>4. ParseTufKey(Get(keys, "a")) = [method |-> "ed25519", pub |-> PubOf.a]
  BY <1>1, BrokenKey
<1>5. VerifyEd25519(PubOf.a, text, sig) /\ Base64Decode(sig) = sig /\ sig # Missing
  BY <1>1, WholeSignature
<1>6. signed = Part(2, DateText(Noon))
  BY <1>1, BrokenEnvelopeFields
<1>7. Gates(signed, Instant(LeapDay), 2) = "OK"
  <2>1. 2 \in Int /\ Noon \in Dates \cup {Noon} /\ 2 >= 2
    OBVIOUS
  <2> QED BY <1>6, <2>1, GatesOfDate, LeapDayIsEarlier
<1> HIDE DEF keys, entry, signed, text, sig
<1>9. Votes(keys, entry, text)
  <2> DEFINE key == ParseTufKey(Get(keys, "a"))
  <2>1. key.method = "ed25519" /\ key.pub = PubOf.a
    BY <1>4
  <2> HIDE DEF key
  <2>2. VerifyWithPubkey(key, text, sig)
    BY <1>5, <2>1 DEF VerifyWithPubkey
  <2>3. IsString(<<"str", sig>>) /\ <<"str", sig>>[2] = sig
    BY DEF IsString
  <2> QED BY <1>2, <1>3, <1>5, <2>2, <2>3, Zenon DEF Votes, key
<1>10. AnswerToBroken(p, w) = "ESP_OK"
  BY <1>1, <1>7, <1>9, BrokenAnswer DEF keys, entry, signed, text
<1> QED BY <1>10 DEF p, w

\* A broken document's call is answered exactly.
LEMMA BrokenStep ==
  ASSUME call \in BrokenCalls, VerifyABrokenRole
  PROVE  AcceptsExactly'
<1>1. call' = call /\ call.family = "broken"
  BY DEF VerifyABrokenRole, Is
<1>2. out' = [err |-> AnswerToBroken(call.path, call.by)]
  BY DEF VerifyABrokenRole, AnswerToBroken, LeapDay
<1>3. (call.path = <<>> /\ call.by = Missing) \/ BrokenBy(call.path, call.by)
  BY BrokenShapes
<1>4. BrokenBy(call.path, call.by) => call.path # <<>>
  BY DEF BrokenBy, RootPaths, EnvelopePaths, Public, Expires
<1>5. AnswerToBroken(call.path, call.by) = "ESP_OK" <=> call.path = <<>>
  BY <1>3, <1>4, BrokenRefused, WholeAccepted
<1>6. out'.err = AnswerToBroken(call.path, call.by)
  BY <1>2
<1> QED BY <1>1, <1>5, <1>6 DEF AcceptsExactly, Answered

\* Which calls verify a role.
RoleInv ==
  /\ call.family = "role" => call \in SignatureCalls \cup GateCalls
  /\ call.family = "broken" => call \in BrokenCalls
  /\ AcceptsExactly

\* SAFETY.  AcceptsExactly for every digest length, alphabet and depth, and
\* every signature function nobody forges: akt_verify_role accepts a document
\* of the run exactly when it deserves it, and refuses it with any piece broken.
THEOREM RolesAreExact == Spec => []AcceptsExactly
<1>1. Init => RoleInv
  <2> SUFFICES ASSUME Init PROVE RoleInv
    OBVIOUS
  <2>1. ~Answered("role") /\ ~Answered("broken")
    BY DEF Init, Answered
  <2>2. AcceptsExactly
    BY <2>1 DEF AcceptsExactly
  <2>3. /\ \A c \in SignatureCalls \cup GateCalls : c.family = "role"
        /\ \A c \in BrokenCalls : c.family = "broken"
        /\ \A c \in TextCalls : c.family = "text"
        /\ \A c \in CosignCalls : c.family = "cosign"
        /\ \A c \in LinkCalls : c.family = "link"
        /\ \A c \in ReportCalls : c.family = "report"
    <3>1. \A c \in BrokenCalls : c.family = "broken"
      BY DEF BrokenCalls
    <3>2. \A c \in TextCalls : c.family = "text"
      BY DEF TextCalls
    <3>3. \A c \in LinkCalls : c.family = "link"
      BY DEF LinkCalls
    <3>4. \A c \in ReportCalls : c.family = "report"
      BY DEF ReportCalls
    <3> QED BY <3>1, <3>2, <3>3, <3>4, RoleCalls, CosignShapes
  <2>4. /\ call.family = "role" => call \in SignatureCalls \cup GateCalls
        /\ call.family = "broken" => call \in BrokenCalls
    BY <2>3 DEF Init
  <2> QED BY <2>2, <2>4 DEF RoleInv
<1>2. RoleInv /\ [Next]_vars => RoleInv'
  <2> SUFFICES ASSUME RoleInv, [Next]_vars PROVE RoleInv'
    OBVIOUS
  <2>1. call' = call
    BY CallKept
  <2>2. CASE VerifyARole
    <3>1. call \in SignatureCalls \cup GateCalls
      BY <2>2 DEF VerifyARole, Is, RoleInv
    <3> QED BY <2>1, <2>2, <3>1, RoleStep DEF RoleInv
  <2>3. CASE VerifyABrokenRole
    <3>1. call \in BrokenCalls
      BY <2>3 DEF VerifyABrokenRole, Is, RoleInv
    <3> QED BY <2>1, <2>3, <3>1, BrokenStep DEF RoleInv
  <2>4. CASE SerialiseTwo \/ SelectAndCosign \/ CheckALink \/ Report
    <3>1. call.family \notin {"role", "broken"}
      BY <2>4, CallKept
    <3> QED BY <2>1, <3>1 DEF RoleInv, AcceptsExactly, Answered
  <2>5. CASE UNCHANGED vars
    BY <2>5 DEF RoleInv, AcceptsExactly, Answered, Deserved, Signed, OneEntryEach, vars
  <2> QED BY <2>2, <2>3, <2>4, <2>5 DEF Next
<1>3. RoleInv => AcceptsExactly
  BY DEF RoleInv
<1> QED BY <1>1, <1>2, <1>3, PTL DEF Spec

=============================================================================
