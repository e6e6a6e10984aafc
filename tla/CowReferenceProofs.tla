------------------------- MODULE CowReferenceProofs -------------------------
(***************************************************************************)
(* What programs mean, and that the interpreter computes it.  First        *)
(* straight-line code, on every bit that does not depend on uninitialised  *)
(* memory: for all programs, widths, arguments and contents of the stack.  *)
(* Then the recursive function of main_fib: for every argument whose       *)
(* Fibonacci number is a word, every width, pool and number of frames.     *)
(***************************************************************************)
EXTENDS CowReference, CowFib, CowInterpProofs

Pos == Nat \ {0}

LEMMA Division ==
  ASSUME NEW n \in Pos, NEW a \in Int
  PROVE  a \div n \in Int /\ a % n \in 0 .. n - 1 /\ a = n * (a \div n) + (a % n)
BY DEF Pos

LEMMA Remainder ==
  ASSUME NEW n \in Pos, NEW q \in Int, NEW r \in 0 .. n - 1
  PROVE  (n * q + r) % n = r
BY SMTT(60) DEF Pos

LEMMA Congruent ==
  ASSUME NEW n \in Pos, NEW a \in Int, NEW b \in Int
  PROVE  a % n = b % n <=> \E k \in Int : a = b + n * k
<1>1. ASSUME a % n = b % n PROVE \E k \in Int : a = b + n * k
  <2> DEFINE p == a \div n  q == b \div n
  <2>1. p \in Int /\ q \in Int /\ a = n * p + (a % n) /\ b = n * q + (b % n)
    BY Division
  <2>2. a % n \in Int /\ n \in Int BY Division DEF Pos
  <2> HIDE DEF p, q
  <2>3. n * (p - q) = n * p - n * q BY <2>1, <2>2
  <2>4. a = b + n * (p - q) BY <1>1, <2>1, <2>2, <2>3
  <2> QED BY <2>1, <2>4
<1>2. ASSUME NEW k \in Int, a = b + n * k PROVE a % n = b % n
  <2> DEFINE q == b \div n  r == b % n
  <2>1. q \in Int /\ r \in 0 .. n - 1 /\ b = n * q + r BY Division
  <2>2. n \in Int BY DEF Pos
  <2> HIDE DEF q, r
  <2>3. n * (q + k) = n * q + n * k BY <2>1, <2>2
  <2>4. a = n * (q + k) + r BY <1>2, <2>1, <2>2, <2>3
  <2>5. a % n = r BY <2>1, <2>4, Remainder
  <2> QED BY <2>5 DEF r
<1> QED BY <1>1, <1>2

LEMMA AddMod ==
  ASSUME NEW n \in Pos, NEW a \in Int, NEW b \in Int, NEW c \in Int, NEW d \in Int,
         a % n = c % n, b % n = d % n
  PROVE  (a + b) % n = (c + d) % n /\ (a - b) % n = (c - d) % n /\ (a * b) % n = (c * d) % n
<1>1. PICK j \in Int : a = c + n * j BY Congruent
<1>2. PICK k \in Int : b = d + n * k BY Congruent
<1>3. n \in Int BY DEF Pos
<1>4. (a + b) % n = (c + d) % n
  <2>1. a + b = (c + d) + n * (j + k) BY <1>1, <1>2, <1>3
  <2> QED BY <2>1, Congruent
<1>5. (a - b) % n = (c - d) % n
  <2>1. a - b = (c - d) + n * (j - k) BY <1>1, <1>2, <1>3
  <2> QED BY <2>1, Congruent
<1>6. (a * b) % n = (c * d) % n
  <2> DEFINE e == c * k + j * d + n * j * k
  <2>1. a * b = (c * d) + n * e BY <1>1, <1>2, <1>3
  <2>2. e \in Int BY <1>3
  <2> HIDE DEF e
  <2> QED BY <2>1, <2>2, Congruent
<1> QED BY <1>4, <1>5, <1>6

LEMMA AddSame ==
  ASSUME NEW n \in Pos, NEW a \in Int, NEW b \in Int, NEW c \in Int, a % n = b % n
  PROVE  (c + a) % n = (c + b) % n
<1>1. PICK k \in Int : a = b + n * k BY Congruent
<1>2. n \in Int BY DEF Pos
<1>3. c + a = (c + b) + n * k BY <1>1, <1>2
<1> QED BY <1>3, Congruent

LEMMA DividesMod ==
  ASSUME NEW n \in Pos, NEW m \in Pos, m % n = 0
  PROVE  /\ \A a \in Int : (a % m) % n = a % n
         /\ \A a, b \in Int : a % m = b % m => a % n = b % n
<1>1. PICK f \in Int : m = 0 + n * f BY Congruent DEF Pos
<1>2. n \in Int /\ m \in Int BY DEF Pos
<1>3. ASSUME NEW a \in Int, NEW b \in Int, a % m = b % m PROVE a % n = b % n
  <2>1. PICK k \in Int : a = b + m * k BY <1>3, Congruent
  <2>2. a = b + n * (f * k) BY <1>1, <1>2, <2>1
  <2> QED BY <2>2, Congruent
<1>4. ASSUME NEW a \in Int PROVE (a % m) % n = a % n
  <2>1. a % m \in 0 .. m - 1 /\ a % m \in Int BY Division DEF Pos
  <2> DEFINE r == a % m
  <2>2. r \in 0 .. m - 1 BY <2>1
  <2> HIDE DEF r
  <2>3. (m * 0 + r) % m = r BY <2>2, Remainder
  <2>4. r % m = r BY <1>2, <2>2, <2>3
  <2>5. r % m = a % m BY <2>4 DEF r
  <2>6. r % n = a % n BY <1>3, <2>2, <2>5
  <2> QED BY <2>6 DEF r
<1> QED BY <1>3, <1>4
LEMMA SelfMod ==
  ASSUME NEW n \in Pos, NEW a \in Int
  PROVE  (a % n) % n = a % n /\ a % n \in Int /\ (a \in 0 .. n - 1 => a % n = a)
<1>1. a % n \in 0 .. n - 1 BY Division
<1>2. \A r \in 0 .. n - 1 : r % n = r
  <2>1. TAKE r \in 0 .. n - 1
  <2>2. (n * 0 + r) % n = r BY Remainder
  <2> QED BY <2>2 DEF Pos
<1> QED BY <1>1, <1>2

LEMMA Shift ==
  ASSUME NEW n \in Pos, NEW a \in Int
  PROVE  (a - n) % n = a % n /\ (a + n) % n = a % n
<1>1. n \in Int /\ a - n \in Int /\ a + n \in Int /\ 1 \in Int /\ -1 \in Int BY DEF Pos
<1>2. a - n = a + n * (-1) /\ a + n = a + n * 1 BY <1>1
<1>3. \E k \in Int : a - n = a + n * k BY <1>1, <1>2
<1>4. \E k \in Int : a + n = a + n * k BY <1>1, <1>2
<1> HIDE DEF Pos
<1>5. (a - n) % n = a % n BY <1>1, <1>3, Congruent
<1>6. (a + n) % n = a % n BY <1>1, <1>4, Congruent
<1> QED BY <1>5, <1>6

----------------------------------------------------------------------------
\* The numbers of bit patterns that can be known, and the meanings of values.
Knowns == {1} \cup {Span[w] : w \in Widths}
Meanings == [v : Int, known : Knowns]

LEMMA KnownFacts ==
  /\ \A w \in Widths : Span[w] \in Pos /\ Span[w] \in Knowns
  /\ Full \in Pos /\ Full \in Knowns
  /\ \A k \in Knowns : k \in Pos /\ k <= Full
  /\ \A k, l \in Knowns : k <= l => l % k = 0
<1>1. \A w \in Widths : Span[w] \in Pos /\ Span[w] \in Knowns
  BY SpanAssumption DEF Pos, Knowns
<1>2. Full \in Pos /\ Full \in Knowns BY <1>1 DEF Full, Widths
<1>3. \A w \in Widths : Span[w] <= Full
  <2>1. TAKE w \in Widths
  <2>2. Full % Span[w] = 0 /\ Span[w] \in Pos /\ Full \in Pos BY <1>1, <1>2, SpanAssumption DEF Full
  <2>3. Span[w] > Full => Full % Span[w] = Full
    <3>1. HAVE Span[w] > Full
    <3> DEFINE n == Full  d == Span[w]
    <3>2. n \in Int /\ d \in Pos /\ n \in 0 .. d - 1 BY <2>2, <3>1 DEF Pos
    <3> HIDE DEF n, d
    <3>3. n % d = n BY <3>2, SelfMod
    <3> QED BY <3>3 DEF n, d
  <2> QED BY <2>2, <2>3 DEF Pos
<1>4. \A k \in Knowns : k \in Pos /\ k <= Full BY <1>1, <1>2, <1>3 DEF Knowns, Pos
<1>5. ASSUME NEW k \in Knowns, NEW l \in Knowns, k <= l PROVE l % k = 0
  <2>1. CASE k = 1 BY <1>4, <2>1 DEF Pos
  <2>2. CASE k # 1
    <3>1. PICK v \in Widths : k = Span[v] BY <2>2 DEF Knowns
    <3>2. l # 1 BY <1>4, <1>5, <2>2 DEF Pos
    <3>3. PICK w \in Widths : l = Span[w] BY <3>2 DEF Knowns
    <3> QED BY <1>5, <3>1, <3>3, ChainAssumption
  <2> QED BY <2>1, <2>2
<1> QED BY <1>1, <1>2, <1>4, <1>5

LEMMA KnownBound ==
  ASSUME NEW k \in Knowns
  PROVE  k \in Int /\ k \in Pos /\ Full \in Int /\ k <= Full /\ (~(k < Full) => k = Full)
<1>1. k \in Int /\ k \in Pos /\ Full \in Int /\ k <= Full BY KnownFacts DEF Pos
<1> QED BY <1>1

\* What is known of a number is known of fewer bits, too.
LEMMA Weaken ==
  ASSUME NEW k \in Knowns, NEW l \in Knowns, k <= l, NEW a \in Int, NEW b \in Int, a % l = b % l
  PROVE  a % k = b % k
<1>1. k \in Pos /\ l \in Pos /\ l % k = 0 BY KnownFacts
<1> QED BY <1>1, DividesMod

\* The narrow integer of a number has its low bits.
LEMMA NarrowFacts ==
  ASSUME NEW w \in Widths, NEW v \in Int
  PROVE  Narrow(w, v) \in Int /\ Narrow(w, v) % Span[w] = v % Span[w]
<1> DEFINE n == Span[w]  low == v % Span[w]
<1>1. n \in Pos BY KnownFacts
<1> HIDE DEF n
<1>2. low \in Int /\ low % n = v % n BY <1>1, SelfMod DEF n
<1> HIDE DEF low
<1>3. low - n \in Int BY <1>1, <1>2 DEF Pos
<1>4. (low - n) % n = low % n BY <1>1, <1>2, Shift
<1>5. Narrow(w, v) = IF 2 * low >= n THEN low - n ELSE low BY DEF Narrow, low, n
<1>6. Narrow(w, v) \in {low, low - n} BY <1>5
<1> QED BY <1>2, <1>3, <1>4, <1>6 DEF n

\* A merged word has the new low bits, and the old ones above them.
LEMMA MergeFacts ==
  ASSUME NEW old \in Int, NEW w \in Widths, NEW v \in Int
  PROVE  /\ Merge(old, w, v) \in Int
         /\ Merge(old, w, v) % Span[w] = v % Span[w]
         /\ Merge(old, w, v) = (v % Span[w]) + old - (old % Span[w])
<1> DEFINE n == Span[w]  q == old \div n  r == v % n
<1>1. n \in Pos BY KnownFacts
<1> HIDE DEF n
<1>2. q \in Int /\ r \in 0 .. n - 1 /\ old = n * q + (old % n) /\ old % n \in Int BY <1>1, Division
<1>3. Merge(old, w, v) = n * q + r BY DEF Merge, n
<1> HIDE DEF q, r
<1>4. n * q \in Int /\ (n * q + r) % n = r BY <1>1, <1>2, Remainder DEF Pos
<1>5. n * q + r = r + old - (old % n) BY <1>2, <1>4
<1> QED BY <1>2, <1>3, <1>4, <1>5 DEF n, r
----------------------------------------------------------------------------
\* One bit pattern is known of everything.
LEMMA AgreesUnknown ==
  ASSUME NEW a \in Int PROVE Agrees(a, Unknown) /\ Unknown \in Meanings
<1>1. a % 1 = 0 /\ 0 % 1 = 0 BY SMT
<1>2. Unknown.known = 1 /\ Unknown.v = 0 /\ Unknown \in Meanings
  BY DEF Unknown, Meaning, Meanings, Knowns
<1> QED BY <1>1, <1>2 DEF Agrees

LEMMA MeaningFacts ==
  ASSUME NEW v \in Int, NEW known \in Knowns
  PROVE  /\ Meaning(v, known) \in Meanings
         /\ \A a \in Int : Agrees(a, Meaning(v, known)) <=> a % known = v % known
BY DEF Meaning, Meanings, Agrees

\* What is known in full is known.
LEMMA KnownInFull ==
  ASSUME NEW a \in Word, NEW m \in Meanings, Agrees(a, m), m.known = Full
  PROVE  a = m.v % Full /\ Narrow("i64", m.v) = Signed(a)
<1>1. a % Full = m.v % Full BY DEF Agrees
<1>2. a \in Int /\ a \in 0 .. Full - 1 /\ Full \in Pos BY KnownFacts DEF Word, Full, Pos
<1> DEFINE n == Full
<1>3. a % n = a
  <2> HIDE DEF n
  <2> QED BY <1>2, SelfMod DEF n
<1>4. a = m.v % Full BY <1>1, <1>3
<1> QED BY <1>4 DEF Narrow, Signed, Full

LEMMA ConstAgrees ==
  ASSUME NEW op \in ConstOps, NEW imm \in Int, NEW w \in ConstWords(op, imm)
  PROVE  LET m == Meaning(Narrow(ConstWidth[op], imm), Span[ConstWidth[op]])
         IN  m \in Meanings /\ Agrees(w, m)
<1> DEFINE t == ConstWidth[op]
<1>1. t \in Widths BY DEF ConstWidth, ConstOps, Widths
<1>2. PICK j \in Junk : w = Merge(j, t, imm) BY DEF ConstWords, Partial
<1>3. j \in Int BY JunkAssumption DEF Word
<1> HIDE DEF t
<1>4. w \in Int /\ w % Span[t] = imm % Span[t] BY <1>1, <1>2, <1>3, MergeFacts
<1>5. Narrow(t, imm) \in Int /\ Narrow(t, imm) % Span[t] = imm % Span[t] BY <1>1, NarrowFacts
<1>6. Span[t] \in Knowns BY <1>1, KnownFacts
<1>7. Meaning(Narrow(t, imm), Span[t]) \in Meanings /\ Agrees(w, Meaning(Narrow(t, imm), Span[t]))
  BY <1>4, <1>5, <1>6, MeaningFacts
<1> QED BY <1>7 DEF t

LEMMA NotAgrees ==
  ASSUME NEW a \in Word, NEW m \in Meanings, Agrees(a, m)
  PROVE  LET n == IF m.known < Full THEN Unknown ELSE Meaning(IF m.v % Full = 0 THEN 1 ELSE 0, Full)
         IN  n \in Meanings /\ Agrees(NotWord(a), n)
<1> DEFINE b == IF m.v % Full = 0 THEN 1 ELSE 0
<1>1. NotWord(a) \in Int BY DEF NotWord
<1>2. CASE m.known < Full BY <1>1, <1>2, AgreesUnknown
<1>3. CASE ~(m.known < Full)
  <2>1. m.known \in Knowns BY DEF Meanings
  <2>2. m.known = Full BY <1>3, <2>1, KnownBound
  <2>3. NotWord(a) = b BY <2>2, KnownInFull DEF NotWord
  <2>4. b \in Int /\ Full \in Knowns BY KnownFacts
  <2> HIDE DEF b
  <2>5. Meaning(b, Full) \in Meanings /\ Agrees(NotWord(a), Meaning(b, Full))
    BY <2>3, <2>4, MeaningFacts
  <2> QED BY <1>3, <2>5 DEF b
<1> QED BY <1>2, <1>3
----------------------------------------------------------------------------
\* The remainder of a sum or product is known as far as its operands are.
LEMMA ArithAgrees ==
  ASSUME NEW op \in ArithOps, NEW a \in Word, NEW b \in Word,
         NEW l \in Meanings, NEW r \in Meanings, Agrees(a, l), Agrees(b, r)
  PROVE  BinaryMeaning(op, l, r) \in Meanings /\ Agrees(ArithWord(op, a, b), BinaryMeaning(op, l, r))
<1> DEFINE k == Least(l.known, r.known)  p == l.v  q == r.v
<1>1. p \in Int /\ q \in Int /\ l.known \in Knowns /\ r.known \in Knowns BY DEF Meanings
<1>2. k \in Knowns /\ k <= l.known /\ k <= r.known
  <2>1. l.known \in Int /\ r.known \in Int BY <1>1, KnownBound
  <2> QED BY <1>1, <2>1 DEF Least
<1>3. a \in Int /\ b \in Int BY DEF Word
<1>4. a % l.known = p % l.known /\ b % r.known = q % r.known BY DEF Agrees
<1> HIDE DEF p, q, k
<1>5. a % k = p % k /\ b % k = q % k BY <1>1, <1>2, <1>3, <1>4, Weaken
<1>6. k \in Pos /\ Full \in Pos /\ Full % k = 0 BY <1>2, KnownFacts
<1>7. /\ (a + b) % k = (p + q) % k /\ (a - b) % k = (p - q) % k /\ (a * b) % k = (p * q) % k
  BY <1>1, <1>3, <1>5, <1>6, AddMod
<1>8. ASSUME NEW x \in Int, NEW y \in Int, x % k = y % k
      PROVE  Meaning(y, k) \in Meanings /\ Agrees(x % Full, Meaning(y, k))
  <2>1. (x % Full) % k = x % k /\ x % Full \in Int BY <1>6, DividesMod, SelfMod
  <2> QED BY <1>2, <1>8, <2>1, MeaningFacts
<1>9. a + b \in Int /\ a - b \in Int /\ a * b \in Int /\ p + q \in Int /\ p - q \in Int /\ p * q \in Int
  BY <1>1, <1>3
<1>10. CASE op = "ADD"
  <2>1. ArithWord(op, a, b) = (a + b) % Full BY <1>10 DEF ArithWord, Full
  <2>2. BinaryMeaning(op, l, r) = Meaning(p + q, k) BY <1>10 DEF BinaryMeaning, p, q, k
  <2> QED BY <1>7, <1>8, <1>9, <2>1, <2>2
<1>11. CASE op = "SUB"
  <2>1. ArithWord(op, a, b) = (a - b) % Full BY <1>11 DEF ArithWord, Full
  <2>2. BinaryMeaning(op, l, r) = Meaning(p - q, k) BY <1>11 DEF BinaryMeaning, p, q, k
  <2> QED BY <1>7, <1>8, <1>9, <2>1, <2>2
<1>12. CASE op = "MUL"
  <2>1. ArithWord(op, a, b) = (a * b) % Full BY <1>12 DEF ArithWord, Full
  <2>2. BinaryMeaning(op, l, r) = Meaning(p * q, k) BY <1>12 DEF BinaryMeaning, p, q, k
  <2> QED BY <1>7, <1>8, <1>9, <2>1, <2>2
<1> QED BY <1>10, <1>11, <1>12 DEF ArithOps

\* Signed is one to one.
LEMMA SignedFacts ==
  ASSUME NEW a \in Word, NEW b \in Word
  PROVE  /\ Signed(a) \in Int /\ (Signed(a) = Signed(b) <=> a = b) /\ (Signed(a) = 0 <=> a = 0)
         /\ -Full <= Signed(a) /\ Signed(a) <= Full
<1> DEFINE n == Span["i64"]
<1>1. n \in Pos /\ n = Full BY KnownFacts DEF Full
<1>2. Signed(a) = (IF 2 * a >= n THEN a - n ELSE a) /\ Signed(b) = (IF 2 * b >= n THEN b - n ELSE b)
  BY DEF Signed
<1>3. a \in 0 .. n - 1 /\ b \in 0 .. n - 1 BY DEF Word
<1> HIDE DEF n
<1>4. n \in Nat /\ n > 0 /\ a \in Int /\ b \in Int /\ 0 <= a /\ a < n /\ 0 <= b /\ b < n
  BY <1>1, <1>3 DEF Pos
<1>5. Signed(a) \in Int /\ (Signed(a) = 0 <=> a = 0) /\ -n <= Signed(a) /\ Signed(a) <= n
  BY <1>2, <1>4
<1>6. Signed(a) = Signed(b) <=> a = b BY <1>2, <1>4
<1> QED BY <1>1, <1>5, <1>6

\* The comparisons of words are those of the integers they stand for.
LEMMA CompareAgrees ==
  ASSUME NEW op \in CompareOps, NEW a \in Word, NEW b \in Word, NEW w,
         w \in Partial("i8", IF Holds(op, a, b) THEN 1 ELSE 0)
  PROVE  LET m == Meaning(IF Compares(op, Signed(a), Signed(b)) THEN 1 ELSE 0, Span["i8"])
         IN  m \in Meanings /\ Agrees(w, m)
<1>1. Holds(op, a, b) <=> Compares(op, Signed(a), Signed(b))
  <2>1. Signed(a) \in Int /\ Signed(b) \in Int /\ (Signed(a) = Signed(b) <=> a = b)
    BY SignedFacts
  <2>2. CASE op = "EQ" BY <2>1, <2>2 DEF Holds, Compares
  <2>3. CASE op = "DIFF" BY <2>1, <2>3 DEF Holds, Compares
  <2>4. CASE op = "LARGER" BY <2>1, <2>4 DEF Holds, Compares
  <2>5. CASE op = "LARGER_EQ" BY <2>1, <2>5 DEF Holds, Compares
  <2>6. CASE op = "SMALLER" BY <2>1, <2>6 DEF Holds, Compares
  <2>7. CASE op = "SMALLER_EQ" BY <2>1, <2>7 DEF Holds, Compares
  <2> QED BY <2>2, <2>3, <2>4, <2>5, <2>6, <2>7 DEF CompareOps
<1> DEFINE h == IF Holds(op, a, b) THEN 1 ELSE 0  c == IF Compares(op, Signed(a), Signed(b)) THEN 1 ELSE 0
<1>2. h \in Int /\ c = h BY <1>1
<1>3. w \in Partial("i8", h) OBVIOUS
<1> HIDE DEF h, c
<1>4. PICK j \in Junk : w = Merge(j, "i8", h) BY <1>3 DEF Partial
<1>5. j \in Int /\ "i8" \in Widths BY JunkAssumption DEF Word, Widths
<1>6. w \in Int /\ w % Span["i8"] = h % Span["i8"] /\ Span["i8"] \in Knowns
  BY <1>2, <1>4, <1>5, MergeFacts, KnownFacts
<1>7. Meaning(c, Span["i8"]) \in Meanings /\ Agrees(w, Meaning(c, Span["i8"]))
  BY <1>2, <1>6, MeaningFacts
<1> QED BY <1>7 DEF c
----------------------------------------------------------------------------
\* The quotient of the magnitudes, with its sign, is the quotient of C.
Magnitude(x) == IF x < 0 THEN -x ELSE x
SignedQuotient(a, b) ==
  IF (a < 0) = (b < 0) THEN Magnitude(a) \div Magnitude(b) ELSE -(Magnitude(a) \div Magnitude(b))

\* What is left of a after b times q is smaller than b and has a's sign.
Truncates(a, b, q) ==
  LET r == a - b * q
  IN  /\ r < (IF b < 0 THEN -b ELSE b) /\ -r < (IF b < 0 THEN -b ELSE b)
      /\ r # 0 => (r < 0 <=> a < 0)

LEMMA TruncatesUnique ==
  ASSUME NEW a \in Int, NEW b \in Int, b # 0, NEW p \in Int, NEW q \in Int,
         Truncates(a, b, p), Truncates(a, b, q)
  PROVE  p = q
<1> DEFINE d == Magnitude(b)  r == a - b * p  s == a - b * q  k == q - p
<1>1. d \in Int /\ d > 0 /\ (d = b \/ d = -b) BY DEF Magnitude
<1>2. r \in Int /\ s \in Int /\ k \in Int OBVIOUS
<1>3. r < d /\ -r < d /\ (r # 0 => (r < 0 <=> a < 0)) BY DEF Truncates, Magnitude
<1>4. s < d /\ -s < d /\ (s # 0 => (s < 0 <=> a < 0)) BY DEF Truncates, Magnitude
<1>5. r - s = b * k OBVIOUS
<1> HIDE DEF d, r, s
<1>6. r - s < d /\ s - r < d BY <1>1, <1>2, <1>3, <1>4
<1>7. k = 0
  <2> HIDE DEF k
  <2>1. ASSUME k >= 1 PROVE FALSE
    <3>1. d * k >= d BY <1>1, <1>2, <2>1
    <3>2. b * k = d * k \/ b * k = -(d * k) BY <1>1, <1>2
    <3>3. d * k \in Int BY <1>1, <1>2
    <3> QED BY <1>1, <1>2, <1>5, <1>6, <3>1, <3>2, <3>3
  <2>2. ASSUME k <= -1 PROVE FALSE
    <3>1. d * k <= -d BY <1>1, <1>2, <2>2
    <3>2. b * k = d * k \/ b * k = -(d * k) BY <1>1, <1>2
    <3>3. d * k \in Int BY <1>1, <1>2
    <3> QED BY <1>1, <1>2, <1>5, <1>6, <3>1, <3>2, <3>3
  <2> QED BY <1>2, <2>1, <2>2
<1> QED BY <1>7

LEMMA QuotientFacts ==
  ASSUME NEW a \in Int, NEW b \in Int, b # 0, -Full <= a, a <= Full
  PROVE  Quotient(a, b) = SignedQuotient(a, b) /\ SignedQuotient(a, b) \in Int
<1> DEFINE u == Magnitude(a)  d == Magnitude(b)  q == u \div d  m == u % d  x == SignedQuotient(a, b)
<1>1. u \in Int /\ u >= 0 /\ u = (IF a < 0 THEN -a ELSE a) BY DEF Magnitude
<1>2. d \in Int /\ d > 0 /\ d = (IF b < 0 THEN -b ELSE b) BY DEF Magnitude
<1>3. x = IF (a < 0) = (b < 0) THEN q ELSE -q BY DEF SignedQuotient
<1>4. Full \in Int /\ u <= Full
  <2>1. Full \in Int BY KnownFacts DEF Pos
  <2> QED BY <1>1, <2>1
<1> HIDE DEF u, d, x
<1>5. d \in Pos BY <1>2 DEF Pos
<1>6. q \in Int /\ m \in 0 .. d - 1 /\ u = d * q + m BY <1>1, <1>5, Division
<1> HIDE DEF q, m
<1>7. q >= 0
  <2>1. ASSUME q <= -1 PROVE FALSE
    <3>1. d * q <= -d BY <1>2, <1>6, <2>1
    <3>2. d * q \in Int BY <1>2, <1>6
    <3> QED BY <1>1, <1>2, <1>6, <3>1, <3>2
  <2> QED BY <1>6, <2>1
<1>8. q <= u
  <2>1. d * q >= q BY <1>2, <1>6, <1>7
  <2>2. d * q \in Int BY <1>2, <1>6
  <2> QED BY <1>1, <1>2, <1>6, <2>1, <2>2
<1>9. x \in Int /\ x \in -Full .. Full BY <1>3, <1>4, <1>6, <1>7, <1>8, <1>1
<1>10. a - b * x = IF a < 0 THEN -m ELSE m
  <2>1. d * q = u - m /\ d * q \in Int BY <1>1, <1>2, <1>6
  <2>2. b * x = IF a < 0 THEN -(d * q) ELSE d * q BY <1>2, <1>3, <1>6
  <2> QED BY <1>1, <1>6, <2>1, <2>2
<1>11. Truncates(a, b, x)
  <2> DEFINE r == a - b * x
  <2>1. r = IF a < 0 THEN -m ELSE m BY <1>10
  <2> HIDE DEF r
  <2>2. r < d /\ -r < d /\ (r # 0 => (r < 0 <=> a < 0)) BY <1>2, <1>6, <2>1
  <2> QED BY <1>2, <2>2 DEF Truncates, r
<1>12. Quotient(a, b) = CHOOSE p \in -Full .. Full : Truncates(a, b, p) BY DEF Quotient, Truncates
<1>13. \A p \in -Full .. Full : Truncates(a, b, p) => p = x
  <2>1. TAKE p \in -Full .. Full
  <2>2. p \in Int BY <1>4
  <2> QED BY <1>9, <1>11, <2>2, TruncatesUnique
<1> HIDE DEF Quotient
<1>14. Quotient(a, b) = x BY <1>9, <1>11, <1>12, <1>13
<1> QED BY <1>9, <1>14 DEF x

\* What a binary operation leaves in its register has the meaning of the operation.
LEMMA BinaryAgrees ==
  ASSUME NEW op \in BinaryOps, NEW a \in Word, NEW b \in Word,
         op \in DivideOps => ~DivTraps(a, b),
         NEW l \in Meanings, NEW r \in Meanings, Agrees(a, l), Agrees(b, r),
         NEW w \in BinaryWords(op, a, b)
  PROVE  BinaryMeaning(op, l, r) \in Meanings /\ Agrees(w, BinaryMeaning(op, l, r))
<1>0. w \in Word /\ w \in Int
  <2>1. w \in Word BY BinaryWordsTyped
  <2> QED BY <2>1 DEF Word
<1>1. CASE op \in ArithOps
  <2>1. op \notin DivideOps /\ op \notin CompareOps BY <1>1 DEF ArithOps, DivideOps, CompareOps
  <2>2. w = ArithWord(op, a, b) BY <1>1, <2>1 DEF BinaryWords
  <2> QED BY <1>1, <2>2, ArithAgrees
<1>2. CASE op \notin ArithOps
  <2> DEFINE both == Least(l.known, r.known)  p == Narrow("i64", l.v)  q == Narrow("i64", r.v)
             compared == Meaning(IF Compares(op, p, q) THEN 1 ELSE 0, Span["i8"])
             divided == IF q = 0 THEN Unknown ELSE Meaning(Quotient(p, q), Full)
  <2>1. BinaryMeaning(op, l, r) =
          IF both < Full THEN Unknown ELSE IF op \in CompareOps THEN compared ELSE divided
    BY <1>2 DEF BinaryMeaning, ArithOps
  <2>2. CASE both < Full BY <1>0, <2>1, <2>2, AgreesUnknown
  <2>3. CASE ~(both < Full)
    <3>1. l.known = Full /\ r.known = Full
      <4>1. l.known \in Knowns /\ r.known \in Knowns BY DEF Meanings
      <4> HIDE DEF both
      <4>2. both \in {l.known, r.known} /\ (l.known < both => FALSE) /\ (r.known < both => FALSE)
        <5>1. l.known \in Int /\ r.known \in Int BY <4>1, KnownBound
        <5> QED BY <5>1 DEF Least, both
      <4>3. both \in Knowns BY <4>1, <4>2
      <4>4. both = Full BY <2>3, <4>3, KnownBound
      <4>5. ~(l.known < Full) /\ ~(r.known < Full) BY <4>2, <4>4
      <4> QED BY <4>1, <4>5, KnownBound
    <3>2. p = Signed(a) /\ q = Signed(b) BY <3>1, KnownInFull
    <3>3. CASE op \in CompareOps
      <4>1. w \in Partial("i8", IF Holds(op, a, b) THEN 1 ELSE 0)
        BY <1>2, <3>3 DEF BinaryWords, CompareOps, DivideOps
      <4>2. compared = Meaning(IF Compares(op, Signed(a), Signed(b)) THEN 1 ELSE 0, Span["i8"])
        BY <3>2
      <4> HIDE DEF compared
      <4>3. compared \in Meanings /\ Agrees(w, compared) BY <3>3, <4>1, <4>2, CompareAgrees
      <4> QED BY <2>1, <2>3, <3>3, <4>3
    <3>4. CASE op \in DivideOps
      <4>1. w = DivWord(a, b) /\ b # 0 /\ op \notin CompareOps
        BY <1>2, <3>4 DEF BinaryWords, CompareOps, DivideOps, DivTraps
      <4>2. /\ p \in Int /\ q \in Int /\ q # 0 /\ -Full <= p /\ p <= Full
        BY <3>2, <4>1, SignedFacts
      <4>3. divided = Meaning(Quotient(p, q), Full) BY <4>2
      <4>4. DivWord(a, b) = SignedQuotient(Signed(a), Signed(b)) % Full
        BY DEF DivWord, SignedQuotient, Magnitude, Full
      <4> DEFINE x == SignedQuotient(p, q)
      <4>5. w = x % Full BY <3>2, <4>1, <4>4
      <4> HIDE DEF p, q, divided
      <4>6. x \in Int /\ Quotient(p, q) = x BY <4>2, QuotientFacts
      <4> HIDE DEF x
      <4>7. w % Full = x % Full /\ Full \in Knowns BY <4>5, <4>6, SelfMod, KnownFacts
      <4>8. divided \in Meanings /\ Agrees(w, divided) BY <1>0, <4>3, <4>6, <4>7, MeaningFacts
      <4> QED BY <2>1, <2>3, <4>1, <4>8
    <3> QED BY <1>2, <3>3, <3>4 DEF BinaryOps
  <2> QED BY <2>2, <2>3
<1> QED BY <1>1, <1>2
----------------------------------------------------------------------------
\* A sign-extended number has the low bits of the number.
LEMMA SignExtendFacts ==
  ASSUME NEW m \in Int
  PROVE  /\ SignExtend16(m) \in Int
         /\ SignExtend16(m) % Span["i16"] = m % Span["i16"]
         /\ \A v \in Int : m % Span["i16"] = v % Span["i16"] =>
              SignExtend16(m) % Span["i32"] = Narrow("i16", v) % Span["i32"]
<1> DEFINE n == Span["i16"]  d == Span["i32"]  h == m % n  x == SignExtend16(m)
<1>1. n \in Pos /\ d \in Pos /\ n \in Int /\ d \in Int /\ d % n = 0
  <2>1. n \in Pos /\ d \in Pos /\ n \in Knowns /\ d \in Knowns BY KnownFacts DEF Widths
  <2>2. n <= d BY SpanAssumption
  <2> QED BY <2>1, <2>2, KnownFacts DEF Pos
<1>2. x = (IF 2 * h >= n THEN h + d - n ELSE h) BY DEF SignExtend16
<1>3. \A v \in Int : Narrow("i16", v) = IF 2 * (v % n) >= n THEN (v % n) - n ELSE v % n BY DEF Narrow
<1> HIDE DEF n, d
<1>4. h \in Int /\ h % n = h BY <1>1, SelfMod
<1> HIDE DEF h, x
<1>5. x \in Int BY <1>1, <1>2, <1>4
<1>6. (h + d - n) % n = h
  <2>1. (h + d) % n = (h + 0) % n /\ h + d \in Int
    <3>1. 0 % n = 0
      <4>1. n \in Int /\ n > 0 BY <1>1 DEF Pos
      <4> QED BY <4>1
    <3>2. h % n = h % n /\ d % n = 0 % n /\ 0 \in Int BY <1>1, <3>1
    <3>3. (h + d) % n = (h + 0) % n BY <1>1, <1>4, <3>2, AddMod
    <3> QED BY <1>1, <1>4, <3>3
  <2> DEFINE e == h + d
  <2>2. e \in Int /\ h + d - n = e - n /\ e % n = h BY <1>1, <1>4, <2>1
  <2> HIDE DEF e
  <2>3. (e - n) % n = e % n BY <1>1, <2>2, Shift
  <2> QED BY <2>2, <2>3
<1>7. x % n = h BY <1>2, <1>4, <1>6
<1>8. (h - n) % d = (h + d - n) % d
  <2>1. h - n \in Int BY <1>1, <1>4
  <2>2. (h - n + d) % d = (h - n) % d BY <1>1, <2>1, Shift
  <2>3. h - n + d = h + d - n BY <1>1, <1>4
  <2> QED BY <2>2, <2>3
<1>9. \A v \in Int : h = v % n => x % d = Narrow("i16", v) % d
  <2>1. TAKE v \in Int
  <2>2. HAVE h = v % n
  <2>3. Narrow("i16", v) = IF 2 * h >= n THEN h - n ELSE h BY <1>3, <2>2
  <2> QED BY <1>2, <1>8, <2>3
<1> QED BY <1>5, <1>7, <1>9 DEF n, d, h, x

\* LOAD: the register has the bits that it shares with the memory and that
\* are known there; an i16 is known in 32 bits.
LEMMA LoadAgrees ==
  ASSUME NEW t \in DataTypes \ {"void"}, NEW old \in Word, NEW m \in Word,
         NEW u \in Meanings, Agrees(m, u)
  PROVE  LoadMeaning(t, u) \in Meanings /\ Agrees(LoadWord(t, old, m), LoadMeaning(t, u))
<1> DEFINE w == AccessWidth[t]  n == Span[w]  k == u.known  v == u.v  y == Narrow(w, v)
           x == LoadWord(t, old, m)
           known == IF k < n THEN k ELSE IF t = "i16" THEN Span["i32"] ELSE n
<1>1. w \in Widths /\ "i32" \in Widths /\ "i16" \in Widths BY DEF AccessWidth, DataTypes, Widths
<1>2. k \in Knowns /\ v \in Int /\ old \in Int /\ m \in Int BY DEF Meanings, Word
<1>3. LoadMeaning(t, u) = Meaning(y, known) BY DEF LoadMeaning
<1>4. t = "i16" => w = "i16" BY DEF AccessWidth
<1>5. x = IF t = "i16" THEN Merge(old, "i32", SignExtend16(m)) ELSE Merge(old, w, m) BY DEF LoadWord
<1>6. m % k = v % k BY DEF Agrees
<1> HIDE DEF w, k, v, x
<1>7. y \in Int /\ y % n = v % n BY <1>1, <1>2, NarrowFacts
<1>8. n \in Knowns /\ n \in Pos /\ Span["i32"] \in Knowns /\ Span["i32"] \in Pos
      /\ Span["i16"] \in Pos /\ Span["i16"] \in Knowns
  BY <1>1, KnownFacts
<1>9. x \in Int /\ x % n = m % n
  <2>1. CASE t # "i16" BY <1>1, <1>2, <1>5, <2>1, MergeFacts
  <2>2. CASE t = "i16"
    <3>1. SignExtend16(m) \in Int /\ SignExtend16(m) % n = m % n
      BY <1>2, <1>4, <2>2, SignExtendFacts
    <3>2. x \in Int /\ x % Span["i32"] = SignExtend16(m) % Span["i32"]
      BY <1>1, <1>2, <1>5, <2>2, <3>1, MergeFacts
    <3>3. n <= Span["i32"] BY <1>4, <2>2, SpanAssumption
    <3> HIDE DEF n
    <3>4. x % n = SignExtend16(m) % n BY <1>8, <3>1, <3>2, <3>3, Weaken
    <3> QED BY <3>1, <3>2, <3>4
  <2> QED BY <2>1, <2>2
<1> HIDE DEF y
<1>10. ASSUME k < n PROVE known \in Knowns /\ x % known = y % known
  <2> HIDE DEF n
  <2>1. k <= n /\ k \in Int /\ n \in Int BY <1>2, <1>8, <1>10, KnownBound
  <2>2. x % k = m % k BY <1>2, <1>8, <1>9, <2>1, Weaken
  <2>3. y % k = v % k BY <1>2, <1>7, <1>8, <2>1, Weaken
  <2>4. x % k = y % k /\ known = k BY <1>6, <1>10, <2>2, <2>3
  <2> QED BY <1>2, <2>4
<1>11. ASSUME ~(k < n) PROVE known \in Knowns /\ x % known = y % known
  <2>1. m % n = v % n
    <3> HIDE DEF n
    <3>1. n <= k BY <1>2, <1>8, <1>11, KnownBound
    <3> QED BY <1>2, <1>6, <1>8, <3>1, Weaken
  <2>2. known \in Knowns /\ x % known = y % known
    <3>1. CASE t # "i16"
      <4>1. known = n BY <1>11, <3>1
      <4> HIDE DEF n, known
      <4> QED BY <1>7, <1>8, <1>9, <2>1, <4>1
    <3>2. CASE t = "i16"
      <4>1. known = Span["i32"] BY <1>11, <3>2
      <4>2. SignExtend16(m) \in Int BY <1>2, SignExtendFacts
      <4>3. x % Span["i32"] = SignExtend16(m) % Span["i32"]
        BY <1>1, <1>2, <1>5, <3>2, <4>2, MergeFacts
      <4>4. m % Span["i16"] = v % Span["i16"] BY <1>4, <2>1, <3>2
      <4>5. SignExtend16(m) % Span["i32"] = Narrow("i16", v) % Span["i32"]
        BY <1>2, <4>4, SignExtendFacts
      <4>6. y = Narrow("i16", v) BY <1>4, <3>2 DEF y
      <4> HIDE DEF n, known
      <4> QED BY <1>8, <4>1, <4>3, <4>5, <4>6
    <3> QED BY <3>1, <3>2
  <2> QED BY <2>2
<1>12. known \in Knowns /\ x % known = y % known BY <1>10, <1>11
<1> HIDE DEF known, n
<1>13. Meaning(y, known) \in Meanings /\ Agrees(x, Meaning(y, known))
  BY <1>7, <1>9, <1>12, MeaningFacts
<1> QED BY <1>3, <1>13 DEF x

\* STORE: the memory has the value's known low bits, and above them its own.
LEMMA StoreAgrees ==
  ASSUME NEW t \in DataTypes \ {"void"}, NEW m \in Word, NEW b \in Word,
         NEW u \in Meanings, NEW r \in Meanings, Agrees(m, u), Agrees(b, r)
  PROVE  StoreMeaning(t, u, r) \in Meanings /\ Agrees(StoreWord(t, m, b), StoreMeaning(t, u, r))
<1> DEFINE w == AccessWidth[t]  n == Span[w]  k == u.known  v == u.v  l == r.known  c == r.v
           x == StoreWord(t, m, b)  y == (c % n) + v - (v % n)
           known == IF l < n THEN l ELSE Most(k, n)
<1>1. w \in Widths BY DEF AccessWidth, DataTypes, Widths
<1>2. k \in Knowns /\ v \in Int /\ l \in Knowns /\ c \in Int /\ m \in Int /\ b \in Int
  BY DEF Meanings, Word
<1>3. StoreMeaning(t, u, r) = Meaning(y, known) BY DEF StoreMeaning
<1>4. x = Merge(m, w, b) BY DEF StoreWord
<1>5. m % k = v % k /\ b % l = c % l BY DEF Agrees
<1> HIDE DEF w, k, v, l, c, x
<1>6. n \in Knowns /\ n \in Pos BY <1>1, KnownFacts
<1>7. x \in Int /\ x % n = b % n /\ x = (b % n) + m - (m % n) BY <1>1, <1>2, <1>4, MergeFacts
<1> HIDE DEF n
<1>8. b % n \in Int /\ m % n \in Int /\ c % n \in Int /\ v % n \in Int BY <1>2, <1>6, SelfMod
<1>9. y \in Int /\ y % n = c % n
  <2>1. y = ((c % n) + v) - (v % n) /\ (c % n) + v \in Int BY <1>2, <1>8
  <2>2. (c % n) % n = c % n /\ (v % n) % n = v % n BY <1>2, <1>6, SelfMod
  <2>3. ((c % n) + v) % n = (c + v) % n BY <1>2, <1>6, <1>8, <2>2, AddMod
  <2>4. c + v \in Int BY <1>2
  <2>5. y % n = ((c + v) - v) % n BY <1>2, <1>6, <1>8, <2>1, <2>2, <2>3, <2>4, AddMod
  <2>6. (c + v) - v = c BY <1>2
  <2> QED BY <1>2, <1>8, <2>1, <2>5, <2>6
<1>10. k \in Int /\ l \in Int /\ n \in Int BY <1>2, <1>6, KnownBound
<1>11. ASSUME l < n PROVE known \in Knowns /\ x % known = y % known
  <2> HIDE DEF y
  <2>0. l <= n BY <1>10, <1>11
  <2>1. x % l = b % l BY <1>2, <1>6, <1>7, <2>0, Weaken
  <2>2. y % l = c % l BY <1>2, <1>6, <1>9, <2>0, Weaken
  <2>3. x % l = y % l /\ known = l BY <1>5, <1>11, <2>1, <2>2
  <2> HIDE DEF known
  <2> QED BY <1>2, <2>3
<1>12. ASSUME ~(l < n) PROVE known \in Knowns /\ x % known = y % known
  <2>1. b % n = c % n BY <1>2, <1>5, <1>6, <1>10, <1>12, Weaken
  <2>2. CASE ~(n < k)
    <3> HIDE DEF y
    <3>1. known = n BY <1>10, <1>12, <2>2 DEF Most
    <3>2. x % known = y % known BY <1>7, <1>9, <2>1, <3>1
    <3> HIDE DEF known
    <3> QED BY <1>6, <3>1, <3>2
  <2>3. CASE n < k
    <3>1. known = k BY <1>10, <1>12, <2>3 DEF Most
    <3>2. m % n = v % n BY <1>2, <1>5, <1>6, <1>10, <2>3, Weaken
    <3> DEFINE g == (b % n) - (m % n)
    <3>3. g \in Int /\ x = g + m /\ y = g + v BY <1>2, <1>7, <1>8, <2>1, <3>2
    <3>4. k \in Pos BY <1>2, KnownFacts
    <3> HIDE DEF g, y, known
    <3>5. (g + m) % k = (g + v) % k BY <1>2, <1>5, <3>3, <3>4, AddSame
    <3> QED BY <1>2, <3>1, <3>3, <3>5
  <2> QED BY <2>2, <2>3
<1>13. known \in Knowns /\ x % known = y % known BY <1>11, <1>12
<1> HIDE DEF known, y
<1>14. Meaning(y, known) \in Meanings /\ Agrees(x, Meaning(y, known))
  BY <1>7, <1>9, <1>13, MeaningFacts
<1> QED BY <1>3, <1>14 DEF x
----------------------------------------------------------------------------
(***************************************************************************)
(* The recursive function of Reference exists and is unique, so that the   *)
(* reference state before an instruction is a step of the one before.      *)
(***************************************************************************)
RefInit(s, fn) ==
  [values |-> [id \in Ids(fn) |-> IF id < fn.args_count THEN Meaning(s.values[id + 1], Full)
                                  ELSE Unknown],
   memory |-> [a \in Addr |-> Meaning(s.memory[a], Full)]]

RefAt(s, fn, g, j) == IF j = 0 THEN RefInit(s, fn) ELSE RefStep(fn, g[j - 1], fn.blocks[1][j])
IsRef(s, fn, n, g) == g = [j \in 0 .. n - 1 |-> RefAt(s, fn, g, j)]

LEMMA RefExists ==
  ASSUME NEW s, NEW fn, NEW n \in Pos
  PROVE  \E g : IsRef(s, fn, n, g)
<1> DEFINE Bad == {m \in Pos : ~(\E g : IsRef(s, fn, m, g))}
<1>1. SUFFICES ASSUME Bad # {} PROVE FALSE
  OBVIOUS
<1>2. PICK m \in Bad : \A y \in Bad : m <= y
  <2>1. Bad \subseteq Nat BY DEF Pos
  <2> HIDE DEF Bad
  <2> QED BY <1>1, <2>1, LeastNat
<1>3. m \in Pos /\ ~(\E g : IsRef(s, fn, m, g)) OBVIOUS
<1>4. m # 1
  <2> DEFINE h == [j \in 0 .. 0 |-> RefInit(s, fn)]
  <2>1. \A j \in 0 .. 0 : RefAt(s, fn, h, j) = RefInit(s, fn) BY DEF RefAt
  <2>2. h = [j \in 0 .. 0 |-> RefAt(s, fn, h, j)] BY <2>1
  <2>3. 1 - 1 = 0 OBVIOUS
  <2> HIDE DEF h
  <2>4. IsRef(s, fn, 1, h) BY <2>2, <2>3 DEF IsRef
  <2> QED BY <1>3, <2>4
<1>5. m - 1 \in Pos /\ ~(m <= m - 1) BY <1>3, <1>4 DEF Pos
<1>6. PICK g : IsRef(s, fn, m - 1, g)
  <2> QED BY <1>2, <1>5
<1> DEFINE last == RefStep(fn, g[m - 2], fn.blocks[1][m - 1])
           h == [j \in 0 .. m - 1 |-> IF j = m - 1 THEN last ELSE g[j]]
<1>7. \A j \in 0 .. m - 2 : h[j] = g[j] /\ g[j] = RefAt(s, fn, g, j)
  <2>1. (m - 1) - 1 = m - 2 /\ m \in Nat /\ m >= 2 BY <1>3, <1>4 DEF Pos
  <2>2. g = [j \in 0 .. m - 2 |-> RefAt(s, fn, g, j)] BY <1>6, <2>1 DEF IsRef
  <2>3. TAKE j \in 0 .. m - 2
  <2>4. g[j] = RefAt(s, fn, g, j) BY <2>2
  <2>5. j \in 0 .. m - 1 /\ j # m - 1 BY <2>1
  <2> HIDE DEF last
  <2> QED BY <2>4, <2>5
<1>8. \A j \in 0 .. m - 1 : h[j] = RefAt(s, fn, h, j)
  <2>1. TAKE j \in 0 .. m - 1
  <2>2. m \in Nat /\ m >= 2 BY <1>3, <1>4 DEF Pos
  <2>3. CASE j = m - 1
    <3>1. h[j] = last BY <2>3
    <3>2. m - 2 \in 0 .. m - 2 /\ j # 0 /\ j - 1 = m - 2 BY <2>2, <2>3
    <3> HIDE DEF h
    <3>3. h[j - 1] = g[m - 2] BY <1>7, <3>2
    <3> QED BY <2>3, <3>1, <3>2, <3>3 DEF RefAt
  <2>4. CASE j # m - 1
    <3>1. j \in 0 .. m - 2 BY <2>1, <2>2, <2>4
    <3> HIDE DEF h
    <3>2. h[j] = RefAt(s, fn, g, j) BY <1>7, <3>1
    <3>3. j # 0 => h[j - 1] = g[j - 1]
      <4>1. j # 0 => j - 1 \in 0 .. m - 2 BY <2>2, <3>1
      <4> QED BY <1>7, <4>1
    <3> QED BY <3>2, <3>3 DEF RefAt
  <2> QED BY <2>3, <2>4
<1>9. h = [j \in 0 .. m - 1 |-> h[j]] BY <1>3 DEF Pos
<1> HIDE DEF h
<1>10. IsRef(s, fn, m, h) BY <1>8, <1>9 DEF IsRef
<1> QED BY <1>3, <1>10

LEMMA RefUnique ==
  ASSUME NEW s, NEW fn, NEW m \in Pos, NEW n \in Pos, m <= n,
         NEW g, NEW h, IsRef(s, fn, m, g), IsRef(s, fn, n, h)
  PROVE  \A j \in 0 .. m - 1 : g[j] = h[j]
<1> DEFINE Bad == {j \in 0 .. m - 1 : g[j] # h[j]}
<1>1. SUFFICES ASSUME Bad # {} PROVE FALSE
  OBVIOUS
<1>0. m \in Nat /\ n \in Nat BY DEF Pos
<1>2. PICK j \in Bad : \A y \in Bad : j <= y
  <2>1. Bad \subseteq Nat BY <1>0
  <2> HIDE DEF Bad
  <2> QED BY <1>1, <2>1, LeastNat
<1>3. j \in 0 .. m - 1 /\ j \in 0 .. n - 1 /\ g[j] # h[j] BY <1>0
<1>4. g[j] = RefAt(s, fn, g, j) /\ h[j] = RefAt(s, fn, h, j)
  <2>1. g = [k \in 0 .. m - 1 |-> RefAt(s, fn, g, k)] BY DEF IsRef
  <2>2. h = [k \in 0 .. n - 1 |-> RefAt(s, fn, h, k)] BY DEF IsRef
  <2>3. g[j] = RefAt(s, fn, g, j) BY <1>3, <2>1
  <2>4. h[j] = RefAt(s, fn, h, j) BY <1>3, <2>2
  <2> QED BY <2>3, <2>4
<1>5. CASE j = 0 BY <1>3, <1>4, <1>5 DEF RefAt
<1>6. CASE j # 0
  <2>1. j - 1 \in 0 .. m - 1 /\ ~(j <= j - 1) BY <1>0, <1>3, <1>6
  <2>2. g[j - 1] = h[j - 1] BY <1>2, <2>1
  <2> QED BY <1>3, <1>4, <1>6, <2>2 DEF RefAt
<1> QED BY <1>5, <1>6

LEMMA ReferenceIs ==
  ASSUME NEW s, NEW fn, NEW n \in Pos
  PROVE  \E g : IsRef(s, fn, n, g) /\ Reference(s, fn, n) = g[n - 1]
<1> DEFINE args == [id \in Ids(fn) |-> IF id < fn.args_count
                                       THEN Meaning(s.values[id + 1], Full) ELSE Unknown]
           Eqn(g) == g = [j \in 0 .. n - 1 |->
                            IF j = 0
                            THEN [values |-> args, memory |-> [a \in Addr |-> Meaning(s.memory[a], Full)]]
                            ELSE RefStep(fn, g[j - 1], fn.blocks[1][j])]
<1>1. Reference(s, fn, n) = (CHOOSE g : Eqn(g))[n - 1] BY DEF Reference
<1>2. \A g : Eqn(g) <=> IsRef(s, fn, n, g) BY DEF IsRef, RefAt, RefInit
<1> HIDE DEF Eqn
<1>3. \E g : Eqn(g) BY <1>2, RefExists
<1>4. Eqn(CHOOSE g : Eqn(g)) BY <1>3
<1> QED BY <1>1, <1>2, <1>4

LEMMA ReferenceSteps ==
  ASSUME NEW s, NEW fn
  PROVE  /\ Reference(s, fn, 1) = RefInit(s, fn)
         /\ \A n \in Pos : Reference(s, fn, n + 1) = RefStep(fn, Reference(s, fn, n), fn.blocks[1][n])
<1>1. Reference(s, fn, 1) = RefInit(s, fn)
  <2>1. PICK g : IsRef(s, fn, 1, g) /\ Reference(s, fn, 1) = g[1 - 1]
    BY ReferenceIs DEF Pos
  <2>2. g = [j \in 0 .. 1 - 1 |-> RefAt(s, fn, g, j)] BY <2>1 DEF IsRef
  <2>3. 1 - 1 = 0 /\ 0 \in 0 .. 1 - 1 OBVIOUS
  <2>4. g[0] = RefAt(s, fn, g, 0) BY <2>2, <2>3
  <2> QED BY <2>1, <2>3, <2>4 DEF RefAt
<1>2. ASSUME NEW n \in Pos
      PROVE Reference(s, fn, n + 1) = RefStep(fn, Reference(s, fn, n), fn.blocks[1][n])
  <2>1. n + 1 \in Pos /\ n <= n + 1 /\ (n + 1) - 1 = n /\ n \in Nat /\ n # 0 BY DEF Pos
  <2>2. PICK g : IsRef(s, fn, n, g) /\ Reference(s, fn, n) = g[n - 1] BY ReferenceIs
  <2>3. PICK h : IsRef(s, fn, n + 1, h) /\ Reference(s, fn, n + 1) = h[n]
    BY <2>1, ReferenceIs
  <2>4. g[n - 1] = h[n - 1]
    <3>1. n - 1 \in 0 .. n - 1 BY <2>1
    <3> QED BY <2>1, <2>2, <2>3, <3>1, RefUnique
  <2>5. h[n] = RefAt(s, fn, h, n)
    <3>1. h = [j \in 0 .. n |-> RefAt(s, fn, h, j)] BY <2>1, <2>3 DEF IsRef
    <3>2. n \in 0 .. n BY <2>1
    <3> QED BY <3>1, <3>2
  <2> QED BY <2>1, <2>2, <2>3, <2>4, <2>5 DEF RefAt
<1> QED BY <1>1, <1>2
----------------------------------------------------------------------------
(***************************************************************************)
(* The inductive invariant: the first block of the program's first         *)
(* function is executed from its start with the registers at the bottom of *)
(* the pool, never entered again without a frame, and every instruction of *)
(* it brings the reference a step further.                                 *)
(***************************************************************************)
RefStates(fn) == [values : [Ids(fn) -> Meanings], memory : [Addr -> Meanings]]

Follows(st) ==
  /\ st \in RefStates(prog[1])
  /\ \A id \in Ids(prog[1]) : Agrees(Reg(id), st.values[id])
  /\ \A a \in Addr : Agrees(memory[a], st.memory[a])

InFirstBlock == status = "running" /\ block = <<1, 1>> /\ frames = <<>>

FollowsFrom(s) ==
  /\ prog = s.prog
  /\ \A k \in DOMAIN frames : frames[k].block # <<1, 1>>
  /\ InFirstBlock => /\ registers = 0 /\ instr_index \in Pos
                     /\ Follows(Reference(s, prog[1], instr_index))

\* What StraightLine says of the first function.
LEMMA StraightFacts ==
  ASSUME TypeOK, NEW s \in Starts, prog = s.prog, StraightLine(s), 1 \in DOMAIN prog
  PROVE  /\ Ids(prog[1]) \subseteq Cells
         /\ \A b \in DOMAIN prog[1].blocks : \A j \in DOMAIN prog[1].blocks[b] :
              prog[1].blocks[b][j].op \in {"BR", "COND_BR"} =>
                prog[1].blocks[b][j].yes # 1 /\ prog[1].blocks[b][j].no # 1
         /\ \A j \in DOMAIN prog[1].blocks[1] :
              /\ prog[1].blocks[1][j].op # "CALL_FUNC"
              /\ prog[1].blocks[1][j].op \in {"LOAD", "STORE"} =>
                   Reference(s, prog[1], j).values[prog[1].blocks[1][j].left].known = Full
<1> DEFINE fn == prog[1]
<1>1. fn \in {s.prog[f] : f \in DOMAIN s.prog \cap {1}} OBVIOUS
<1> HIDE DEF fn
<1>2. ValuesSize(fn) <= PoolSize BY <1>1 DEF StraightLine
<1>3. \A b \in DOMAIN fn.blocks : \A j \in DOMAIN fn.blocks[b] :
        fn.blocks[b][j].op \in {"BR", "COND_BR"} => 1 \notin {fn.blocks[b][j].yes, fn.blocks[b][j].no}
  BY <1>1 DEF StraightLine
<1>4. \A j \in DOMAIN fn.blocks[1] :
        /\ fn.blocks[1][j].op # "CALL_FUNC"
        /\ fn.blocks[1][j].op \in {"LOAD", "STORE"} =>
             Reference(s, fn, j).values[fn.blocks[1][j].left].known = Full
  BY <1>1 DEF StraightLine
<1>5. ValuesSize(fn) \in Nat
  <2>1. fn \in Function BY DEF TypeOK, WellFormed, fn
  <2> QED BY <2>1 DEF Function, ValuesSize
<1>6. Ids(fn) \subseteq Cells BY <1>2, <1>5, SizeAssumption DEF Ids, Cells
<1> QED BY <1>3, <1>4, <1>6 DEF fn

\* A register is given a word and the meaning of it.
LEMMA GenFollows ==
  ASSUME TypeOK, NEW st, Follows(st), Ids(prog[1]) \subseteq Cells, registers = 0,
         NEW gen \in Ids(prog[1]), NEW m \in Meanings, NEW w, Agrees(w, m),
         pool' = [pool EXCEPT ![registers + gen] = w], UNCHANGED <<prog, registers, memory>>
  PROVE  Follows([st EXCEPT !.values[gen] = m])'
<1> DEFINE I == Ids(prog[1])  next == [st EXCEPT !.values[gen] = m]
<1>1. st \in RefStates(prog[1]) /\ st.values \in [I -> Meanings] /\ st.memory \in [Addr -> Meanings]
  BY DEF Follows, RefStates
<1>2. /\ next.values = [st.values EXCEPT ![gen] = m] /\ next.memory = st.memory
      /\ next \in RefStates(prog[1])
  <2>1. next = [st EXCEPT !.values = [st.values EXCEPT ![gen] = m]] OBVIOUS
  <2> DEFINE v == [st.values EXCEPT ![gen] = m]
  <2>2. v \in [I -> Meanings] BY <1>1
  <2> HIDE DEF v, I
  <2> QED BY <1>1, <2>1, <2>2 DEF RefStates, v, I
<1> HIDE DEF next
<1>3. \A id \in I : id \in Int
  <2>1. ValuesSize(prog[1]) \in Int \/ TRUE OBVIOUS
  <2> QED BY SizeAssumption DEF Cells
<1>4. \A id \in I : Agrees(pool'[registers' + id], next.values[id])
  <2>1. TAKE id \in I
  <2>2. registers' + id = id /\ registers + gen = gen /\ id \in Cells /\ gen \in Cells
    BY <1>3
  <2>3. pool \in [Cells -> Word] BY DEF TypeOK
  <2>4. CASE id = gen
    <3>1. pool'[id] = w BY <2>2, <2>3, <2>4
    <3>2. next.values[id] = m BY <1>1, <1>2, <2>4
    <3> QED BY <2>2, <3>1, <3>2
  <2>5. CASE id # gen
    <3>1. pool'[id] = pool[id] BY <2>2, <2>3, <2>5
    <3>2. next.values[id] = st.values[id] BY <1>1, <1>2, <2>5
    <3>3. Agrees(pool[id], st.values[id])
      <4>1. registers + id = id BY <1>3
      <4> QED BY <4>1 DEF Follows, Reg
    <3> QED BY <2>2, <3>1, <3>2, <3>3
  <2> QED BY <2>4, <2>5
<1>5. \A a \in Addr : Agrees(memory'[a], next.memory[a]) BY <1>2 DEF Follows
<1>6. prog' = prog OBVIOUS
<1> QED BY <1>2, <1>4, <1>5, <1>6 DEF Follows, Reg, next

\* A word of memory is given a word and the meaning of it.
LEMMA StoreFollows ==
  ASSUME TypeOK, NEW st, Follows(st),
         NEW addr \in Addr, NEW m \in Meanings, NEW w, Agrees(w, m),
         memory' = [memory EXCEPT ![addr] = w], UNCHANGED <<prog, registers, pool>>
  PROVE  Follows([st EXCEPT !.memory[addr] = m])'
<1> DEFINE I == Ids(prog[1])  next == [st EXCEPT !.memory[addr] = m]
<1>1. st \in RefStates(prog[1]) /\ st.values \in [I -> Meanings] /\ st.memory \in [Addr -> Meanings]
  BY DEF Follows, RefStates
<1>2. /\ next.memory = [st.memory EXCEPT ![addr] = m] /\ next.values = st.values
      /\ next \in RefStates(prog[1])
  <2>1. next = [st EXCEPT !.memory = [st.memory EXCEPT ![addr] = m]] OBVIOUS
  <2> DEFINE v == [st.memory EXCEPT ![addr] = m]
  <2>2. v \in [Addr -> Meanings] BY <1>1
  <2> HIDE DEF v, I
  <2> QED BY <1>1, <2>1, <2>2 DEF RefStates, v, I
<1> HIDE DEF next
<1>3. \A a \in Addr : Agrees(memory'[a], next.memory[a])
  <2>1. TAKE a \in Addr
  <2>2. memory \in [Addr -> Word] BY DEF TypeOK
  <2>3. CASE a = addr
    <3>1. memory'[a] = w BY <2>2, <2>3
    <3>2. next.memory[a] = m BY <1>1, <1>2, <2>3
    <3> QED BY <3>1, <3>2
  <2>4. CASE a # addr
    <3>1. memory'[a] = memory[a] BY <2>2, <2>4
    <3>2. next.memory[a] = st.memory[a] BY <1>1, <1>2, <2>4
    <3> QED BY <3>1, <3>2 DEF Follows
  <2> QED BY <2>3, <2>4
<1>4. \A id \in I : Agrees(pool'[registers' + id], next.values[id]) BY <1>2 DEF Follows, Reg
<1>5. prog' = prog OBVIOUS
<1> QED BY <1>2, <1>3, <1>4, <1>5 DEF Follows, Reg, next
----------------------------------------------------------------------------
\* An instruction of the first block brings the reference a step further.
LEMMA StepFollows ==
  ASSUME TypeOK, NEW s \in Starts, prog = s.prog, StraightLine(s), InFirstBlock,
         registers = 0, instr_index \in Pos,
         NEW st, st = Reference(s, prog[1], instr_index), Follows(st),
         NEW fn, fn = prog[1], NEW i, i = instr,
         Const \/ Binary \/ Not \/ Load \/ Store \/ CallPtr
  PROVE  Follows(RefStep(fn, st, i))'
<1> DEFINE addr == st.values[i.left].v % Full
<1>1. /\ instr_index \in DOMAIN Instrs /\ status = "running" /\ Touched \subseteq Cells
      /\ UNCHANGED <<prog, registers>>
  BY DEF Const, Binary, Not, Load, Store, CallPtr, Ready, Fetched, SameCall
<1>2. block[1] = 1 /\ block[2] = 1 BY DEF InFirstBlock
<1>3. /\ fn \in Function /\ i \in Instr /\ InstrOK(prog, fn, i) /\ 1 \in DOMAIN prog
      /\ 1 \in DOMAIN fn.blocks
  BY <1>1, <1>2, InstrFacts
<1>4. i = fn.blocks[1][instr_index] /\ instr_index \in DOMAIN fn.blocks[1]
  BY <1>1, <1>2 DEF instr, Instrs
<1>5. Ids(fn) \subseteq Cells BY <1>3, StraightFacts
<1>6. i.op \in {"LOAD", "STORE"} => st.values[i.left].known = Full
  BY <1>3, <1>4, StraightFacts
<1>7. /\ i.op \in GenOps => i.gen \in Ids(fn)
      /\ i.op \in LeftOps => i.left \in Ids(fn)
      /\ i.op \in RightOps => i.right \in Ids(fn)
  BY <1>3 DEF InstrOK
<1>8. \A id \in Ids(fn) : /\ Reg(id) \in Word /\ st.values[id] \in Meanings
                          /\ Agrees(Reg(id), st.values[id])
  <2>1. TAKE id \in Ids(fn)
  <2>2. id \in Cells /\ registers + id = id BY <1>5, SizeAssumption DEF Cells
  <2>3. Reg(id) \in Word BY <2>2, RegTyped
  <2> QED BY <2>3 DEF Follows, RefStates
<1>9. \A a \in Addr : /\ memory[a] \in Word /\ st.memory[a] \in Meanings
                      /\ Agrees(memory[a], st.memory[a])
  BY DEF Follows, RefStates, TypeOK
\* What remains of an instruction that writes w into its register, of meaning m.
<1>10. ASSUME NEW m, NEW w, RefStep(fn, st, i) = [st EXCEPT !.values[i.gen] = m],
              i.op \in GenOps, SetReg(w), UNCHANGED memory, m \in Meanings /\ Agrees(w, m)
       PROVE  Follows(RefStep(fn, st, i))'
  <2>1. i.gen \in Ids(prog[1]) BY <1>7, <1>10
  <2>2. pool' = [pool EXCEPT ![registers + i.gen] = w] BY <1>10 DEF SetReg
  <2> DEFINE g == i.gen
  <2>3. Follows([st EXCEPT !.values[g] = m])'
    <3>1. g \in Ids(prog[1]) /\ pool' = [pool EXCEPT ![registers + g] = w] BY <2>1, <2>2
    <3>2. m \in Meanings /\ Agrees(w, m) /\ UNCHANGED <<prog, registers, memory>> BY <1>1, <1>10
    <3> HIDE DEF g
    <3> QED BY <1>5, <3>1, <3>2, GenFollows
  <2> QED BY <1>10, <2>3
<1>11. CASE Const
  <2>1. i.op \in ConstOps /\ UNCHANGED memory /\ \E w \in ConstWords(i.op, i.imm) : SetReg(w)
    BY <1>11 DEF Const, Ready, Fetched
  <2>2. PICK w \in ConstWords(i.op, i.imm) : SetReg(w) BY <2>1
  <2> DEFINE m == Meaning(Narrow(ConstWidth[i.op], i.imm), Span[ConstWidth[i.op]])
  <2>3. i.imm \in Int BY <1>3 DEF Instr
  <2>4. m \in Meanings /\ Agrees(w, m) BY <2>1, <2>2, <2>3, ConstAgrees
  <2>5. RefStep(fn, st, i) = [st EXCEPT !.values[i.gen] = m]
    BY <2>1 DEF RefStep, ConstOps, BinaryOps, ArithOps, DivideOps, CompareOps
  <2>6. i.op \in GenOps BY <2>1 DEF GenOps, Opcodes, ConstOps
  <2> HIDE DEF m
  <2> QED BY <1>10, <2>1, <2>2, <2>4, <2>5, <2>6
<1>12. CASE Binary
  <2> DEFINE a == Reg(i.left)  b == Reg(i.right)  l == st.values[i.left]  r == st.values[i.right]
             m == BinaryMeaning(i.op, l, r)
  <2>1. /\ i.op \in BinaryOps /\ UNCHANGED memory
        /\ i.op \in DivideOps => ~DivTraps(a, b)
        /\ \E w \in BinaryWords(i.op, a, b) : SetReg(w)
    BY <1>12 DEF Binary, Ready, Fetched
  <2>2. PICK w \in BinaryWords(i.op, a, b) : SetReg(w) BY <2>1
  <2>3. i.op \in GenOps /\ i.op \in LeftOps /\ i.op \in RightOps
    BY <2>1 DEF GenOps, LeftOps, RightOps, Opcodes, BinaryOps, ArithOps, DivideOps, CompareOps
  <2>4. /\ a \in Word /\ b \in Word /\ l \in Meanings /\ r \in Meanings
        /\ Agrees(a, l) /\ Agrees(b, r)
    BY <1>7, <1>8, <2>3
  <2>5. RefStep(fn, st, i) = [st EXCEPT !.values[i.gen] = m]
    BY <2>1 DEF RefStep, ConstOps, BinaryOps, ArithOps, DivideOps, CompareOps
  <2> HIDE DEF a, b, l, r
  <2>6. m \in Meanings /\ Agrees(w, m) BY <2>1, <2>2, <2>4, BinaryAgrees
  <2> HIDE DEF m
  <2> QED BY <1>10, <2>1, <2>2, <2>3, <2>5, <2>6
<1>13. CASE Not
  <2> DEFINE a == Reg(i.left)  l == st.values[i.left]
             m == IF l.known < Full THEN Unknown ELSE Meaning(IF l.v % Full = 0 THEN 1 ELSE 0, Full)
  <2>1. i.op = "NOT" /\ UNCHANGED memory /\ SetReg(NotWord(a)) BY <1>13 DEF Not, Ready, Fetched
  <2>2. i.op \in GenOps /\ i.op \in LeftOps BY <2>1 DEF GenOps, LeftOps, Opcodes
  <2>3. a \in Word /\ l \in Meanings /\ Agrees(a, l) BY <1>7, <1>8, <2>2
  <2>4. RefStep(fn, st, i) = [st EXCEPT !.values[i.gen] = m]
    BY <2>1 DEF RefStep, ConstOps, BinaryOps, ArithOps, DivideOps, CompareOps
  <2> HIDE DEF a, l
  <2>5. m \in Meanings /\ Agrees(NotWord(a), m) BY <2>3, NotAgrees
  <2> HIDE DEF m
  <2> QED BY <1>10, <2>1, <2>2, <2>4, <2>5
\* The address of an access is the one that the reference has.
<1>14. ASSUME i.op \in {"LOAD", "STORE"}, Reg(i.left) \in Addr
       PROVE  addr \in Addr /\ Reg(i.left) = addr
  <2>1. i.left \in Ids(fn) BY <1>7, <1>14 DEF LeftOps
  <2>2. Reg(i.left) = addr BY <1>6, <1>8, <1>14, <2>1, KnownInFull
  <2> QED BY <1>14, <2>2
<1>15. CASE Load
  <2>1. /\ i.op = "LOAD" /\ UNCHANGED memory
        /\ i.type = "void" => UNCHANGED pool
        /\ i.type # "void" => /\ Reg(i.left) \in Addr
                              /\ SetReg(LoadWord(i.type, Reg(i.gen), memory[Reg(i.left)]))
    BY <1>15 DEF Load, Ready, Fetched, AccessType
  <2>2. CASE i.type = "void"
    <3>1. RefStep(fn, st, i) = st
      BY <2>1, <2>2 DEF RefStep, ConstOps, BinaryOps, ArithOps, DivideOps, CompareOps
    <3> QED BY <1>1, <2>1, <2>2, <3>1 DEF Follows, Reg
  <2>3. CASE i.type # "void"
    <3> DEFINE m == LoadMeaning(i.type, st.memory[addr])
               w == LoadWord(i.type, Reg(i.gen), memory[addr])
    <3>1. RefStep(fn, st, i) = [st EXCEPT !.values[i.gen] = m]
      BY <2>1, <2>3 DEF RefStep, ConstOps, BinaryOps, ArithOps, DivideOps, CompareOps
    <3>2. addr \in Addr /\ SetReg(w)
      <4>1. addr \in Addr /\ Reg(i.left) = addr BY <1>14, <2>1, <2>3
      <4> HIDE DEF addr
      <4> QED BY <2>1, <2>3, <4>1
    <3>3. i.op \in GenOps BY <2>1 DEF GenOps, Opcodes
    <3>4. i.type \in DataTypes \ {"void"} BY <1>3, <2>3 DEF Instr
    <3>5. Reg(i.gen) \in Word BY <1>7, <1>8, <3>3
    <3> HIDE DEF addr
    <3>6. m \in Meanings /\ Agrees(w, m) BY <1>9, <3>2, <3>4, <3>5, LoadAgrees
    <3> HIDE DEF m, w
    <3> QED BY <1>10, <2>1, <3>1, <3>2, <3>3, <3>6
  <2> QED BY <2>2, <2>3
<1>16. CASE Store
  <2> DEFINE t == TypeOf(fn, i.right)  b == Reg(i.right)  r == st.values[i.right]
  <2>1. /\ i.op = "STORE" /\ UNCHANGED pool
        /\ t = "void" => UNCHANGED memory
        /\ t # "void" => /\ Reg(i.left) \in Addr
                         /\ memory' = [memory EXCEPT ![Reg(i.left)] = StoreWord(t, @, b)]
    BY <1>2, <1>16 DEF Store, Ready, Fetched, AccessType
  <2>2. i.right \in Ids(fn) BY <1>7, <2>1 DEF RightOps
  <2>3. t \in DataTypes
    <3>1. fn.values \in Seq(DataTypes) BY <1>3 DEF Function
    <3>2. i.right + 1 \in 1 .. Len(fn.values) BY <2>2, <3>1 DEF Ids, ValuesSize
    <3> QED BY <3>1, <3>2 DEF TypeOf
  <2>4. CASE t = "void"
    <3>1. RefStep(fn, st, i) = st
      BY <2>1, <2>4 DEF RefStep, ConstOps, BinaryOps, ArithOps, DivideOps, CompareOps
    <3> QED BY <1>1, <2>1, <2>4, <3>1 DEF Follows, Reg
  <2>5. CASE t # "void"
    <3> DEFINE m == StoreMeaning(t, st.memory[addr], r)  w == StoreWord(t, memory[addr], b)
    <3>1. RefStep(fn, st, i) = [st EXCEPT !.memory[addr] = StoreMeaning(t, @, r)]
      BY <2>1, <2>5 DEF RefStep, ConstOps, BinaryOps, ArithOps, DivideOps, CompareOps
    <3>2. addr \in Addr /\ Reg(i.left) = addr BY <1>14, <2>1, <2>5
    <3>3. b \in Word /\ r \in Meanings /\ Agrees(b, r) BY <1>8, <2>2
    <3> HIDE DEF addr, b, r, t
    <3>4. RefStep(fn, st, i) = [st EXCEPT !.memory[addr] = m]
      <4>1. st.memory \in [Addr -> Meanings] /\ st \in RefStates(prog[1])
        BY DEF Follows, RefStates
      <4> HIDE DEF RefStep
      <4> QED BY <3>1, <3>2, <4>1 DEF RefStates
    <3>5. memory' = [memory EXCEPT ![addr] = w] BY <2>1, <2>5, <3>2
    <3>6. m \in Meanings /\ Agrees(w, m) BY <1>9, <2>3, <2>5, <3>2, <3>3, StoreAgrees
    <3> HIDE DEF m, w
    <3>7. Follows([st EXCEPT !.memory[addr] = m])'
      BY <1>1, <2>1, <3>2, <3>5, <3>6, StoreFollows
    <3> QED BY <3>4, <3>7
  <2> QED BY <2>4, <2>5
<1>17. CASE CallPtr
  <2>1. i.op = "CALL_PTR" /\ UNCHANGED <<pool, memory>> BY <1>17 DEF CallPtr, Ready, Fetched
  <2>2. RefStep(fn, st, i) = st
    BY <2>1 DEF RefStep, ConstOps, BinaryOps, ArithOps, DivideOps, CompareOps
  <2> QED BY <1>1, <2>1, <2>2 DEF Follows, Reg
<1> QED BY <1>11, <1>12, <1>13, <1>15, <1>16, <1>17
----------------------------------------------------------------------------
ReferenceInv == \E s \in Starts : StraightLine(s) /\ FollowsFrom(s)

\* The arguments and the memory are known in full, and nothing else is.
LEMMA ReferenceInvInit ==
  ASSUME \A s \in Starts : StraightLine(s), Init PROVE ReferenceInv
<1>1. PICK s \in Starts :
        /\ prog = s.prog /\ memory = s.memory
        /\ instr_index = 1 /\ registers = 0 /\ frames = <<>>
        /\ \/ \E f \in DOMAIN s.prog : Found(s.prog, s.name, f) /\ Enter(s, f)
           \/ NotFound(s.prog, s.name) /\ Missing(s)
  BY DEF Init
<1>2. StraightLine(s) /\ StartOK(s) /\ TypeOK BY StartsAssumption, InitTyped
<1>3. ASSUME InFirstBlock PROVE Follows(Reference(s, prog[1], 1))
  <2>1. 1 \in DOMAIN s.prog /\ Found(s.prog, s.name, 1) /\ Enter(s, 1)
    BY <1>1, <1>3 DEF InFirstBlock, Missing, Enter
  <2> DEFINE fn == prog[1]  I == Ids(fn)  st == RefInit(s, fn)
  <2>2. fn \in Function BY <1>1, <1>2, <2>1 DEF TypeOK, WellFormed
  <2>3. fn.args_count \in Nat /\ fn.args_count <= Len(s.values) /\ s.values \in Seq(Word)
    BY <1>1, <1>2, <2>1, <2>2 DEF StartOK, Found, Function
  <2>4. I \subseteq Cells BY <1>1, <1>2, <2>1, StraightFacts
  <2>5. s.memory \in [Addr -> Word] /\ pool \in [Cells -> Word] BY <1>2 DEF StartOK, TypeOK
  <2>6. \A a \in Word : Meaning(a, Full) \in Meanings /\ Agrees(a, Meaning(a, Full))
    <3>1. Full \in Knowns BY KnownFacts
    <3>2. Word \subseteq Int BY DEF Word
    <3> QED BY <3>1, <3>2, MeaningFacts
  <2>7. \A id \in I : id \in Int /\ id >= 0 /\ id \in Cells BY <2>4, SizeAssumption DEF Cells
  <2>8. \A id \in I : id < fn.args_count => s.values[id + 1] \in Word /\ pool[id] = s.values[id + 1]
    <3>1. TAKE id \in I
    <3>2. HAVE id < fn.args_count
    <3>3. s.values[id + 1] \in Word BY <2>3, <2>7, <3>2
    <3>4. pool[id] = s.values[id + 1] BY <1>1, <2>1, <2>7, <3>2 DEF Enter
    <3> QED BY <3>3, <3>4
  <2>9. \A id \in I : st.values[id] \in Meanings /\ Agrees(Reg(id), st.values[id])
    <3>1. TAKE id \in I
    <3>2. Reg(id) = pool[id] /\ pool[id] \in Word BY <1>1, <2>5, <2>7 DEF Reg
    <3>3. st.values[id] = IF id < fn.args_count THEN Meaning(s.values[id + 1], Full) ELSE Unknown
      BY DEF RefInit
    <3>4. CASE id < fn.args_count BY <2>6, <2>8, <3>2, <3>3, <3>4
    <3>5. CASE ~(id < fn.args_count)
      <4>1. pool[id] \in Int BY <3>2 DEF Word
      <4> QED BY <3>2, <3>3, <3>5, <4>1, AgreesUnknown
    <3> QED BY <3>4, <3>5
  <2>10. \A a \in Addr : st.memory[a] \in Meanings /\ Agrees(memory[a], st.memory[a])
    <3>1. TAKE a \in Addr
    <3>2. st.memory[a] = Meaning(s.memory[a], Full) BY DEF RefInit
    <3>3. s.memory[a] \in Word BY <2>5
    <3> QED BY <1>1, <2>6, <3>2, <3>3
  <2>11. /\ st.values = [id \in I |-> st.values[id]] /\ st.memory = [a \in Addr |-> st.memory[a]]
         /\ st = [values |-> st.values, memory |-> st.memory]
    BY DEF RefInit
  <2> HIDE DEF st
  <2>12. st \in RefStates(prog[1]) BY <2>9, <2>10, <2>11 DEF RefStates
  <2>13. Follows(st) BY <2>9, <2>10, <2>12 DEF Follows
  <2>14. Reference(s, prog[1], 1) = st BY ReferenceSteps DEF st
  <2> QED BY <2>13, <2>14
<1>4. FollowsFrom(s)
  <2>1. DOMAIN frames = {} BY <1>1
  <2>2. 1 \in Pos BY DEF Pos
  <2> QED BY <1>1, <1>3, <2>1, <2>2 DEF FollowsFrom
<1> QED BY <1>2, <1>4 DEF ReferenceInv

\* Outside the first block nothing is said, and no step enters it.
LEMMA ReferenceInvNext ==
  ASSUME TypeOK, [Next]_vars, NEW s \in Starts, StraightLine(s), FollowsFrom(s)
  PROVE  FollowsFrom(s)'
<1>0. prog = s.prog BY DEF FollowsFrom
<1>1. CASE Const \/ Binary \/ Not \/ Load \/ Store \/ CallPtr
  <2>1. UNCHANGED <<prog, block, registers, frames, status>> /\ instr_index' = instr_index + 1
    BY <1>1 DEF Const, Binary, Not, Load, Store, CallPtr, SameCall, NextInstr
  <2>2. ASSUME InFirstBlock
        PROVE  registers' = 0 /\ instr_index' \in Pos
               /\ Follows(Reference(s, prog[1], instr_index))'
    <3>1. registers = 0 /\ instr_index \in Pos /\ Follows(Reference(s, prog[1], instr_index))
      BY <2>2 DEF FollowsFrom
    <3> SUFFICES ASSUME NEW fn, fn = prog[1], NEW n, n = instr_index, NEW i, i = instr,
                        NEW st, st = Reference(s, prog[1], instr_index)
                 PROVE  registers' = 0 /\ instr_index' \in Pos
                        /\ Follows(Reference(s, prog[1], instr_index))'
      OBVIOUS
    <3>2. Follows(RefStep(fn, st, i))' BY <1>0, <1>1, <2>2, <3>1, StepFollows
    <3>3. i = fn.blocks[1][n]
      BY <2>2 DEF InFirstBlock, instr, Instrs
    <3>4. Reference(s, fn, n + 1) = RefStep(fn, st, i) BY <3>1, <3>3, ReferenceSteps
    <3>5. prog'[1] = fn /\ instr_index' = n + 1 /\ n \in Pos BY <2>1, <3>1
    <3>6. Reference(s, prog'[1], instr_index') = RefStep(fn, st, i) BY <3>4, <3>5
    <3>7. instr_index' \in Pos BY <3>5 DEF Pos
    <3>8. registers' = 0 BY <2>1, <3>1
    <3>9. Follows(Reference(s, prog[1], instr_index))' BY <3>2, <3>6 DEF Follows
    <3> QED BY <3>7, <3>8, <3>9
  <2>3. InFirstBlock' <=> InFirstBlock BY <2>1 DEF InFirstBlock
  <2> QED BY <1>0, <2>1, <2>2, <2>3 DEF FollowsFrom
<1>2. ASSUME ~InFirstBlock', UNCHANGED prog, \A k \in DOMAIN frames' : frames'[k].block # <<1, 1>>
      PROVE  FollowsFrom(s)'
  BY <1>0, <1>2 DEF FollowsFrom
<1>3. \A k \in DOMAIN frames : frames[k].block # <<1, 1>> BY DEF FollowsFrom
<1>4. CASE Br \/ CondBr
  <2>1. /\ status = "running" /\ instr_index \in DOMAIN Instrs /\ instr.op \in {"BR", "COND_BR"}
        /\ UNCHANGED <<prog, frames>> /\ block' \in {<<block[1], instr.yes>>, <<block[1], instr.no>>}
    BY <1>4 DEF Br, CondBr, Ready, Fetched, GoTo, SameCall
  <2>2. ASSUME block' = <<1, 1>> PROVE FALSE
    <3>1. block[1] = 1 /\ (instr.yes = 1 \/ instr.no = 1) BY <2>1, <2>2
    <3>2. 1 \in DOMAIN prog /\ block[2] \in DOMAIN prog[1].blocks
      BY <2>1, <3>1, InstrFacts
    <3>3. instr = prog[1].blocks[block[2]][instr_index]
          /\ instr_index \in DOMAIN prog[1].blocks[block[2]]
      BY <2>1, <3>1 DEF instr, Instrs
    <3>4. instr.yes # 1 /\ instr.no # 1 BY <1>0, <2>1, <3>2, <3>3, StraightFacts
    <3> QED BY <3>1, <3>4
  <2> QED BY <1>2, <1>3, <2>1, <2>2 DEF InFirstBlock
<1>5. CASE CallFunc
  <2>1. /\ status = "running" /\ instr_index \in DOMAIN Instrs /\ instr.op = "CALL_FUNC"
        /\ UNCHANGED prog
    BY <1>5 DEF CallFunc, Ready, Fetched
  <2>2. ASSUME block = <<1, 1>> PROVE FALSE
    <3>1. block[1] = 1 /\ block[2] = 1 BY <2>2
    <3>2. 1 \in DOMAIN prog BY <2>1, <3>1, InstrFacts
    <3>3. instr = prog[1].blocks[1][instr_index] /\ instr_index \in DOMAIN prog[1].blocks[1]
      BY <2>1, <3>1 DEF instr, Instrs
    <3> QED BY <1>0, <2>1, <3>2, <3>3, StraightFacts
  <2> DEFINE fr == [block |-> block, instr_index |-> instr_index,
                    gen_value_id |-> instr.gen, registers |-> registers]
  <2>3. frames' = Append(frames, fr) /\ frames \in Seq(CallFrame) BY <1>5 DEF CallFunc, TypeOK
  <2>4. fr.block # <<1, 1>> BY <2>2
  <2> HIDE DEF fr
  <2>5. \A k \in DOMAIN frames' : frames'[k] = fr \/ (k \in DOMAIN frames /\ frames'[k] = frames[k])
    BY <2>3
  <2>6. \A k \in DOMAIN frames' : frames'[k].block # <<1, 1>> BY <1>3, <2>4, <2>5
  <2>7. frames' # <<>> BY <2>3
  <2> QED BY <1>2, <2>1, <2>6, <2>7 DEF InFirstBlock
<1>6. CASE Ret \/ RetVoid
  <2>1. /\ frames # <<>> /\ frames' = Front(frames) /\ block' = Last(frames).block /\ UNCHANGED prog
    BY <1>6 DEF Ret, RetVoid, ReturnWith
  <2>2. /\ Len(frames) \in DOMAIN frames /\ Last(frames) = frames[Len(frames)]
        /\ \A k \in DOMAIN frames' : k \in DOMAIN frames /\ frames'[k] = frames[k]
    BY <2>1, PopFacts
  <2>3. block' # <<1, 1>> BY <1>3, <2>1, <2>2
  <2> QED BY <1>2, <1>3, <2>1, <2>2, <2>3 DEF InFirstBlock
<1>7. CASE Trap \/ RetFromEntry \/ FrameOverflow \/ PoolOverflow \/ BadAccess
  <2>1. status' # "running" /\ UNCHANGED <<prog, frames>>
    BY <1>7 DEF Trap, RetFromEntry, FrameOverflow, PoolOverflow, BadAccess, Stop
  <2> QED BY <1>2, <1>3, <2>1 DEF InFirstBlock
<1>8. CASE UNCHANGED vars
  BY <1>8 DEF vars, FollowsFrom, InFirstBlock, Follows, Reg
<1>9. CASE Stopped BY <1>8, <1>9 DEF Stopped
<1> QED BY <1>1, <1>4, <1>5, <1>6, <1>7, <1>8, <1>9 DEF Next, Execute

(***************************************************************************)
(* The instructions compute what they mean.  In every straight-line block  *)
(* that a call of cow_interpret starts with, at every instruction, each    *)
(* register and each word of memory agrees with the reference evaluation   *)
(* on its known low bits: for all constants, operators and types of loads  *)
(* and stores, all widths and whatever the uninitialised stack holds.      *)
(***************************************************************************)
THEOREM KnownPartsAreExact ==
  ASSUME \A s \in Starts : StraightLine(s)
  PROVE  Spec => []KnownPartsExact
<1> DEFINE IInv == TypeOK /\ ReferenceInv
<1>1. Init => IInv
  BY InitTyped, ReferenceInvInit
<1>2. IInv /\ [Next]_vars => IInv'
  <2> SUFFICES ASSUME IInv, [Next]_vars PROVE IInv'
    OBVIOUS
  <2>1. TypeOK' BY NextTyped
  <2>2. PICK s \in Starts : StraightLine(s) /\ FollowsFrom(s) BY DEF ReferenceInv
  <2>3. FollowsFrom(s)' BY <2>2, ReferenceInvNext
  <2> QED BY <2>1, <2>2, <2>3 DEF ReferenceInv
<1>3. IInv => KnownPartsExact
  <2> SUFFICES ASSUME IInv, InFirstBlock
               PROVE  \E s \in Starts :
                        /\ s.prog = prog
                        /\ \A id \in Ids(prog[1]) :
                             Agrees(Reg(id), Reference(s, prog[1], instr_index).values[id])
                        /\ \A a \in Addr :
                             Agrees(memory[a], Reference(s, prog[1], instr_index).memory[a])
    BY DEF KnownPartsExact, InFirstBlock
  <2>1. PICK s \in Starts : FollowsFrom(s) BY DEF ReferenceInv
  <2>2. s.prog = prog /\ Follows(Reference(s, prog[1], instr_index)) BY <2>1 DEF FollowsFrom
  <2> QED BY <2>2 DEF Follows
<1> QED BY <1>1, <1>2, <1>3, PTL DEF Spec

-----------------------------------------------------------------------------

(***************************************************************************)
(* The recursive definition of Fib has a solution: there is one on every   *)
(* 0 .. m, two of them agree where both are defined, and their last values *)
(* make up Fib.  Each by minimal counterexample.                           *)
(***************************************************************************)
Body(g, k) == IF k <= 1 THEN k ELSE g[k - 1] + g[k - 2]
Solves(g, m) == g \in [0 .. m -> Nat] /\ \A k \in 0 .. m : g[k] = Body(g, k)

LEMMA SolutionExists ==
  ASSUME NEW n \in Nat
  PROVE  \E g : Solves(g, n)
<1> DEFINE Bad == {m \in Nat : ~ \E g : Solves(g, m)}
<1>1. SUFFICES ASSUME Bad # {} PROVE FALSE
  OBVIOUS
<1>2. PICK m \in Bad : \A y \in Bad : m <= y
  <2>1. Bad \subseteq Nat OBVIOUS
  <2> HIDE DEF Bad
  <2> QED BY <1>1, <2>1, LeastNat
<1>3. m \in Nat /\ ~ \E g : Solves(g, m) OBVIOUS
<1>4. CASE m = 0
  <2> DEFINE g == [k \in 0 .. 0 |-> k]
  <2>1. g \in [0 .. 0 -> Nat] /\ \A k \in 0 .. 0 : g[k] = Body(g, k) BY DEF Body
  <2> HIDE DEF g
  <2>2. Solves(g, 0) BY <2>1 DEF Solves
  <2> QED BY <1>3, <1>4, <2>2
<1>5. CASE m # 0
  <2>1. m - 1 \in Nat /\ ~(m <= m - 1) BY <1>3, <1>5
  <2>2. \E g : Solves(g, m - 1)
    <3>1. m - 1 \notin Bad
      <4> HIDE DEF Bad
      <4> QED BY <1>2, <2>1
    <3> QED BY <2>1, <3>1
  <2>3. PICK g : Solves(g, m - 1) BY <2>2
  <2>4. g \in [0 .. m - 1 -> Nat] /\ \A k \in 0 .. m - 1 : g[k] = Body(g, k) BY <2>3 DEF Solves
  <2> DEFINE last == Body(g, m)
             h == [k \in 0 .. m |-> IF k = m THEN last ELSE g[k]]
  <2>5. last \in Nat
    <3>1. m > 1 => m - 1 \in 0 .. m - 1 /\ m - 2 \in 0 .. m - 1 BY <1>3
    <3> QED BY <1>3, <2>4, <3>1 DEF Body
  <2>6. h \in [0 .. m -> Nat] /\ h[m] = last /\ \A k \in 0 .. m - 1 : h[k] = g[k]
    <3> HIDE DEF last
    <3>1. \A k \in 0 .. m : k # m => k \in 0 .. m - 1 BY <1>3
    <3>2. m \in 0 .. m /\ \A k \in 0 .. m - 1 : k \in 0 .. m /\ k # m BY <1>3
    <3> QED BY <2>4, <2>5, <3>1, <3>2
  <2>7. \A k \in 0 .. m : Body(h, k) = Body(g, k)
    <3> HIDE DEF h
    <3>1. TAKE k \in 0 .. m
    <3>2. k > 1 => k - 1 \in 0 .. m - 1 /\ k - 2 \in 0 .. m - 1 BY <1>3
    <3> QED BY <1>3, <2>6, <3>2 DEF Body
  <2>8. \A k \in 0 .. m : h[k] = Body(g, k)
    <3> HIDE DEF h
    <3>1. TAKE k \in 0 .. m
    <3>2. k = m \/ k \in 0 .. m - 1 BY <1>3
    <3> QED BY <2>4, <2>6, <3>2
  <2>9. Solves(h, m)
    <3> HIDE DEF h
    <3> QED BY <2>6, <2>7, <2>8 DEF Solves
  <2> QED BY <1>3, <2>9
<1> QED BY <1>4, <1>5

LEMMA SolutionsAgree ==
  ASSUME NEW m \in Nat, NEW p \in Nat, NEW g, NEW h, Solves(g, m), Solves(h, p),
         NEW k \in Nat, k <= m, k <= p
  PROVE  g[k] = h[k]
<1> DEFINE Bad == {i \in Nat : i <= m /\ i <= p /\ g[i] # h[i]}
<1>1. SUFFICES ASSUME Bad # {} PROVE FALSE
  OBVIOUS
<1>2. PICK i \in Bad : \A y \in Bad : i <= y
  <2>1. Bad \subseteq Nat OBVIOUS
  <2> HIDE DEF Bad
  <2> QED BY <1>1, <2>1, LeastNat
<1>3. i \in Nat /\ i <= m /\ i <= p /\ g[i] # h[i] OBVIOUS
<1>4. \A j \in Nat : j < i => g[j] = h[j]
  <2>1. TAKE j \in Nat
  <2>2. HAVE j < i
  <2>3. ~(i <= j) /\ j <= m /\ j <= p BY <1>3, <2>2
  <2>4. j \notin Bad
    <3> HIDE DEF Bad
    <3> QED BY <1>2, <2>3
  <2> QED BY <2>3, <2>4
<1> HIDE DEF Bad
<1>5. g[i] = Body(g, i) /\ h[i] = Body(h, i) BY <1>3 DEF Solves
<1>6. i > 1 => i - 1 \in Nat /\ i - 2 \in Nat /\ i - 1 < i /\ i - 2 < i BY <1>3
<1>7. Body(g, i) = Body(h, i) BY <1>3, <1>4, <1>6 DEF Body
<1> QED BY <1>3, <1>5, <1>7

LEMMA FibIs == Fib = [n \in Nat |-> Body(Fib, n)]
<1> DEFINE Sol(n) == CHOOSE g : Solves(g, n)
           F == [n \in Nat |-> Sol(n)[n]]
<1>1. \A n \in Nat : Solves(Sol(n), n) BY SolutionExists
<1> HIDE DEF Sol
<1>2. \A n \in Nat : F[n] = Body(F, n)
  <2>1. TAKE n \in Nat
  <2>2. Sol(n)[n] = Body(Sol(n), n)
    <3>1. n \in 0 .. n OBVIOUS
    <3> QED BY <1>1, <3>1 DEF Solves
  <2>3. ASSUME n > 1 PROVE Sol(n)[n - 1] = F[n - 1] /\ Sol(n)[n - 2] = F[n - 2]
    <3>1. n - 1 \in Nat /\ n - 2 \in Nat /\ n - 1 <= n /\ n - 2 <= n
          /\ n - 1 <= n - 1 /\ n - 2 <= n - 2
      BY <2>3
    <3>2. F[n - 1] = Sol(n - 1)[n - 1] /\ F[n - 2] = Sol(n - 2)[n - 2] BY <3>1
    <3> DEFINE a == n - 1  b == n - 2
    <3>3. /\ a \in Nat /\ a <= n /\ a <= a /\ b \in Nat /\ b <= n /\ b <= b
          /\ F[a] = Sol(a)[a] /\ F[b] = Sol(b)[b]
          /\ Solves(Sol(n), n) /\ Solves(Sol(a), a) /\ Solves(Sol(b), b)
      BY <1>1, <3>1, <3>2
    <3> HIDE DEF a, b, F
    <3>4. Sol(n)[a] = Sol(a)[a] BY <3>3, SolutionsAgree
    <3>5. Sol(n)[b] = Sol(b)[b] BY <3>3, SolutionsAgree
    <3>6. Sol(n)[a] = F[a] /\ Sol(n)[b] = F[b] BY <3>3, <3>4, <3>5
    <3> QED BY <3>6 DEF a, b
  <2>4. F[n] = Sol(n)[n] OBVIOUS
  <2> HIDE DEF F
  <2> QED BY <2>2, <2>3, <2>4 DEF Body
<1>3. F = [n \in Nat |-> Body(F, n)]
  <2>1. F = [n \in Nat |-> F[n]] OBVIOUS
  <2> HIDE DEF F
  <2> QED BY <1>2, <2>1
<1> HIDE DEF F
<1>4. \E f : f = [n \in Nat |-> Body(f, n)] BY <1>3
<1>5. Fib = CHOOSE f : f = [n \in Nat |-> Body(f, n)] BY DEF Fib, Body
<1> QED BY <1>4, <1>5

LEMMA FibFacts ==
  ASSUME NEW n \in Nat
  PROVE  /\ Fib[n] \in Nat
         /\ n <= 1 => Fib[n] = n
         /\ n >= 2 => /\ n - 1 \in Nat /\ n - 2 \in Nat
                      /\ Fib[n - 1] \in Nat /\ Fib[n - 2] \in Nat
                      /\ Fib[n] = Fib[n - 1] + Fib[n - 2]
<1>1. \A m \in Nat : Fib[m] = Body(Fib, m) BY FibIs
<1>2. \A m \in Nat : Fib[m] \in Nat
  <2> DEFINE Bad == {m \in Nat : Fib[m] \notin Nat}
  <2>1. SUFFICES ASSUME Bad # {} PROVE FALSE
    OBVIOUS
  <2>2. PICK m \in Bad : \A y \in Bad : m <= y
    <3>1. Bad \subseteq Nat OBVIOUS
    <3> HIDE DEF Bad
    <3> QED BY <2>1, <3>1, LeastNat
  <2>3. m \in Nat /\ Fib[m] \notin Nat OBVIOUS
  <2>4. \A j \in Nat : j < m => Fib[j] \in Nat
    <3>1. TAKE j \in Nat
    <3>2. HAVE j < m
    <3>3. j \notin Bad
      <4> HIDE DEF Bad
      <4> QED BY <2>2, <2>3, <3>2
    <3> QED BY <3>3
  <2>5. m > 1 => m - 1 \in Nat /\ m - 2 \in Nat /\ m - 1 < m /\ m - 2 < m BY <2>3
  <2>6. Body(Fib, m) \in Nat BY <2>3, <2>4, <2>5 DEF Body
  <2> QED BY <1>1, <2>3, <2>6
<1>3. n >= 2 => n - 1 \in Nat /\ n - 2 \in Nat OBVIOUS
<1>4. Fib[n] = Body(Fib, n) BY <1>1
<1>5. n <= 1 => Fib[n] = n BY <1>4 DEF Body
<1>6. n >= 2 => Fib[n] = Fib[n - 1] + Fib[n - 2] BY <1>4 DEF Body
<1> QED BY <1>2, <1>3, <1>5, <1>6
LEMMA FitsFacts ==
  ASSUME NEW n \in Nat, Fits(n)
  PROVE  /\ Span["i64"] \in Nat /\ Span["i64"] > 2 /\ 2 * n < Span["i64"] /\ n < Span["i64"]
         /\ Fib[n] \in Nat /\ Fib[n] < Span["i64"]
         /\ n >= 2 => Fits(n - 1) /\ Fits(n - 2) /\ Span["i64"] > 6
<1> DEFINE N == Span["i64"]
<1>1. N \in Nat BY SpanFacts DEF Widths
<1>2. 2 * (n + 1) < N /\ Fib[n] < N /\ Fib[n] \in Nat BY FibFacts DEF Fits
<1>3. ASSUME n >= 2 PROVE Fits(n - 1) /\ Fits(n - 2)
  <2>1. /\ Fib[n - 1] \in Nat /\ Fib[n - 2] \in Nat /\ Fib[n] = Fib[n - 1] + Fib[n - 2]
    BY <1>3, FibFacts
  <2> DEFINE a == n - 1  b == n - 2  fa == Fib[a]  fb == Fib[b]  fn == Fib[n]
  <2>2. a = n - 1 /\ b = n - 2 /\ fa \in Nat /\ fb \in Nat /\ fn = fa + fb /\ fn < N
    BY <1>2, <2>1
  <2> HIDE DEF fa, fb, fn, N
  <2>3. fa < N /\ fb < N BY <1>1, <2>2
  <2>4. 2 * (a + 1) < N /\ 2 * (b + 1) < N
    <3> HIDE DEF a, b
    <3> QED BY <1>1, <1>2, <2>2
  <2> QED BY <2>3, <2>4 DEF Fits, fa, fb, N
<1> HIDE DEF N
<1>4. N > 2 /\ 2 * n < N /\ n < N /\ (n >= 2 => N > 6) BY <1>1, <1>2
<1> QED BY <1>1, <1>2, <1>3, <1>4 DEF N
----------------------------------------------------------------------------
(***************************************************************************)
(* The words that the instructions of fib compute.                         *)
(***************************************************************************)
LEMMA ConstIs ==
  ASSUME NEW v \in Nat, v < Span["i64"], NEW w \in ConstWords("CONST_I64", v)
  PROVE  w = v
<1> DEFINE N == Span["i64"]
<1>1. N \in Nat /\ N > 0 BY SpanFacts DEF Widths
<1>2. PICK j \in Junk : w = N * (j \div N) + (v % N) BY DEF ConstWords, ConstWidth, Partial, Merge
<1>3. j \in 0 .. N - 1 BY JunkAssumption DEF Word
<1> HIDE DEF N
<1>4. v < N BY DEF N
<1> DEFINE q == j \div N  r == v % N
<1>5. q = 0 /\ r = v /\ w = N * q + r BY <1>1, <1>2, <1>3, <1>4
<1> HIDE DEF q, r
<1>6. N * 0 + v = v BY <1>1
<1> QED BY <1>5, <1>6

LEMMA SumIs ==
  ASSUME NEW a \in Nat, NEW b \in Nat
  PROVE  /\ a + b < Span["i64"] => ArithWord("ADD", a, b) = a + b
         /\ a >= b /\ a < Span["i64"] => ArithWord("SUB", a, b) = a - b
<1> DEFINE N == Span["i64"]
<1>1. N \in Nat /\ N > 0 BY SpanFacts DEF Widths
<1>2. ArithWord("ADD", a, b) = (a + b) % N /\ ArithWord("SUB", a, b) = (a - b) % N BY DEF ArithWord
<1> HIDE DEF N
<1>3. \A x \in Nat : x < N => x % N = x BY <1>1
<1>4. a + b \in Nat /\ (a >= b => a - b \in Nat /\ a - b <= a) BY SMT
<1>5. a + b < N => (a + b) % N = a + b BY <1>3, <1>4
<1>6. a >= b /\ a < N => (a - b) % N = a - b BY <1>1, <1>3, <1>4
<1> QED BY <1>2, <1>5, <1>6 DEF N

LEMMA RemainderOf ==
  ASSUME NEW S \in Nat, S > 0, NEW q \in Int, NEW v \in Nat, v < S, NEW w, w = S * q + v
  PROVE  w % S = v
<1> DEFINE p == w \div S  r == w % S
<1>0. S * q \in Int /\ w \in Int BY SMT
<1>1. w = S * p + r /\ r \in 0 .. S - 1 /\ p \in Int BY <1>0, DivMod
<1> HIDE DEF p, r
<1>2. S * q + v = S * p + r BY <1>1
<1>3. q = p
  <2>1. CASE q < p
    <3>1. S * (q + 1) <= S * p BY <1>1, <2>1, SMT
    <3>2. S * (q + 1) = S * q + S BY SMT
    <3> QED BY <1>0, <1>1, <1>2, <3>1, <3>2, SMT
  <2>2. CASE q > p
    <3>1. S * (p + 1) <= S * q BY <1>1, <2>2, SMT
    <3>2. S * (p + 1) = S * p + S BY <1>1, SMT
    <3> QED BY <1>0, <1>1, <1>2, <3>1, <3>2, SMT
  <2> QED BY <1>1, <2>1, <2>2
<1>4. r = v BY <1>0, <1>1, <1>2, <1>3
<1> QED BY <1>4 DEF r

\* n <= 1, in the low byte of a word.
LEMMA TestIs ==
  ASSUME NEW n \in Nat, Fits(n), NEW w \in BinaryWords("SMALLER_EQ", n, 1)
  PROVE  w % Span["i8"] = IF n <= 1 THEN 1 ELSE 0
<1> DEFINE S == Span["i8"]  v == IF n <= 1 THEN 1 ELSE 0
<1>1. S \in Nat /\ S > 1 BY SpanAssumption, SpanFacts DEF Widths
<1>2. Span["i64"] \in Nat /\ Span["i64"] > 2 /\ 2 * n < Span["i64"] BY FitsFacts
<1>3. Signed(n) = n /\ Signed(1) = 1 BY <1>2 DEF Signed
<1>4. Holds("SMALLER_EQ", n, 1) <=> n <= 1 BY <1>3 DEF Holds
<1>5. BinaryWords("SMALLER_EQ", n, 1) = Partial("i8", v)
  BY <1>4 DEF BinaryWords, ArithOps, DivideOps, CompareOps
<1>6. PICK j \in Junk : w = S * (j \div S) + (v % S) BY <1>5 DEF Partial, Merge
<1>7. j \in Nat BY JunkAssumption, SpanFacts DEF Word, Widths
<1> HIDE DEF S
<1>8. v \in Nat /\ v < S BY <1>1
<1> HIDE DEF v
<1> DEFINE q == j \div S
<1>9. q \in Int BY <1>1, <1>7
<1> HIDE DEF q
<1>10. v % S = v BY <1>1, <1>8
<1>11. w = S * q + v BY <1>6, <1>10 DEF q
<1>12. w % S = v BY <1>1, <1>8, <1>9, <1>11, RemainderOf
<1> QED BY <1>12 DEF S, v
----------------------------------------------------------------------------
\* The instructions of fib.
LEMMA FibCode ==
  LET c == FibFn.blocks IN
  /\ FibFn.args_count = 1 /\ ValuesSize(FibFn) = 9
  /\ c[1][1].op = "CONST_I64" /\ c[1][1].gen = 1 /\ c[1][1].imm = 1
  /\ c[1][2].op = "SMALLER_EQ" /\ c[1][2].gen = 2 /\ c[1][2].left = 0 /\ c[1][2].right = 1
  /\ c[1][3].op = "COND_BR" /\ c[1][3].left = 2 /\ c[1][3].yes = 2 /\ c[1][3].no = 3
  /\ c[2][1].op = "RET" /\ c[2][1].left = 0
  /\ c[3][1].op = "SUB" /\ c[3][1].gen = 3 /\ c[3][1].left = 0 /\ c[3][1].right = 1
  /\ c[3][2].op = "CALL_FUNC" /\ c[3][2].gen = 4 /\ c[3][2].callee = 1 /\ c[3][2].args = <<3>>
  /\ c[3][3].op = "CONST_I64" /\ c[3][3].gen = 5 /\ c[3][3].imm = 2
  /\ c[3][4].op = "SUB" /\ c[3][4].gen = 6 /\ c[3][4].left = 0 /\ c[3][4].right = 5
  /\ c[3][5].op = "CALL_FUNC" /\ c[3][5].gen = 7 /\ c[3][5].callee = 1 /\ c[3][5].args = <<6>>
  /\ c[3][6].op = "ADD" /\ c[3][6].gen = 8 /\ c[3][6].left = 4 /\ c[3][6].right = 7
  /\ c[3][7].op = "RET" /\ c[3][7].left = 8
<1>1. FibFn.args_count = 1 /\ ValuesSize(FibFn) = 9 BY DEF FibFn, ValuesSize
<1> USE DEF FibFn, ConstInstr, OpInstr, CondBrInstr, RetInstr, CallFuncInstr, BareInstr
<1> DEFINE c == FibFn.blocks
<1>2. c[1][1].op = "CONST_I64" /\ c[1][1].gen = 1 /\ c[1][1].imm = 1 OBVIOUS
<1>3. c[1][2].op = "SMALLER_EQ" /\ c[1][2].gen = 2 /\ c[1][2].left = 0 /\ c[1][2].right = 1 OBVIOUS
<1>4. c[1][3].op = "COND_BR" /\ c[1][3].left = 2 /\ c[1][3].yes = 2 /\ c[1][3].no = 3 OBVIOUS
<1>5. c[2][1].op = "RET" /\ c[2][1].left = 0 OBVIOUS
<1>6. c[3][1].op = "SUB" /\ c[3][1].gen = 3 /\ c[3][1].left = 0 /\ c[3][1].right = 1 OBVIOUS
<1>7. c[3][2].op = "CALL_FUNC" /\ c[3][2].gen = 4 /\ c[3][2].callee = 1 /\ c[3][2].args = <<3>> OBVIOUS
<1>8. c[3][3].op = "CONST_I64" /\ c[3][3].gen = 5 /\ c[3][3].imm = 2 OBVIOUS
<1>9. c[3][4].op = "SUB" /\ c[3][4].gen = 6 /\ c[3][4].left = 0 /\ c[3][4].right = 5 OBVIOUS
<1>10. c[3][5].op = "CALL_FUNC" /\ c[3][5].gen = 7 /\ c[3][5].callee = 1 /\ c[3][5].args = <<6>> OBVIOUS
<1>11. c[3][6].op = "ADD" /\ c[3][6].gen = 8 /\ c[3][6].left = 4 /\ c[3][6].right = 7 OBVIOUS
<1>12. c[3][7].op = "RET" /\ c[3][7].left = 8 OBVIOUS
<1> HIDE DEF c, FibFn, ConstInstr, OpInstr, CondBrInstr, RetInstr, CallFuncInstr, BareInstr
<1>13. c = FibFn.blocks BY DEF c
<1> QED BY <1>1, <1>2, <1>3, <1>4, <1>5, <1>6, <1>7, <1>8, <1>9, <1>10, <1>11, <1>12, <1>13----------------------------------------------------------------------------
(***************************************************************************)
(* The inductive invariant.  An activation of fib has its argument n in    *)
(* the first register of its window; what else it has when it is about to  *)
(* execute instruction i of block b, and what it has while it is suspended *)
(* at one of its calls, whose argument begins the next window.             *)
(***************************************************************************)
Has(p, c, v) == c \in Cells /\ p[c] = v

Progress(p, b, i, r) ==
  LET n == p[r] IN
  \/ b = 1 /\ i = 1
  \/ b = 1 /\ i = 2 /\ Has(p, r + 1, 1)
  \/ /\ b = 1 /\ i = 3 /\ Has(p, r + 1, 1)
     /\ r + 2 \in Cells /\ p[r + 2] % Span["i8"] = IF n <= 1 THEN 1 ELSE 0
  \/ b = 2 /\ i = 1 /\ n <= 1
  \/ b = 3 /\ i = 1 /\ n >= 2 /\ Has(p, r + 1, 1)
  \/ b = 3 /\ i = 2 /\ n >= 2 /\ Has(p, r + 3, n - 1)
  \/ b = 3 /\ i = 3 /\ n >= 2 /\ Has(p, r + 4, Fib[n - 1])
  \/ b = 3 /\ i = 4 /\ n >= 2 /\ Has(p, r + 4, Fib[n - 1]) /\ Has(p, r + 5, 2)
  \/ b = 3 /\ i = 5 /\ n >= 2 /\ Has(p, r + 4, Fib[n - 1]) /\ Has(p, r + 6, n - 2)
  \/ b = 3 /\ i = 6 /\ n >= 2 /\ Has(p, r + 4, Fib[n - 1]) /\ Has(p, r + 7, Fib[n - 2])
  \/ b = 3 /\ i = 7 /\ n >= 2 /\ Has(p, r + 8, Fib[n])

FrameOK(p, fr, r) ==
  LET n == p[r] IN
  /\ fr.registers = r /\ fr.block = <<1, 3>> /\ r \in Cells /\ n >= 2 /\ Fits(n)
  /\ \/ fr.instr_index = 2 /\ fr.gen_value_id = 4 /\ Has(p, r + 9, n - 1)
     \/ fr.instr_index = 5 /\ fr.gen_value_id = 7 /\ Has(p, r + 9, n - 2) /\ Has(p, r + 4, Fib[n - 1])

FramesOK(p, fs) == \A k \in DOMAIN fs : FrameOK(p, fs[k], 9 * (k - 1))

Running(p, b, i, r, fs) ==
  /\ b[1] = 1 /\ r = 9 * Len(fs) /\ r \in Cells /\ Fits(p[r])
  /\ Progress(p, b[2], i, r) /\ FramesOK(p, fs)

FibInv ==
  /\ prog = <<FibFn>>
  /\ status = "running" => Running(pool, block, instr_index, registers, frames)
  /\ FibCorrect

\* Writing beyond a cell keeps what the frames below it say.
LEMMA FramesKept ==
  ASSUME NEW fs \in Seq(CallFrame), NEW p, NEW p2, NEW n, n = Len(fs),
         \A c \in Cells : c <= 9 * n => p2[c] = p[c], FramesOK(p, fs)
  PROVE  FramesOK(p2, fs)
<1>1. n \in Nat /\ DOMAIN fs = 1 .. n OBVIOUS
<1>2. SUFFICES ASSUME NEW k \in DOMAIN fs PROVE FrameOK(p2, fs[k], 9 * (k - 1))
  BY DEF FramesOK
<1> DEFINE r == 9 * (k - 1)
<1>3. k \in 1 .. n BY <1>1
<1>4. r \in Nat /\ r <= 9 * n /\ r + 9 <= 9 * n /\ r + 4 <= 9 * n BY <1>1, <1>3
<1>5. FrameOK(p, fs[k], r) BY DEF FramesOK
<1> HIDE DEF r
<1>6. r \in Cells => p2[r] = p[r] BY <1>4
<1>7. r + 9 \in Cells => p2[r + 9] = p[r + 9] BY <1>4
<1>8. r + 4 \in Cells => p2[r + 4] = p[r + 4] BY <1>4
<1>9. FrameOK(p2, fs[k], r) BY <1>5, <1>6, <1>7, <1>8 DEF FrameOK, Has
<1> QED BY <1>9 DEF r

\* A register of the running activation is written, and the next instruction is
\* ready for it.
LEMMA RegisterStep ==
  ASSUME TypeOK, FibInv, status = "running", SameCall, NextInstr, UNCHANGED block,
         NEW g \in 1 .. 8, NEW w, registers + g \in Cells, pool' = [pool EXCEPT ![registers + g] = w],
         Progress(pool', block[2], instr_index + 1, registers)
  PROVE  FibInv'
<1>1. /\ prog' = prog /\ registers' = registers /\ frames' = frames /\ status' = status
      /\ block' = block /\ instr_index' = instr_index + 1
  BY DEF SameCall, NextInstr
<1>2. /\ prog = <<FibFn>> /\ block[1] = 1 /\ registers = 9 * Len(frames) /\ registers \in Cells
      /\ Fits(pool[registers]) /\ FramesOK(pool, frames)
  BY DEF FibInv, Running
<1>3. /\ frames \in Seq(CallFrame) /\ pool \in [Cells -> Word] /\ registers \in Nat /\ Len(frames) \in Nat
  BY DEF TypeOK
<1>4. \A c \in Cells : c <= registers => pool'[c] = pool[c]
  <2>1. \A c \in Cells : c <= registers => c # registers + g BY <1>3 DEF Cells
  <2> QED BY <1>3, <2>1
<1>5. FramesOK(pool', frames)
  <2> SUFFICES ASSUME NEW p2, p2 = pool' PROVE FramesOK(p2, frames)
    OBVIOUS
  <2>1. \A c \in Cells : c <= 9 * Len(frames) => p2[c] = pool[c] BY <1>2, <1>4
  <2> QED BY <1>2, <1>3, <2>1, FramesKept
<1>6. pool'[registers] = pool[registers]
  <2>1. registers <= registers BY <1>3
  <2> QED BY <1>2, <1>4, <2>1
<1>7. Running(pool', block', instr_index', registers', frames')
  BY <1>1, <1>2, <1>5, <1>6 DEF Running
<1>8. status' # "returned" BY <1>1
<1> QED BY <1>1, <1>2, <1>7, <1>8 DEF FibInv, FibCorrect
LEMMA FibInstr ==
  ASSUME FibInv, status = "running"
  PROVE  /\ prog[block[1]] = FibFn /\ block[1] = 1
         /\ instr = FibFn.blocks[block[2]][instr_index]
<1>1. prog = <<FibFn>> /\ block[1] = 1 BY DEF FibInv, Running
<1> DEFINE f == FibFn
<1> HIDE DEF f
<1>2. <<f>>[1] = f OBVIOUS
<1>3. prog[block[1]] = FibFn BY <1>1, <1>2 DEF f
<1> QED BY <1>1, <1>3 DEF instr, Instrs

\* What a step may be, by the instruction it executes; a call of the function
\* that is not followed because an array would be left ends the interpretation.
LEMMA StepOf ==
  ASSUME status = "running", Next
  PROVE  \/ prog' = prog /\ status' \notin {"running", "returned"}
         \/ instr.op \in ConstOps /\ Const
         \/ instr.op \in BinaryOps /\ Binary
         \/ instr.op \in {"NOT", "LOAD", "STORE", "BR", "CALL_PTR", "RET_VOID"}
         \/ instr.op = "COND_BR" /\ CondBr
         \/ instr.op = "CALL_FUNC" /\ CallFunc
         \/ instr.op = "RET" /\ (Ret \/ RetFromEntry)
<1>1. CASE Trap \/ FrameOverflow \/ PoolOverflow \/ BadAccess
  BY <1>1 DEF Trap, FrameOverflow, PoolOverflow, BadAccess, Stop
<1>2. CASE Const BY <1>2 DEF Const, Ready, Fetched
<1>3. CASE Binary BY <1>3 DEF Binary, Ready, Fetched
<1>4. CASE Not \/ Load \/ Store \/ Br \/ CallPtr \/ RetVoid
  BY <1>4 DEF Not, Load, Store, Br, CallPtr, RetVoid, Ready, Fetched
<1>5. CASE CondBr BY <1>5 DEF CondBr, Ready, Fetched
<1>6. CASE CallFunc BY <1>6 DEF CallFunc, Ready, Fetched
<1>7. CASE Ret BY <1>7 DEF Ret, Ready, Fetched
<1>8. CASE RetFromEntry BY <1>8 DEF RetFromEntry, Ready, Fetched
<1> QED BY <1>1, <1>2, <1>3, <1>4, <1>5, <1>6, <1>7, <1>8 DEF Next, Execute, Stopped

LEMMA StopKeepsFibInv ==
  ASSUME FibInv, prog' = prog, status' \notin {"running", "returned"}
  PROVE  FibInv'
BY DEF FibInv, FibCorrect

LEMMA Written ==
  ASSUME NEW p \in [Cells -> Word], NEW r \in Nat, NEW g \in 1 .. 8, r + g \in Cells,
         NEW w, NEW p2, p2 = [p EXCEPT ![r + g] = w], r \in Cells
  PROVE  /\ p2[r + g] = w /\ p2[r] = p[r]
         /\ \A j \in 0 .. 8 : j # g /\ r + j \in Cells => p2[r + j] = p[r + j]
<1>1. p2[r + g] = w OBVIOUS
<1>2. \A c \in Cells : c # r + g => p2[c] = p[c] OBVIOUS
<1>3. r # r + g OBVIOUS
<1>4. \A j \in 0 .. 8 : j # g => r + j # r + g OBVIOUS
<1> QED BY <1>1, <1>2, <1>3, <1>4

LEMMA WordOf ==
  ASSUME NEW op \in {"ADD", "SUB"}, NEW a, NEW b
  PROVE  BinaryWords(op, a, b) = {ArithWord(op, a, b)}
<1>1. op \in ArithOps BY DEF ArithOps
<1>2. op \notin DivideOps \cup CompareOps BY DEF DivideOps, CompareOps
<1> QED BY <1>1, <1>2 DEF BinaryWords

\* A constant or an operation writes its register, which is inside the pool, and
\* no other of the activation.
LEMMA OperationFacts ==
  ASSUME TypeOK, FibInv, status = "running", Const \/ Binary, NEW g \in 1 .. 8, instr.gen = g
  PROVE  /\ registers \in Nat /\ registers \in Cells /\ registers + g \in Cells
         /\ \E w : /\ pool' = [pool EXCEPT ![registers + g] = w] /\ pool'[registers + g] = w
                   /\ Const /\ instr.op \in ConstOps => w \in ConstWords(instr.op, instr.imm)
                   /\ Binary /\ instr.op \in BinaryOps =>
                        w \in BinaryWords(instr.op, Reg(instr.left), Reg(instr.right))
         /\ SameCall /\ NextInstr /\ UNCHANGED block
         /\ pool'[registers] = pool[registers]
         /\ \A j \in 0 .. 8 : j # g /\ registers + j \in Cells => pool'[registers + j] = pool[registers + j]
<1>1. registers \in Nat /\ pool \in [Cells -> Word] BY DEF TypeOK
<1>2. registers \in Cells BY DEF FibInv, Running
<1>3. registers + g \in Cells
  <2>1. Touched \subseteq Cells /\ instr.op \in GenOps \ {"CALL_PTR", "CALL_FUNC"}
    BY DEF Const, Binary, Ready, Fetched, GenOps, Opcodes, ConstOps, BinaryOps, ArithOps, DivideOps, CompareOps
  <2> QED BY <2>1, TouchedFacts
<1>4. SameCall /\ NextInstr /\ UNCHANGED block BY DEF Const, Binary
<1>5. ConstOps \cap BinaryOps = {} BY DEF ConstOps, BinaryOps, ArithOps, DivideOps, CompareOps
<1>6. PICK w : /\ pool' = [pool EXCEPT ![registers + g] = w]
               /\ Const => w \in ConstWords(instr.op, instr.imm)
               /\ Binary => w \in BinaryWords(instr.op, Reg(instr.left), Reg(instr.right))
  <2>1. CASE Const
    <3>1. ~Binary BY <1>5, <2>1 DEF Const, Binary, Ready, Fetched
    <3> QED BY <2>1, <3>1 DEF Const, SetReg
  <2>2. CASE Binary
    <3>1. ~Const BY <1>5, <2>2 DEF Const, Binary, Ready, Fetched
    <3> QED BY <2>2, <3>1 DEF Binary, SetReg
  <2> QED BY <2>1, <2>2
<1>7. /\ pool'[registers + g] = w /\ pool'[registers] = pool[registers]
      /\ \A j \in 0 .. 8 : j # g /\ registers + j \in Cells => pool'[registers + j] = pool[registers + j]
  <2> SUFFICES ASSUME NEW p2, p2 = pool'
               PROVE  /\ p2[registers + g] = w /\ p2[registers] = pool[registers]
                      /\ \A j \in 0 .. 8 : j # g /\ registers + j \in Cells => p2[registers + j] = pool[registers + j]
    OBVIOUS
  <2>1. p2 = [pool EXCEPT ![registers + g] = w] BY <1>6
  <2> QED BY <1>1, <1>2, <1>3, <2>1, Written
<1> QED BY <1>1, <1>2, <1>3, <1>4, <1>6, <1>7

\* The argument of the running activation.
LEMMA ArgFacts ==
  ASSUME TypeOK, FibInv, status = "running"
  PROVE  pool[registers] \in Nat /\ Fits(pool[registers])
         /\ Reg(0) = pool[registers] /\ registers \in Nat /\ registers \in Cells
<1>1. registers \in Cells /\ Fits(pool[registers]) BY DEF FibInv, Running
<1>2. registers \in Nat /\ pool[registers] \in Word BY <1>1 DEF TypeOK
<1>3. Word \subseteq Nat BY SpanFacts DEF Word, Widths
<1>4. registers + 0 = registers BY <1>2
<1> QED BY <1>1, <1>2, <1>3, <1>4 DEF Reg----------------------------------------------------------------------------
(***************************************************************************)
(* One lemma per instruction of fib.                                       *)
(***************************************************************************)
\* const_1 = 1
LEMMA StepConst1 ==
  ASSUME TypeOK, FibInv, status = "running", Next, block[2] = 1, instr_index = 1
  PROVE  FibInv'
<1>1. instr.op = "CONST_I64" /\ instr.imm = 1 /\ instr.gen = 1
  BY FibInstr, FibCode
<1>2. (prog' = prog /\ status' \notin {"running", "returned"}) \/ Const
  BY <1>1, StepOf DEF ConstOps, BinaryOps, ArithOps, DivideOps, CompareOps
<1>3. CASE Const
  <2> DEFINE r == registers  n == pool[registers]
  <2>1. /\ r \in Nat /\ r \in Cells /\ r + 1 \in Cells
        /\ SameCall /\ NextInstr /\ UNCHANGED block /\ pool'[r] = n
        /\ \A j \in 0 .. 8 : j # 1 /\ r + j \in Cells => pool'[r + j] = pool[r + j]
    BY <1>1, <1>3, OperationFacts
  <2>2. n \in Nat /\ Fits(n) /\ Reg(0) = n BY ArgFacts
  <2>3. PICK w : pool' = [pool EXCEPT ![r + 1] = w] /\ pool'[r + 1] = w /\ w \in ConstWords("CONST_I64", 1)
    BY <1>1, <1>3, OperationFacts DEF ConstOps, BinaryOps, ArithOps, DivideOps, CompareOps
  <2>4. w = 1
    <3>1. 1 < Span["i64"] BY <2>2, FitsFacts
    <3> QED BY <2>3, <3>1, ConstIs
  <2>8. /\ 1 \in 1 .. 8 /\ pool' = [pool EXCEPT ![registers + 1] = w]
        /\ registers + 1 \in Cells /\ Progress(pool', block[2], instr_index + 1, registers)
    <3> HIDE DEF r, n
    <3>1. r = registers BY DEF r
    <3>2. 1 + 1 = 2 /\ 1 \in 1 .. 8 OBVIOUS
    <3>3. Has(pool', r + 1, 1)
      BY <2>1, <2>2, <2>3, <2>4 DEF Has
    <3>4. Progress(pool', 1, 2, r) BY <3>3 DEF Progress
    <3> QED BY <2>1, <2>3, <3>1, <3>2, <3>4
  <2>9. FibInv' BY <2>1, <2>8, RegisterStep
  <2> QED BY <2>9
<1> QED BY <1>2, <1>3, StopKeepsFibInv

\* test_n = n <= const_1
LEMMA StepTest ==
  ASSUME TypeOK, FibInv, status = "running", Next, block[2] = 1, instr_index = 2, Has(pool, registers + 1, 1)
  PROVE  FibInv'
<1>1. instr.op = "SMALLER_EQ" /\ instr.left = 0 /\ instr.right = 1 /\ instr.gen = 2
  BY FibInstr, FibCode
<1>2. (prog' = prog /\ status' \notin {"running", "returned"}) \/ Binary
  BY <1>1, StepOf DEF ConstOps, BinaryOps, ArithOps, DivideOps, CompareOps
<1>3. CASE Binary
  <2> DEFINE r == registers  n == pool[registers]
  <2>1. /\ r \in Nat /\ r \in Cells /\ r + 2 \in Cells
        /\ SameCall /\ NextInstr /\ UNCHANGED block /\ pool'[r] = n
        /\ \A j \in 0 .. 8 : j # 2 /\ r + j \in Cells => pool'[r + j] = pool[r + j]
    BY <1>1, <1>3, OperationFacts
  <2>2. n \in Nat /\ Fits(n) /\ Reg(0) = n BY ArgFacts
  <2>10. Reg(1) = 1 BY DEF Has, Reg
  <2>3. PICK w : pool' = [pool EXCEPT ![r + 2] = w] /\ pool'[r + 2] = w /\ w \in BinaryWords("SMALLER_EQ", n, 1)
    BY <1>1, <1>3, <2>2, <2>10, OperationFacts DEF ConstOps, BinaryOps, ArithOps, DivideOps, CompareOps
  <2>4. w % Span["i8"] = IF n <= 1 THEN 1 ELSE 0 BY <2>2, <2>3, TestIs
  <2>5. Has(pool, r + 1, 1) OBVIOUS
  <2>8. /\ 2 \in 1 .. 8 /\ pool' = [pool EXCEPT ![registers + 2] = w]
        /\ registers + 2 \in Cells /\ Progress(pool', block[2], instr_index + 1, registers)
    <3> HIDE DEF r, n
    <3>1. r = registers BY DEF r
    <3>2. 2 + 1 = 3 /\ 2 \in 1 .. 8 OBVIOUS
    <3>3. Has(pool', r + 1, 1) /\ r + 2 \in Cells /\ pool'[r] = n
          /\ pool'[r + 2] % Span["i8"] = IF pool'[r] <= 1 THEN 1 ELSE 0
      BY <2>1, <2>2, <2>3, <2>4, <2>5 DEF Has
    <3>4. Progress(pool', 1, 3, r) BY <3>3 DEF Progress
    <3> QED BY <2>1, <2>3, <3>1, <3>2, <3>4
  <2>9. FibInv' BY <2>1, <2>8, RegisterStep
  <2> QED BY <2>9
<1> QED BY <1>2, <1>3, StopKeepsFibInv

\* call_one_arg = n - const_1
LEMMA StepSub1 ==
  ASSUME TypeOK, FibInv, status = "running", Next, block[2] = 3, instr_index = 1,
         pool[registers] >= 2, Has(pool, registers + 1, 1)
  PROVE  FibInv'
<1>1. instr.op = "SUB" /\ instr.left = 0 /\ instr.right = 1 /\ instr.gen = 3
  BY FibInstr, FibCode
<1>2. (prog' = prog /\ status' \notin {"running", "returned"}) \/ Binary
  BY <1>1, StepOf DEF ConstOps, BinaryOps, ArithOps, DivideOps, CompareOps
<1>3. CASE Binary
  <2> DEFINE r == registers  n == pool[registers]
  <2>1. /\ r \in Nat /\ r \in Cells /\ r + 3 \in Cells
        /\ SameCall /\ NextInstr /\ UNCHANGED block /\ pool'[r] = n
        /\ \A j \in 0 .. 8 : j # 3 /\ r + j \in Cells => pool'[r + j] = pool[r + j]
    BY <1>1, <1>3, OperationFacts
  <2>2. n \in Nat /\ Fits(n) /\ Reg(0) = n BY ArgFacts
  <2>10. Reg(1) = 1 BY DEF Has, Reg
  <2>11. \A a, b : BinaryWords("SUB", a, b) = {ArithWord("SUB", a, b)} BY WordOf
  <2>3. PICK w : pool' = [pool EXCEPT ![r + 3] = w] /\ pool'[r + 3] = w /\ w = ArithWord("SUB", n, 1)
    BY <1>1, <1>3, <2>2, <2>10, <2>11, OperationFacts DEF ConstOps, BinaryOps, ArithOps, DivideOps, CompareOps
  <2>4. w = n - 1 /\ n >= 2
    <3>1. n < Span["i64"] /\ n >= 2 BY <2>2, FitsFacts
    <3> HIDE DEF n, r
    <3>2. n >= 1 /\ 1 \in Nat BY <2>2, <3>1
    <3>3. ArithWord("SUB", n, 1) = n - 1 BY <2>2, <3>1, <3>2, SumIs
    <3> QED BY <2>3, <3>1, <3>3
  <2>8. /\ 3 \in 1 .. 8 /\ pool' = [pool EXCEPT ![registers + 3] = w]
        /\ registers + 3 \in Cells /\ Progress(pool', block[2], instr_index + 1, registers)
    <3> HIDE DEF r, n
    <3>1. r = registers BY DEF r
    <3>2. 1 + 1 = 2 /\ 3 \in 1 .. 8 OBVIOUS
    <3>3. Has(pool', r + 3, pool'[r] - 1) /\ pool'[r] >= 2
      BY <2>1, <2>2, <2>3, <2>4 DEF Has
    <3>4. Progress(pool', 3, 2, r) BY <3>3 DEF Progress
    <3> QED BY <2>1, <2>3, <3>1, <3>2, <3>4
  <2>9. FibInv' BY <2>1, <2>8, RegisterStep
  <2> QED BY <2>9
<1> QED BY <1>2, <1>3, StopKeepsFibInv

\* The second constant, of which there is no variable.
LEMMA StepConst2 ==
  ASSUME TypeOK, FibInv, status = "running", Next, block[2] = 3, instr_index = 3,
         pool[registers] >= 2, Has(pool, registers + 4, Fib[pool[registers] - 1])
  PROVE  FibInv'
<1>1. instr.op = "CONST_I64" /\ instr.imm = 2 /\ instr.gen = 5
  BY FibInstr, FibCode
<1>2. (prog' = prog /\ status' \notin {"running", "returned"}) \/ Const
  BY <1>1, StepOf DEF ConstOps, BinaryOps, ArithOps, DivideOps, CompareOps
<1>3. CASE Const
  <2> DEFINE r == registers  n == pool[registers]
  <2>1. /\ r \in Nat /\ r \in Cells /\ r + 5 \in Cells
        /\ SameCall /\ NextInstr /\ UNCHANGED block /\ pool'[r] = n
        /\ \A j \in 0 .. 8 : j # 5 /\ r + j \in Cells => pool'[r + j] = pool[r + j]
    BY <1>1, <1>3, OperationFacts
  <2>2. n \in Nat /\ Fits(n) /\ Reg(0) = n BY ArgFacts
  <2>3. PICK w : pool' = [pool EXCEPT ![r + 5] = w] /\ pool'[r + 5] = w /\ w \in ConstWords("CONST_I64", 2)
    BY <1>1, <1>3, OperationFacts DEF ConstOps, BinaryOps, ArithOps, DivideOps, CompareOps
  <2>4. w = 2
    <3>1. 2 < Span["i64"] BY <2>2, FitsFacts
    <3> QED BY <2>3, <3>1, ConstIs
  <2>5. n >= 2 /\ Has(pool, r + 4, Fib[n - 1]) OBVIOUS
  <2>8. /\ 5 \in 1 .. 8 /\ pool' = [pool EXCEPT ![registers + 5] = w]
        /\ registers + 5 \in Cells /\ Progress(pool', block[2], instr_index + 1, registers)
    <3> HIDE DEF r, n
    <3>1. r = registers BY DEF r
    <3>2. 3 + 1 = 4 /\ 5 \in 1 .. 8 OBVIOUS
    <3>3. /\ Has(pool', r + 4, Fib[pool'[r] - 1]) /\ Has(pool', r + 5, 2) /\ pool'[r] >= 2
      BY <2>1, <2>2, <2>3, <2>4, <2>5 DEF Has
    <3>4. Progress(pool', 3, 4, r) BY <3>3 DEF Progress
    <3> QED BY <2>1, <2>3, <3>1, <3>2, <3>4
  <2>9. FibInv' BY <2>1, <2>8, RegisterStep
  <2> QED BY <2>9
<1> QED BY <1>2, <1>3, StopKeepsFibInv

\* call_two_arg = n - 2
LEMMA StepSub2 ==
  ASSUME TypeOK, FibInv, status = "running", Next, block[2] = 3, instr_index = 4,
         pool[registers] >= 2, Has(pool, registers + 4, Fib[pool[registers] - 1]), Has(pool, registers + 5, 2)
  PROVE  FibInv'
<1>1. instr.op = "SUB" /\ instr.left = 0 /\ instr.right = 5 /\ instr.gen = 6
  BY FibInstr, FibCode
<1>2. (prog' = prog /\ status' \notin {"running", "returned"}) \/ Binary
  BY <1>1, StepOf DEF ConstOps, BinaryOps, ArithOps, DivideOps, CompareOps
<1>3. CASE Binary
  <2> DEFINE r == registers  n == pool[registers]
  <2>1. /\ r \in Nat /\ r \in Cells /\ r + 6 \in Cells
        /\ SameCall /\ NextInstr /\ UNCHANGED block /\ pool'[r] = n
        /\ \A j \in 0 .. 8 : j # 6 /\ r + j \in Cells => pool'[r + j] = pool[r + j]
    BY <1>1, <1>3, OperationFacts
  <2>2. n \in Nat /\ Fits(n) /\ Reg(0) = n BY ArgFacts
  <2>10. Reg(5) = 2 BY DEF Has, Reg
  <2>11. \A a, b : BinaryWords("SUB", a, b) = {ArithWord("SUB", a, b)} BY WordOf
  <2>3. PICK w : pool' = [pool EXCEPT ![r + 6] = w] /\ pool'[r + 6] = w /\ w = ArithWord("SUB", n, 2)
    BY <1>1, <1>3, <2>2, <2>10, <2>11, OperationFacts DEF ConstOps, BinaryOps, ArithOps, DivideOps, CompareOps
  <2>4. w = n - 2 /\ n >= 2
    <3>1. n < Span["i64"] /\ n >= 2 BY <2>2, FitsFacts
    <3> HIDE DEF n, r
    <3>2. ArithWord("SUB", n, 2) = n - 2 BY <2>2, <3>1, SumIs
    <3> QED BY <2>3, <3>1, <3>2
  <2>5. Has(pool, r + 4, Fib[n - 1]) OBVIOUS
  <2>8. /\ 6 \in 1 .. 8 /\ pool' = [pool EXCEPT ![registers + 6] = w]
        /\ registers + 6 \in Cells /\ Progress(pool', block[2], instr_index + 1, registers)
    <3> HIDE DEF r, n
    <3>1. r = registers BY DEF r
    <3>2. 4 + 1 = 5 /\ 6 \in 1 .. 8 OBVIOUS
    <3>3. Has(pool', r + 4, Fib[pool'[r] - 1]) /\ Has(pool', r + 6, pool'[r] - 2) /\ pool'[r] >= 2
      BY <2>1, <2>2, <2>3, <2>4, <2>5 DEF Has
    <3>4. Progress(pool', 3, 5, r) BY <3>3 DEF Progress
    <3> QED BY <2>1, <2>3, <3>1, <3>2, <3>4
  <2>9. FibInv' BY <2>1, <2>8, RegisterStep
  <2> QED BY <2>9
<1> QED BY <1>2, <1>3, StopKeepsFibInv

\* first_call_result + second_call_result
LEMMA StepAdd ==
  ASSUME TypeOK, FibInv, status = "running", Next, block[2] = 3, instr_index = 6,
         pool[registers] >= 2, Has(pool, registers + 4, Fib[pool[registers] - 1]),
         Has(pool, registers + 7, Fib[pool[registers] - 2])
  PROVE  FibInv'
<1>1. instr.op = "ADD" /\ instr.left = 4 /\ instr.right = 7 /\ instr.gen = 8
  BY FibInstr, FibCode
<1>2. (prog' = prog /\ status' \notin {"running", "returned"}) \/ Binary
  BY <1>1, StepOf DEF ConstOps, BinaryOps, ArithOps, DivideOps, CompareOps
<1>3. CASE Binary
  <2> DEFINE r == registers  n == pool[registers]
  <2>1. /\ r \in Nat /\ r \in Cells /\ r + 8 \in Cells
        /\ SameCall /\ NextInstr /\ UNCHANGED block /\ pool'[r] = n
        /\ \A j \in 0 .. 8 : j # 8 /\ r + j \in Cells => pool'[r + j] = pool[r + j]
    BY <1>1, <1>3, OperationFacts
  <2>2. n \in Nat /\ Fits(n) /\ Reg(0) = n BY ArgFacts
  <2>10. Reg(4) = Fib[n - 1] /\ Reg(7) = Fib[n - 2] BY DEF Has, Reg
  <2>11. \A a, b : BinaryWords("ADD", a, b) = {ArithWord("ADD", a, b)} BY WordOf
  <2>3. PICK w : pool' = [pool EXCEPT ![r + 8] = w] /\ pool'[r + 8] = w /\ w = ArithWord("ADD", Fib[n - 1], Fib[n - 2])
    BY <1>1, <1>3, <2>10, <2>11, OperationFacts DEF ConstOps, BinaryOps, ArithOps, DivideOps, CompareOps
  <2>4. w = Fib[n] /\ n >= 2
    <3>1. n >= 2 OBVIOUS
    <3>2. Fib[n] < Span["i64"] BY <2>2, FitsFacts
    <3> HIDE DEF n, r
    <3>3. Fib[n - 1] \in Nat /\ Fib[n - 2] \in Nat /\ Fib[n] = Fib[n - 1] + Fib[n - 2]
      BY <2>2, <3>1, FibFacts
    <3> DEFINE a == Fib[n - 1]  b == Fib[n - 2]
    <3>4. a \in Nat /\ b \in Nat /\ a + b < Span["i64"] /\ Fib[n] = a + b /\ w = ArithWord("ADD", a, b)
      BY <2>3, <3>2, <3>3
    <3> HIDE DEF a, b
    <3>5. ArithWord("ADD", a, b) = a + b BY <3>4, SumIs
    <3> QED BY <3>1, <3>4, <3>5
  <2>8. /\ 8 \in 1 .. 8 /\ pool' = [pool EXCEPT ![registers + 8] = w]
        /\ registers + 8 \in Cells /\ Progress(pool', block[2], instr_index + 1, registers)
    <3> HIDE DEF r, n
    <3>1. r = registers BY DEF r
    <3>2. 6 + 1 = 7 /\ 8 \in 1 .. 8 OBVIOUS
    <3>3. Has(pool', r + 8, Fib[pool'[r]]) /\ pool'[r] >= 2
      BY <2>1, <2>2, <2>3, <2>4 DEF Has
    <3>4. Progress(pool', 3, 7, r) BY <3>3 DEF Progress
    <3> QED BY <2>1, <2>3, <3>1, <3>2, <3>4
  <2>9. FibInv' BY <2>1, <2>8, RegisterStep
  <2> QED BY <2>9
<1> QED BY <1>2, <1>3, StopKeepsFibInv

\* if (test_n) goto then_block else else_block
LEMMA StepBranch ==
  ASSUME TypeOK, FibInv, status = "running", Next, block[2] = 1, instr_index = 3,
         Has(pool, registers + 1, 1), registers + 2 \in Cells,
         pool[registers + 2] % Span["i8"] = IF pool[registers] <= 1 THEN 1 ELSE 0
  PROVE  FibInv'
<1>1. instr.op = "COND_BR" /\ instr.left = 2 /\ instr.yes = 2 /\ instr.no = 3
  BY FibInstr, FibCode
<1>2. (prog' = prog /\ status' \notin {"running", "returned"}) \/ CondBr
  BY <1>1, StepOf DEF ConstOps, BinaryOps, ArithOps, DivideOps, CompareOps
<1>3. CASE CondBr
  <2> DEFINE n == pool[registers]
  <2>1. n \in Nat BY ArgFacts
  <2>2. Reg(2) % Span["i8"] = IF n <= 1 THEN 1 ELSE 0 BY DEF Reg
  <2> HIDE DEF n
  <2>3. Truths(Reg(2)) = IF n <= 1 THEN {TRUE} ELSE {FALSE} BY <2>2 DEF Truths
  <2>4. PICK taken \in Truths(Reg(2)) : GoTo(IF taken THEN 2 ELSE 3) BY <1>1, <1>3 DEF CondBr
  <2>5. GoTo(IF n <= 1 THEN 2 ELSE 3)
    <3>1. CASE n <= 1
      <4>1. taken = TRUE BY <2>3, <3>1
      <4>2. GoTo(2) BY <2>4, <4>1
      <4> QED BY <3>1, <4>2
    <3>2. CASE ~(n <= 1)
      <4>1. taken = FALSE BY <2>3, <3>2
      <4>2. GoTo(3) BY <2>4, <4>1
      <4> QED BY <3>2, <4>2
    <3> QED BY <3>1, <3>2
  <2>6. /\ block' = <<block[1], IF n <= 1 THEN 2 ELSE 3>> /\ instr_index' = 1
        /\ prog' = prog /\ registers' = registers /\ frames' = frames /\ status' = status /\ pool' = pool
    BY <1>3, <2>5 DEF GoTo, CondBr, SameCall
  <2>7. Progress(pool, IF n <= 1 THEN 2 ELSE 3, 1, registers)
    BY <2>1 DEF Progress, n
  <2>8. prog = <<FibFn>> /\ Running(pool, block, instr_index, registers, frames) BY DEF FibInv
  <2>9. Running(pool, <<1, IF n <= 1 THEN 2 ELSE 3>>, 1, registers, frames)
    BY <2>7, <2>8 DEF Running
  <2>10. block[1] = 1 BY <2>8 DEF Running
  <2>11. status' # "returned" BY <2>6
  <2>12. Running(pool', block', instr_index', registers', frames') BY <2>6, <2>9, <2>10
  <2> QED BY <2>6, <2>8, <2>11, <2>12 DEF FibInv, FibCorrect
<1> QED BY <1>2, <1>3, StopKeepsFibInv

\* With one argument nothing has been overwritten when it is copied.
LEMMA OneArgCopied ==
  ASSUME Callee.args_count = 1
  PROVE  ArgsCopied[1] = pool[Source(1)]
<1> DEFINE Val(g, k) == IF Earlier(k) \in 1 .. k - 1 THEN g[Earlier(k)] ELSE pool[Source(k)]
           v == pool[Source(1)]
           Eqn(g) == g = [k \in 1 .. Callee.args_count |-> Val(g, k)]
           one == [k \in 1 .. 1 |-> v]
<1>1. \A g : Val(g, 1) = v
  <2>1. 1 .. 1 - 1 = {} OBVIOUS
  <2> QED BY <2>1
<1>2. ArgsCopied = CHOOSE g : Eqn(g) BY DEF ArgsCopied
<1>3. \A g : Eqn(g) <=> g = [k \in 1 .. 1 |-> Val(g, k)] OBVIOUS
<1>4. \A g : [k \in 1 .. 1 |-> Val(g, k)] = one
  <2>1. \A k \in 1 .. 1 : k = 1 OBVIOUS
  <2> HIDE DEF Val, v
  <2> QED BY <1>1, <2>1
<1>5. \A g : Eqn(g) <=> g = one
  <2> HIDE DEF Eqn, Val, one
  <2> QED BY <1>3, <1>4
<1>6. ArgsCopied = one
  <2> HIDE DEF Eqn, one
  <2> QED BY <1>2, <1>5
<1> HIDE DEF v
<1>7. one[1] = v OBVIOUS
<1> QED BY <1>6, <1>7 DEF v

\* A call of fib by fib: the window of the callee begins with the argument.
LEMMA CallFacts ==
  ASSUME TypeOK, FibInv, status = "running", CallFunc, NEW x, instr.args = <<x>>, instr.callee = 1
  PROVE  LET r == registers IN
         /\ r \in Nat /\ r + 9 \in Cells /\ registers' = r + 9
         /\ r + x \in Cells /\ pool'[r + 9] = pool[r + x]
         /\ \A c \in Cells : c <= r + 8 => pool'[c] = pool[c]
         /\ prog' = prog /\ status' = status
         /\ block' = <<1, 1>> /\ instr_index' = 1
         /\ frames' = Append(frames, [block |-> block, instr_index |-> instr_index,
                                      gen_value_id |-> instr.gen, registers |-> r])
<1>1. /\ instr.op = "CALL_FUNC" /\ Touched \subseteq Cells /\ registers' = CalleeBase
      /\ prog' = prog /\ status' = status
      /\ block' = <<1, 1>> /\ instr_index' = 1
      /\ frames' = Append(frames, [block |-> block, instr_index |-> instr_index,
                                   gen_value_id |-> instr.gen, registers |-> registers])
  BY DEF CallFunc, Ready, Fetched
<1>2. Callee = FibFn
  <2>1. prog = <<FibFn>> BY DEF FibInv
  <2> DEFINE f == FibFn
  <2> HIDE DEF f
  <2>2. <<f>>[1] = f OBVIOUS
  <2> QED BY <2>1, <2>2 DEF Callee, f
<1>3. Callee.args_count = 1 /\ ValuesSize(Callee) = 9 BY <1>2, FibCode
<1>4. registers \in Nat BY DEF TypeOK
<1>5. CalleeBase = registers + 9 BY <1>3 DEF CalleeBase
<1>6. registers + 9 \in Cells
  <2>1. 0 \in 0 .. Callee.args_count - 1 BY <1>3
  <2>2. CalleeBase + 0 \in Touched BY <1>1, <2>1 DEF Touched
  <2>3. CalleeBase + 0 = registers + 9 BY <1>4, <1>5
  <2> QED BY <1>1, <2>2, <2>3
<1>7. registers + x \in Cells
  <2>1. 1 \in DOMAIN instr.args \cap (1 .. Callee.args_count) /\ instr.args[1] = x BY <1>3
  <2> QED BY <1>1, <2>1, TouchedFacts
<1>8. ArgsCopied[1] = pool[registers + x]
  <2>1. Source(1) = registers + x BY DEF Source
  <2> QED BY <1>3, <2>1, OneArgCopied
<1>9. pool' = [c \in Cells |-> IF c - (registers + 9) \in 0 .. 0
                              THEN ArgsCopied[c - (registers + 9) + 1] ELSE pool[c]]
  <2>1. Callee.args_count - 1 = 0 BY <1>3
  <2> QED BY <1>5, <2>1 DEF CallFunc
<1>10. pool'[registers + 9] = pool[registers + x]
  <2> DEFINE e == registers + 9
  <2>1. e - e \in 0 .. 0 /\ e - e + 1 = 1 BY <1>4
  <2>2. pool' = [c \in Cells |-> IF c - e \in 0 .. 0 THEN ArgsCopied[c - e + 1] ELSE pool[c]] BY <1>9
  <2>3. e \in Cells BY <1>6
  <2> HIDE DEF e
  <2>4. pool'[e] = ArgsCopied[e - e + 1] BY <2>1, <2>2, <2>3
  <2>5. pool'[e] = ArgsCopied[1] BY <2>1, <2>4
  <2> QED BY <1>8, <2>5 DEF e
<1>11. \A c \in Cells : c <= registers + 8 => pool'[c] = pool[c]
  <2>1. \A c \in Cells : c <= registers + 8 => c - (registers + 9) \notin 0 .. 0
    BY <1>4, SizeAssumption DEF Cells
  <2> QED BY <1>9, <2>1
<1> QED BY <1>1, <1>4, <1>5, <1>6, <1>7, <1>10, <1>11

LEMMA FibCallStep ==
  ASSUME TypeOK, FibInv, status = "running", CallFunc, NEW x, instr.args = <<x>>, instr.callee = 1,
         block[2] = 3, pool[registers] >= 2, Fits(pool[registers + x]),
         \/ instr_index = 2 /\ instr.gen = 4 /\ pool[registers + x] = pool[registers] - 1
         \/ /\ instr_index = 5 /\ instr.gen = 7 /\ pool[registers + x] = pool[registers] - 2
            /\ Has(pool, registers + 4, Fib[pool[registers] - 1])
  PROVE  FibInv'
<1> DEFINE r == registers  n == Len(frames)
           fr == [block |-> block, instr_index |-> instr_index, gen_value_id |-> instr.gen, registers |-> r]
<1>1. /\ r \in Nat /\ r + 9 \in Cells /\ registers' = r + 9 /\ pool'[r + 9] = pool[r + x]
      /\ \A c \in Cells : c <= r + 8 => pool'[c] = pool[c]
      /\ prog' = prog /\ status' = status /\ block' = <<1, 1>> /\ instr_index' = 1
      /\ frames' = Append(frames, fr)
  BY CallFacts
<1>2. /\ prog = <<FibFn>> /\ block[1] = 1 /\ r = 9 * n /\ r \in Cells /\ Fits(pool[r])
      /\ FramesOK(pool, frames)
  BY DEF FibInv, Running
<1>3. frames \in Seq(CallFrame) /\ n \in Nat /\ block = <<1, 3>> /\ DOMAIN frames = 1 .. n
  BY <1>2 DEF TypeOK
<1>4. fr.block = block /\ fr.instr_index = instr_index /\ fr.gen_value_id = instr.gen /\ fr.registers = r
  OBVIOUS
<1> HIDE DEF fr
<1>5. /\ Len(frames') = n + 1 /\ DOMAIN frames' = 1 .. n + 1 /\ frames'[n + 1] = fr
      /\ \A k \in 1 .. n : frames'[k] = frames[k]
  BY <1>1, <1>3
<1>6. FramesOK(pool', frames)
  <2> SUFFICES ASSUME NEW p2, p2 = pool' PROVE FramesOK(p2, frames)
    OBVIOUS
  <2> HIDE DEF n, r
  <2>1. \A c \in Cells : c <= 9 * n => p2[c] = pool[c] BY <1>1, <1>2 DEF Cells
  <2>2. n = Len(frames) BY DEF n
  <2> QED BY <1>2, <1>3, <2>1, <2>2, FramesKept
<1>7. FrameOK(pool', fr, r)
  <2>1. pool'[r] = pool[r] BY <1>1, <1>2 DEF Cells
  <2>2. r + 4 \in Cells => pool'[r + 4] = pool[r + 4] BY <1>1
  <2>3. Has(pool', r + 9, pool[r + x]) BY <1>1 DEF Has
  <2>4. Has(pool, r + 4, Fib[pool[r] - 1]) => Has(pool', r + 4, Fib[pool'[r] - 1])
    BY <2>1, <2>2 DEF Has
  <2>5. fr.registers = r /\ fr.block = <<1, 3>> /\ r \in Cells /\ pool'[r] >= 2 /\ Fits(pool'[r])
    BY <1>2, <1>3, <1>4, <2>1
  <2>6. \/ fr.instr_index = 2 /\ fr.gen_value_id = 4 /\ Has(pool', r + 9, pool'[r] - 1)
        \/ /\ fr.instr_index = 5 /\ fr.gen_value_id = 7 /\ Has(pool', r + 9, pool'[r] - 2)
           /\ Has(pool', r + 4, Fib[pool'[r] - 1])
    BY <1>4, <2>1, <2>3, <2>4
  <2> QED BY <2>5, <2>6 DEF FrameOK
<1>8. FramesOK(pool', frames')
  <2>1. SUFFICES ASSUME NEW k \in 1 .. n + 1 PROVE FrameOK(pool', frames'[k], 9 * (k - 1))
    BY <1>5 DEF FramesOK
  <2>2. CASE k \in 1 .. n
    <3>1. FrameOK(pool', frames[k], 9 * (k - 1)) BY <1>3, <1>6, <2>2 DEF FramesOK
    <3> QED BY <1>5, <2>2, <3>1
  <2>3. CASE k = n + 1
    <3>1. 9 * (k - 1) = r /\ frames'[k] = fr BY <1>2, <1>3, <1>5, <2>3
    <3> QED BY <1>7, <3>1
  <2> QED BY <1>3, <2>2, <2>3
<1>9. Running(pool', block', instr_index', registers', frames')
  <2> HIDE DEF n, r
  <2>1. registers' = 9 * Len(frames') /\ registers' \in Cells BY <1>1, <1>2, <1>3, <1>5
  <2>2. pool'[registers'] = pool[r + x] BY <1>1
  <2>3. r = registers BY DEF r
  <2>4. Fits(pool'[registers']) BY <2>2, <2>3
  <2>5. block'[1] = 1 /\ block'[2] = 1 /\ instr_index' = 1 BY <1>1
  <2>6. Progress(pool', block'[2], instr_index', registers') BY <2>5 DEF Progress
  <2> QED BY <1>8, <2>1, <2>4, <2>5, <2>6 DEF Running
<1>10. status' # "returned" BY <1>1
<1> QED BY <1>1, <1>2, <1>9, <1>10 DEF FibInv, FibCorrect

\* first_call_result = fib(call_one_arg)
LEMMA StepCall1 ==
  ASSUME TypeOK, FibInv, status = "running", Next, block[2] = 3, instr_index = 2,
         pool[registers] >= 2, Has(pool, registers + 3, pool[registers] - 1)
  PROVE  FibInv'
<1>1. instr.op = "CALL_FUNC" /\ instr.gen = 4 /\ instr.callee = 1 /\ instr.args = <<3>>
  BY FibInstr, FibCode
<1>2. (prog' = prog /\ status' \notin {"running", "returned"}) \/ CallFunc
  BY <1>1, StepOf DEF ConstOps, BinaryOps, ArithOps, DivideOps, CompareOps
<1>3. Fits(pool[registers] - 1) BY ArgFacts, FitsFacts
<1>4. pool[registers + 3] = pool[registers] - 1 BY DEF Has
<1>5. CASE CallFunc BY <1>1, <1>3, <1>4, <1>5, FibCallStep
<1> QED BY <1>2, <1>5, StopKeepsFibInv

\* second_call_result = fib(call_two_arg)
LEMMA StepCall2 ==
  ASSUME TypeOK, FibInv, status = "running", Next, block[2] = 3, instr_index = 5,
         pool[registers] >= 2, Has(pool, registers + 4, Fib[pool[registers] - 1]),
         Has(pool, registers + 6, pool[registers] - 2)
  PROVE  FibInv'
<1>1. instr.op = "CALL_FUNC" /\ instr.gen = 7 /\ instr.callee = 1 /\ instr.args = <<6>>
  BY FibInstr, FibCode
<1>2. (prog' = prog /\ status' \notin {"running", "returned"}) \/ CallFunc
  BY <1>1, StepOf DEF ConstOps, BinaryOps, ArithOps, DivideOps, CompareOps
<1>3. Fits(pool[registers] - 2) BY ArgFacts, FitsFacts
<1>4. pool[registers + 6] = pool[registers] - 2 BY DEF Has
<1>5. CASE CallFunc BY <1>1, <1>3, <1>4, <1>5, FibCallStep
<1> QED BY <1>2, <1>5, StopKeepsFibInv

\* A return of Fib[n] to the activation that called fib(n).
LEMMA FibReturnStep ==
  ASSUME TypeOK, FibInv, status = "running", frames # <<>>, ReturnWith(Fib[pool[registers]])
  PROVE  FibInv'
<1> DEFINE k == Len(frames)  caller == frames[k]  b == 9 * (k - 1)  w == Fib[pool[registers]]
<1>1. /\ frames' = Front(frames) /\ prog' = prog /\ status' = status
      /\ block' = caller.block /\ instr_index' = caller.instr_index + 1
      /\ registers' = caller.registers
      /\ pool' = [pool EXCEPT ![caller.registers + caller.gen_value_id] = w]
  BY PopFacts DEF ReturnWith
<1>2. /\ k \in DOMAIN frames /\ frames' \in Seq(CallFrame) /\ DOMAIN frames' = 1 .. k - 1
      /\ Len(frames') = k - 1 /\ k \in Nat /\ k >= 1
      /\ \A j \in DOMAIN frames' : j \in DOMAIN frames /\ frames'[j] = frames[j]
  BY <1>1, PopFacts DEF TypeOK
<1>3. prog = <<FibFn>> /\ registers = 9 * k /\ FramesOK(pool, frames) /\ pool \in [Cells -> Word]
  BY DEF FibInv, Running, TypeOK
<1>4. FrameOK(pool, caller, b) BY <1>2, <1>3 DEF FramesOK
<1>5. b \in Nat /\ registers = b + 9 /\ b = 9 * Len(frames') BY <1>2, <1>3
<1> HIDE DEF caller, b, k
<1>6. /\ caller.registers = b /\ caller.block = <<1, 3>> /\ b \in Cells /\ pool[b] >= 2 /\ Fits(pool[b])
      /\ \/ /\ caller.instr_index = 2 /\ caller.gen_value_id = 4 /\ Has(pool, b + 9, pool[b] - 1)
         \/ /\ caller.instr_index = 5 /\ caller.gen_value_id = 7 /\ Has(pool, b + 9, pool[b] - 2)
            /\ Has(pool, b + 4, Fib[pool[b] - 1])
  BY <1>4 DEF FrameOK
<1>7. b + 9 \in Cells /\ b + 4 \in Cells /\ b + 7 \in Cells BY <1>5, <1>6, SizeAssumption DEF Has, Cells
<1> DEFINE g == caller.gen_value_id
<1>8. g \in 1 .. 8 /\ b + g \in Cells /\ pool' = [pool EXCEPT ![b + g] = w] BY <1>1, <1>6, <1>7
<1> HIDE DEF g, w
<1>9. /\ pool'[b + g] = w /\ pool'[b] = pool[b]
      /\ \A j \in 0 .. 8 : j # g /\ b + j \in Cells => pool'[b + j] = pool[b + j]
  <2> SUFFICES ASSUME NEW p2, p2 = pool'
               PROVE  /\ p2[b + g] = w /\ p2[b] = pool[b]
                      /\ \A j \in 0 .. 8 : j # g /\ b + j \in Cells => p2[b + j] = pool[b + j]
    OBVIOUS
  <2>1. p2 = [pool EXCEPT ![b + g] = w] BY <1>8
  <2> QED BY <1>3, <1>5, <1>6, <1>8, <2>1, Written
<1>10. FramesOK(pool', frames')
  <2>1. FramesOK(pool, frames') BY <1>2, <1>3 DEF FramesOK
  <2>2. \A c \in Cells : c <= b => pool'[c] = pool[c]
    <3>1. \A c \in Cells : c <= b => c # b + g BY <1>5, <1>8 DEF Cells
    <3> QED BY <1>3, <1>8, <3>1
  <2> SUFFICES ASSUME NEW p2, p2 = pool', NEW fs, fs = frames' PROVE FramesOK(p2, fs)
    OBVIOUS
  <2> DEFINE m == Len(fs)
  <2>3. fs \in Seq(CallFrame) /\ b = 9 * m /\ FramesOK(pool, fs) BY <1>2, <1>5, <2>1
  <2>4. m = Len(fs) OBVIOUS
  <2> HIDE DEF m
  <2>5. \A c \in Cells : c <= 9 * m => p2[c] = pool[c] BY <2>2, <2>3
  <2> QED BY <2>3, <2>4, <2>5, FramesKept
<1>11. Progress(pool', 3, instr_index', b)
  <2>1. CASE caller.instr_index = 2 /\ g = 4 /\ Has(pool, b + 9, pool[b] - 1)
    <3>1. w = Fib[pool[b] - 1] BY <1>5, <2>1 DEF Has, w
    <3>2. instr_index' = 3 BY <1>1, <2>1
    <3>3. pool'[b] >= 2 /\ Has(pool', b + 4, Fib[pool'[b] - 1]) BY <1>6, <1>7, <1>9, <2>1, <3>1 DEF Has
    <3> QED BY <3>2, <3>3 DEF Progress
  <2>2. CASE /\ caller.instr_index = 5 /\ g = 7 /\ Has(pool, b + 9, pool[b] - 2)
             /\ Has(pool, b + 4, Fib[pool[b] - 1])
    <3>1. w = Fib[pool[b] - 2] BY <1>5, <2>2 DEF Has, w
    <3>2. instr_index' = 6 BY <1>1, <2>2
    <3>3. pool'[b] >= 2 /\ Has(pool', b + 7, Fib[pool'[b] - 2]) BY <1>6, <1>7, <1>9, <2>2, <3>1 DEF Has
    <3>4. pool'[b + 4] = pool[b + 4]
      <4>1. 4 \in 0 .. 8 /\ 4 # g BY <2>2
      <4> QED BY <1>7, <1>9, <4>1
    <3>5. Has(pool', b + 4, Fib[pool'[b] - 1]) BY <1>9, <2>2, <3>4 DEF Has
    <3> QED BY <3>2, <3>3, <3>5 DEF Progress
  <2> QED BY <1>6, <2>1, <2>2 DEF g
<1>12. Running(pool', block', instr_index', registers', frames')
  <2>1. block'[1] = 1 /\ block'[2] = 3 BY <1>1, <1>6
  <2>2. registers' = b BY <1>1, <1>6
  <2>3. Fits(pool'[registers']) BY <1>6, <1>9, <2>2
  <2>4. registers' = 9 * Len(frames') /\ registers' \in Cells BY <1>5, <1>6, <2>2
  <2>5. Progress(pool', block'[2], instr_index', registers') BY <1>11, <2>1, <2>2
  <2> QED BY <1>10, <2>1, <2>3, <2>4, <2>5 DEF Running
<1>13. status' # "returned" BY <1>1
<1> QED BY <1>1, <1>3, <1>12, <1>13 DEF FibInv, FibCorrect

\* A RET of Fib[n], to the caller or out of cow_interpret.
LEMMA RetStep ==
  ASSUME TypeOK, FibInv, status = "running", instr.op = "RET", Ret \/ RetFromEntry,
         Reg(instr.left) = Fib[pool[registers]]
  PROVE  FibInv'
<1>1. CASE Ret
  <2>1. frames # <<>> /\ ReturnWith(Reg(instr.left)) BY <1>1 DEF Ret
  <2> DEFINE w == Reg(instr.left)
  <2>2. ReturnWith(w) /\ w = Fib[pool[registers]] BY <2>1
  <2> HIDE DEF w
  <2>3. ReturnWith(Fib[pool[registers]]) BY <2>2 DEF ReturnWith
  <2> QED BY <2>1, <2>3, FibReturnStep
<1>2. CASE RetFromEntry
  <2>1. /\ frames = <<>> /\ result' = Fib[pool[registers]] /\ status' = "returned"
        /\ prog' = prog /\ frames' = frames /\ pool' = pool
    BY <1>2 DEF RetFromEntry, Stop
  <2>2. registers = 0
    <3>1. registers = 9 * Len(frames) BY DEF FibInv, Running
    <3>2. Len(frames) = 0 BY <2>1
    <3> QED BY <3>1, <3>2
  <2>3. frames' = <<>> /\ result' = Fib[pool'[0]] BY <2>1, <2>2
  <2> QED BY <2>1, <2>3 DEF FibInv, FibCorrect
<1> QED BY <1>1, <1>2

\* then_block: return n
LEMMA StepRetArg ==
  ASSUME TypeOK, FibInv, status = "running", Next, block[2] = 2, instr_index = 1, pool[registers] <= 1
  PROVE  FibInv'
<1>1. instr.op = "RET" /\ instr.left = 0 BY FibInstr, FibCode
<1>2. (prog' = prog /\ status' \notin {"running", "returned"}) \/ Ret \/ RetFromEntry
  BY <1>1, StepOf DEF ConstOps, BinaryOps, ArithOps, DivideOps, CompareOps
<1>3. Reg(instr.left) = Fib[pool[registers]] BY <1>1, ArgFacts, FibFacts
<1> QED BY <1>1, <1>2, <1>3, RetStep, StopKeepsFibInv

\* else_block: return the sum
LEMMA StepRetSum ==
  ASSUME TypeOK, FibInv, status = "running", Next, block[2] = 3, instr_index = 7,
         Has(pool, registers + 8, Fib[pool[registers]])
  PROVE  FibInv'
<1>1. instr.op = "RET" /\ instr.left = 8 BY FibInstr, FibCode
<1>2. (prog' = prog /\ status' \notin {"running", "returned"}) \/ Ret \/ RetFromEntry
  BY <1>1, StepOf DEF ConstOps, BinaryOps, ArithOps, DivideOps, CompareOps
<1>3. Reg(instr.left) = Fib[pool[registers]] BY <1>1 DEF Has, Reg
<1> QED BY <1>1, <1>2, <1>3, RetStep, StopKeepsFibInv
----------------------------------------------------------------------------
LEMMA FibNext == TypeOK /\ FibInv /\ [Next]_vars => FibInv'
<1> SUFFICES ASSUME TypeOK, FibInv, [Next]_vars PROVE FibInv'
  OBVIOUS
<1>1. CASE UNCHANGED vars \/ Stopped
  <2>1. UNCHANGED <<prog, block, instr_index, registers, pool, frames, status, result>>
    BY <1>1 DEF vars, Stopped
  <2> QED BY <2>1 DEF FibInv, FibCorrect
<1>2. CASE status # "running" /\ Next
  <2>1. Stopped
    BY <1>2 DEF Next, Execute, Const, Binary, Trap, Not, Load, Store, Br, CondBr, CallPtr, CallFunc,
                Ret, RetVoid, RetFromEntry, FrameOverflow, PoolOverflow, BadAccess, Ready, Fetched
  <2> QED BY <1>1, <2>1
<1>3. CASE status = "running" /\ Next
  <2>1. Progress(pool, block[2], instr_index, registers) BY <1>3 DEF FibInv, Running
  <2> QED BY <1>3, <2>1, StepConst1, StepTest, StepBranch, StepRetArg, StepSub1, StepCall1, StepConst2,
             StepSub2, StepCall2, StepAdd, StepRetSum DEF Progress
<1> QED BY <1>1, <1>2, <1>3

LEMMA FibInit ==
  ASSUME \A s \in Starts : FibStart(s)
  PROVE  Init => FibInv
<1> SUFFICES ASSUME Init PROVE FibInv
  OBVIOUS
<1>1. PICK s \in Starts :
        /\ prog = s.prog /\ memory = s.memory
        /\ instr_index = 1 /\ registers = 0 /\ frames = <<>> /\ result = 0
        /\ \/ \E f \in DOMAIN s.prog : Found(s.prog, s.name, f) /\ Enter(s, f)
           \/ NotFound(s.prog, s.name) /\ Missing(s)
  BY DEF Init
<1>2. FibStart(s) /\ StartOK(s) BY StartsAssumption
<1> DEFINE fn == FibFn
<1>3. s.prog = <<fn>> /\ s.name = "fib" /\ Fits(s.values[1]) BY <1>2 DEF FibStart
<1>4. fn.name = "fib" /\ fn.args_count = 1
  <2>1. fn.name = "fib" BY DEF FibFn
  <2> QED BY <2>1, FibCode
<1> HIDE DEF fn
<1>5. DOMAIN s.prog = {1} /\ s.prog[1] = fn BY <1>3
<1>6. ~NotFound(s.prog, s.name) BY <1>3, <1>4, <1>5 DEF NotFound
<1>7. Enter(s, 1) BY <1>1, <1>5, <1>6
<1>8. /\ block = <<1, 1>>
      /\ pool = [c \in Cells |-> IF c < 1 THEN s.values[c + 1] ELSE s.pool[c]]
      /\ status = IF 1 > PoolSize THEN "pool_overflow" ELSE "running"
  BY <1>4, <1>5, <1>7 DEF Enter
<1>9. status # "returned" /\ (status = "running" => 0 \in Cells) BY <1>8, SizeAssumption DEF Cells
<1>10. status = "running" => pool[0] = s.values[1]
  <2>1. 0 < 1 /\ 0 + 1 = 1 OBVIOUS
  <2> QED BY <1>8, <1>9, <2>1
<1>11. FramesOK(pool, frames)
  <2>1. DOMAIN frames = {} BY <1>1
  <2> QED BY <2>1 DEF FramesOK
<1>12. status = "running" => Running(pool, block, instr_index, registers, frames)
  <2>1. SUFFICES ASSUME status = "running" PROVE Running(pool, block, instr_index, registers, frames)
    OBVIOUS
  <2>2. registers = 9 * Len(frames) BY <1>1
  <2>3. block[1] = 1 /\ block[2] = 1 BY <1>8
  <2>4. registers \in Cells /\ Fits(pool[registers]) BY <1>1, <1>3, <1>9, <1>10, <2>1
  <2>5. Progress(pool, block[2], instr_index, registers) BY <1>1, <2>3 DEF Progress
  <2> QED BY <1>11, <2>2, <2>3, <2>4, <2>5 DEF Running
<1>13. prog = <<FibFn>> BY <1>1, <1>3 DEF fn
<1> QED BY <1>9, <1>12, <1>13 DEF FibInv, FibCorrect

(***************************************************************************)
(* When cow_interpret returns from a call like that of main_fib, with an n *)
(* whose Fibonacci number is a word, no frame is left and its result is    *)
(* Fib[n], for every width, pool, number of frames and content of the pool.*)
(***************************************************************************)
THEOREM FibIsComputed ==
  ASSUME \A s \in Starts : FibStart(s)
  PROVE  Spec => []FibCorrect
<1>1. Init => TypeOK /\ FibInv BY InitTyped, FibInit
<1>2. TypeOK /\ FibInv /\ [Next]_vars => TypeOK' /\ FibInv' BY NextTyped, FibNext
<1>3. FibInv => FibCorrect BY DEF FibInv
<1> QED BY <1>1, <1>2, <1>3, PTL DEF Spec
=============================================================================
