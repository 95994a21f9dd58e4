---------------------------- MODULE ChecksumProofs ----------------------------
(***************************************************************************)
(* Theorems about Checksum, for bytes of any width, and so for those of    *)
(* eight bits: messages of every length an IPv4 datagram can have, any     *)
(* contents, any addresses.                                                *)
(***************************************************************************)
EXTENDS Checksum, NumberFacts, SequenceTheorems

-----------------------------------------------------------------------------
(***************************************************************************)
(* The words of a message and their sum.                                   *)
(***************************************************************************)
\* The numbers of the code: a word is two bytes, the accumulator two words.
LEMMA Widths ==
    /\ Byte \in Nat /\ Byte >= 4 /\ Word \in Nat /\ Word >= 16 /\ Word = Byte * Byte
    /\ AccMod \in Nat /\ AccMod > 0 /\ AccMod = Word * Word
    /\ Byte <= Word
  <1>1. Byte \in Nat /\ Byte >= 4 BY ChecksumAssumption
  <1>2. Byte * Byte \in Nat /\ Byte * Byte >= 4 * Byte BY <1>1
  <1>3. Word \in Nat /\ Word >= 16 /\ Byte <= Word BY <1>1, <1>2 DEF Word
  <1>4. Word * Word \in Nat /\ Word * Word >= 16 * Word BY <1>3
  <1> QED BY <1>1, <1>3, <1>4 DEF Word, AccMod

\* Two bytes make a word.
LEMMA WordOfBytes ==
    ASSUME NEW a \in ByteValue, NEW b \in ByteValue
    PROVE  a * Byte + b \in WordValue
  <1>1. a \in Nat /\ b \in Nat /\ a <= Byte - 1 /\ b <= Byte - 1 BY Widths DEF ByteValue
  <1>2. a * Byte \in Nat /\ a * Byte <= (Byte - 1) * Byte BY <1>1, Widths
  <1>3. (Byte - 1) * Byte = Byte * Byte - Byte BY Widths
  <1> QED BY <1>1, <1>2, <1>3, Widths DEF WordValue

\* Every word of a message is one, the odd tail included.
LEMMA WordAtRange ==
    ASSUME NEW m \in Seq(ByteValue), NEW k \in Nat, k < Len(m)
    PROVE  WordAt(m, k) \in WordValue
  <1>1. Len(m) \in Nat /\ \A j \in 1..Len(m) : m[j] \in ByteValue
    BY LenProperties, ElementOfSeq
  <1>2. m[k + 1] \in ByteValue /\ (k + 2 <= Len(m) => m[k + 2] \in ByteValue) BY <1>1
  <1>3. 0 \in ByteValue BY Widths DEF ByteValue
  <1> DEFINE b == IF k + 2 <= Len(m) THEN m[k + 2] ELSE 0
  <1>4. b \in ByteValue BY <1>2, <1>3
  <1> HIDE DEF b
  <1>5. m[k + 1] * Byte + b \in WordValue BY <1>2, <1>4, WordOfBytes
  <1> QED BY <1>5 DEF b, WordAt

\* The recursive definition of a sum of words defines one.
LEMMA WordSumNext ==
    ASSUME NEW m
    PROVE  /\ WordSum(m, 0) = 0
           /\ \A k \in Nat : WordSum(m, k + 1) = WordSum(m, k) + WordAt(m, 2 * k)
  <1> DEFINE w == [j \in Nat |-> WordAt(m, 2 * j)]
             F(f) == f = [j \in Nat |-> IF j = 0 THEN 0
                                         ELSE f[j - 1] + WordAt(m, 2 * (j - 1))]
             first == CHOOSE f : F(f)
  <1>1. \E f : F(f)
    <2>1. PICK f : f = [j \in Nat |-> IF j = 0 THEN 0 ELSE f[j - 1] + w[j - 1]]
      <3> HIDE DEF w
      <3> QED BY SumsExist
    <2>2. \A j \in Nat : j # 0 => w[j - 1] = WordAt(m, 2 * (j - 1)) OBVIOUS
    <2> HIDE DEF w
    <2>3. F(f) BY <2>1, <2>2
    <2> QED BY <2>3, Zenon
  <1>2. F(first)
    <2> HIDE DEF F
    <2> QED BY <1>1
  <1>3. \A k : WordSum(m, k) = first[k] BY DEF WordSum
  <1> HIDE DEF first
  <1>4. first[0] = 0 BY <1>2
  <1>5. ASSUME NEW k \in Nat PROVE first[k + 1] = first[k] + WordAt(m, 2 * k)
    <2>1. k + 1 \in Nat /\ k + 1 # 0 /\ (k + 1) - 1 = k OBVIOUS
    <2>2. first[k + 1] = first[(k + 1) - 1] + WordAt(m, 2 * ((k + 1) - 1)) BY <1>2, <2>1
    <2> QED BY <2>1, <2>2
  <1> QED BY <1>3, <1>4, <1>5

\* A sum of words is no larger than that many of the largest.
LEMMA WordSumRange ==
    ASSUME NEW m \in Seq(ByteValue), NEW n \in Nat, 2 * n <= Len(m) + 1
    PROVE  WordSum(m, n) \in 0..(n * (Word - 1))
  <1> DEFINE P(k) == 2 * k <= Len(m) + 1 => WordSum(m, k) \in 0..(k * (Word - 1))
             S == {k \in Nat : P(k)}
  <1>1. Len(m) \in Nat BY LenProperties
  <1>2. 0 \in S BY WordSumNext, Widths
  <1>3. ASSUME NEW k \in S PROVE k + 1 \in S
    <2> SUFFICES ASSUME 2 * (k + 1) <= Len(m) + 1
                 PROVE  WordSum(m, k + 1) \in 0..((k + 1) * (Word - 1))
      OBVIOUS
    <2>1. k \in Nat /\ 2 * k \in Nat /\ 2 * k < Len(m) BY <1>1
    <2>2. WordSum(m, k) \in 0..(k * (Word - 1)) BY <1>1, <2>1
    <2>3. WordAt(m, 2 * k) \in 0..(Word - 1) BY <2>1, WordAtRange DEF WordValue
    <2>4. WordSum(m, k + 1) = WordSum(m, k) + WordAt(m, 2 * k) BY <2>1, WordSumNext
    <2>5. (k + 1) * (Word - 1) = k * (Word - 1) + (Word - 1) /\ k * (Word - 1) \in Nat
      BY <2>1, Widths
    <2> HIDE DEF S
    <2> QED BY <2>2, <2>3, <2>4, <2>5, Widths
  <1> HIDE DEF P
  <1>4. S = Nat
    <2>1. S \in SUBSET Nat OBVIOUS
    <2> HIDE DEF S
    <2> QED BY <1>2, <1>3, <2>1, Induction
  <1>5. P(n) BY <1>4
  <1> QED BY <1>5 DEF P

\* Two messages that differ in one word differ in their sums by what it differs.
LEMMA WordSumChange ==
    ASSUME NEW a \in Seq(ByteValue), NEW b \in Seq(ByteValue), Len(a) = Len(b),
           NEW w \in Nat, 2 * w < Len(a),
           \A j \in Nat : j # w /\ 2 * j < Len(a) => WordAt(a, 2 * j) = WordAt(b, 2 * j),
           NEW n \in Nat, 2 * n <= Len(a) + 1, w < n
    PROVE  WordSum(b, n) - WordSum(a, n) = WordAt(b, 2 * w) - WordAt(a, 2 * w)
  <1> DEFINE d == WordAt(b, 2 * w) - WordAt(a, 2 * w)
             P(k) == 2 * k <= Len(a) + 1 =>
                       WordSum(b, k) - WordSum(a, k) = IF w < k THEN d ELSE 0
             S == {k \in Nat : P(k)}
  <1>1. Len(a) \in Nat BY LenProperties
  <1>2. WordAt(b, 2 * w) \in Int /\ WordAt(a, 2 * w) \in Int
    BY <1>1, WordAtRange, Widths DEF WordValue
  <1>3. 0 \in S BY WordSumNext
  <1>4. ASSUME NEW k \in S PROVE k + 1 \in S
    <2> SUFFICES ASSUME 2 * (k + 1) <= Len(a) + 1
                 PROVE  WordSum(b, k + 1) - WordSum(a, k + 1) = IF w < k + 1 THEN d ELSE 0
      OBVIOUS
    <2>1. k \in Nat /\ 2 * k \in Nat /\ 2 * k < Len(a) /\ 2 * k <= Len(a) + 1 BY <1>1
    <2>2. WordSum(b, k) - WordSum(a, k) = IF w < k THEN d ELSE 0 BY <2>1
    <2>3. /\ WordSum(a, k + 1) = WordSum(a, k) + WordAt(a, 2 * k)
          /\ WordSum(b, k + 1) = WordSum(b, k) + WordAt(b, 2 * k)
      BY <2>1, WordSumNext
    <2>4. WordSum(a, k) \in Int /\ WordSum(b, k) \in Int
      <3>1. k * (Word - 1) \in Nat BY <2>1, Widths
      <3> QED BY <2>1, <3>1, WordSumRange
    <2>5. WordAt(a, 2 * k) \in Int /\ WordAt(b, 2 * k) \in Int
      BY <2>1, WordAtRange, Widths DEF WordValue
    <2> HIDE DEF S
    <2>6. CASE k = w BY <1>2, <2>1, <2>2, <2>3, <2>4, <2>5, <2>6
    <2>7. CASE k # w
      <3>1. WordAt(a, 2 * k) = WordAt(b, 2 * k) BY <2>1, <2>7
      <3>2. w < k + 1 <=> w < k BY <2>1, <2>7
      <3> HIDE DEF d
      <3> QED BY <2>2, <2>3, <2>4, <2>5, <3>1, <3>2
    <2> QED BY <2>6, <2>7
  <1> HIDE DEF P
  <1>5. S = Nat
    <2>1. S \in SUBSET Nat OBVIOUS
    <2> HIDE DEF S
    <2> QED BY <1>3, <1>4, <2>1, Induction
  <1>6. P(n) BY <1>5
  <1> QED BY <1>6 DEF P
-----------------------------------------------------------------------------
(***************************************************************************)
(* The accumulation.                                                       *)
(***************************************************************************)
All == Total(Len(data))

\* The message and its addresses are what the code takes them for; the field is
\* still zero while the writer sums up.
DataInv ==
    /\ data \in Seq(ByteValue) /\ Len(data) \in (FieldAt + 2)..(Word - 1)
    /\ addrs = <<>> \/ addrs \in [1..4 -> WordValue]
    /\ side \in {"write", "read"} /\ pc \in {"accum", "fold", "return"}
    /\ side = "write" /\ pc # "return" => data[FieldAt + 1] = 0 /\ data[FieldAt + 2] = 0

\* i is the offset of a word, and the words before it are in the sum.
AccumInv ==
    /\ i \in 0..(Len(data) + 1) /\ i % 2 = 0
    /\ pc = "accum" => sum = Total(i)

\* The seed is a number of at most six words.
LEMMA SeedRange ==
    ASSUME DataInv
    PROVE  gcs_pseudo_header_sum(addrs, Len(data)) \in 0..(6 * (Word - 1))
  <1>1. Protocol \in WordValue /\ Len(data) \in WordValue
    BY ChecksumAssumption, Widths DEF DataInv, WordValue
  <1>2. addrs \in [1..4 -> WordValue] =>
          /\ addrs[1] \in WordValue /\ addrs[2] \in WordValue
          /\ addrs[3] \in WordValue /\ addrs[4] \in WordValue
    OBVIOUS
  <1>3. Word - 1 \in Nat /\ 6 * (Word - 1) \in Nat /\ 6 * (Word - 1) >= 0 BY Widths
  <1>4. CASE addrs = <<>>
    <2>1. gcs_pseudo_header_sum(addrs, Len(data)) = 0 BY <1>4 DEF gcs_pseudo_header_sum
    <2> QED BY <1>3, <2>1
  <1>5. CASE addrs # <<>>
    <2>1. gcs_pseudo_header_sum(addrs, Len(data)) =
            addrs[1] + addrs[2] + addrs[3] + addrs[4] + Protocol + Len(data)
      BY <1>5 DEF gcs_pseudo_header_sum
    <2>2. /\ addrs[1] \in 0..(Word - 1) /\ addrs[2] \in 0..(Word - 1)
          /\ addrs[3] \in 0..(Word - 1) /\ addrs[4] \in 0..(Word - 1)
          /\ Protocol \in 0..(Word - 1) /\ Len(data) \in 0..(Word - 1)
      BY <1>1, <1>2, <1>5 DEF DataInv, WordValue
    <2> DEFINE w == Word - 1
               a == addrs[1]
               b == addrs[2]
               c == addrs[3]
               d == addrs[4]
               l == Len(data)
    <2>3. /\ w \in Nat /\ a \in 0..w /\ b \in 0..w /\ c \in 0..w /\ d \in 0..w
          /\ Protocol \in 0..w /\ l \in 0..w
      BY <1>3, <2>2
    <2>4. gcs_pseudo_header_sum(addrs, Len(data)) = a + b + c + d + Protocol + l BY <2>1
    <2> HIDE DEF w, a, b, c, d, l
    <2>5. a + b + c + d + Protocol + l \in 0..(6 * w) BY <2>3
    <2> QED BY <2>4, <2>5 DEF w
  <1> QED BY <1>4, <1>5

\* The exact sum fits into the accumulator, whatever the message.
LEMMA TotalFits ==
    ASSUME DataInv, NEW n \in 0..(Len(data) + 1), n % 2 = 0 \/ n = Len(data)
    PROVE  Total(n) \in 0..(AccMod - 1)
  <1> DEFINE k == (n + 1) \div 2
             h == Word \div 2
             s == gcs_pseudo_header_sum(addrs, Len(data))
  <1>1. Len(data) \in Nat /\ Len(data) <= Word - 1 /\ n \in Nat BY Widths DEF DataInv
  <1>2. k \in Nat /\ 2 * k <= Len(data) + 1 /\ k <= h /\ h \in Nat /\ 2 * h <= Word
    BY <1>1, Widths
  <1>3. WordSum(data, k) \in 0..(k * (Word - 1)) BY <1>2, WordSumRange DEF DataInv
  <1>4. s \in 0..(6 * (Word - 1)) BY SeedRange
  <1> HIDE DEF k, h, s
  <1>5. k + 6 <= Word BY <1>2, Widths
  <1>6. (k + 6) * (Word - 1) = k * (Word - 1) + 6 * (Word - 1) BY <1>2, Widths
  <1>7. (k + 6) * (Word - 1) <= Word * (Word - 1) BY <1>2, <1>5, Widths
  <1>8. Word * (Word - 1) = Word * Word - Word BY Widths
  <1>9. Total(n) = s + WordSum(data, k) BY DEF Total, s, k
  <1>10. k * (Word - 1) \in Nat BY <1>2, Widths
  <1>11. s + WordSum(data, k) \in 0..(Word * Word - 1)
    BY <1>3, <1>4, <1>6, <1>7, <1>8, <1>10, Widths
  <1> QED BY <1>9, <1>11, Widths

\* One more word, or the odd byte at the end, and the accumulator does not wrap.
LEMMA TotalNext ==
    ASSUME DataInv, NEW n \in Nat, n % 2 = 0, n < Len(data)
    PROVE  /\ Total(n + 2) = Total(n) + WordAt(data, n)
           /\ (Total(n) + WordAt(data, n)) % AccMod = Total(n) + WordAt(data, n)
           /\ n + 2 <= Len(data) + 1
  <1> DEFINE k == (n + 1) \div 2
  <1>1. Len(data) \in Nat BY Widths DEF DataInv
  <1>2. k \in Nat /\ 2 * k = n /\ (n + 2 + 1) \div 2 = k + 1 BY SMT
  <1>3. WordSum(data, k + 1) = WordSum(data, k) + WordAt(data, n)
    <2> HIDE DEF k
    <2> QED BY <1>2, WordSumNext
  <1>4. WordAt(data, n) \in WordValue BY <1>1, WordAtRange DEF DataInv
  <1>5. n \in 0..(Len(data) + 1) /\ n + 2 \in 0..(Len(data) + 1) /\ (n + 2) % 2 = 0
    BY <1>1
  <1>6. Total(n) \in 0..(AccMod - 1) /\ Total(n + 2) \in 0..(AccMod - 1)
    BY <1>5, TotalFits
  <1>7. /\ Total(n) = gcs_pseudo_header_sum(addrs, Len(data)) + WordSum(data, k)
        /\ Total(n + 2) = gcs_pseudo_header_sum(addrs, Len(data)) + WordSum(data, k + 1)
    BY <1>2 DEF Total
  <1>8. /\ gcs_pseudo_header_sum(addrs, Len(data)) \in Int
        /\ WordSum(data, k) \in Int
    <2>1. gcs_pseudo_header_sum(addrs, Len(data)) \in Int BY SeedRange, Widths
    <2>2. 2 * k <= Len(data) + 1 /\ k * (Word - 1) \in Nat BY <1>1, <1>2, Widths
    <2> HIDE DEF k
    <2>3. WordSum(data, k) \in Int BY <1>2, <2>2, WordSumRange DEF DataInv
    <2> QED BY <2>1, <2>3
  <1> HIDE DEF k
  <1>9. Total(n + 2) = Total(n) + WordAt(data, n)
    BY <1>3, <1>4, <1>7, <1>8, Widths DEF WordValue
  <1>10. Total(n + 2) % AccMod = Total(n + 2) BY <1>6, Widths
  <1> QED BY <1>5, <1>9, <1>10

\* When the loop has passed the end, the sum is that of all the words.
LEMMA TotalAtEnd ==
    ASSUME DataInv, NEW n \in Nat, n % 2 = 0, n <= Len(data) + 1, n >= Len(data)
    PROVE  Total(n) = All
  <1>1. Len(data) \in Nat BY Widths DEF DataInv
  <1>2. (n + 1) \div 2 = (Len(data) + 1) \div 2 BY <1>1
  <1> QED BY <1>2 DEF All, Total

\* A step of the loop, or of the odd tail, adds what it should.
LEMMA AccumStep ==
    ASSUME DataInv, AccumInv, AccumWord \/ AccumTail
    PROVE  /\ UNCHANGED <<data, addrs, side>>
           /\ AccumInv'
           /\ pc' = "fold" => sum' = All
  <1>1. UNCHANGED <<data, addrs, side>> /\ pc = "accum" BY DEF AccumWord, AccumTail
  <1>2. Len(data) \in Nat /\ i \in Nat /\ i % 2 = 0 /\ i <= Len(data) + 1 /\ sum = Total(i)
    BY <1>1, Widths DEF DataInv, AccumInv
  <1>3. CASE AccumWord
    <2>1. i' = i + 2 /\ sum' = (sum + WordAt(data, i)) % AccMod /\ i + 1 < Len(data)
          /\ pc' = "accum"
      BY <1>1, <1>3 DEF AccumWord
    <2>2. i < Len(data) BY <1>2, <2>1
    <2>3. sum' = Total(i + 2) /\ i + 2 <= Len(data) + 1 BY <1>2, <2>1, <2>2, TotalNext
    <2>4. (i + 2) % 2 = 0 /\ i + 2 \in 0..(Len(data) + 1) BY <1>2, <2>3
    <2>5. Total(i)' = Total(i + 2) BY <1>1, <2>1 DEF Total
    <2> QED BY <1>1, <2>1, <2>3, <2>4, <2>5 DEF AccumInv
  <1>4. CASE AccumTail
    <2>1. i' = i /\ pc' = "fold" /\ i + 1 >= Len(data) BY <1>4 DEF AccumTail
    <2>2. sum' = All
      <3>1. CASE i < Len(data)
        <4>1. sum' = (sum + WordAt(data, i)) % AccMod BY <1>4, <3>1 DEF AccumTail
        <4>2. sum' = Total(i + 2) /\ i + 2 <= Len(data) + 1
          BY <1>2, <3>1, <4>1, TotalNext
        <4>3. i + 2 \in Nat /\ (i + 2) % 2 = 0 /\ i + 2 >= Len(data) BY <1>2, <2>1
        <4> QED BY <4>2, <4>3, TotalAtEnd
      <3>2. CASE ~(i < Len(data))
        <4>1. sum' = sum BY <1>4, <3>2 DEF AccumTail
        <4>2. i >= Len(data) BY <1>2, <3>2
        <4> QED BY <1>2, <4>1, <4>2, TotalAtEnd
      <3> QED BY <3>1, <3>2
    <2> QED BY <1>1, <1>2, <2>1, <2>2 DEF AccumInv
  <1> QED BY <1>1, <1>3, <1>4
-----------------------------------------------------------------------------
(***************************************************************************)
(* The folding, and what is in its result.                                 *)
(***************************************************************************)
\* A number reduced as far as the folding takes it: the same modulo Word - 1, and
\* zero only if it was.
Folded(s, total) ==
    /\ s \in Nat
    /\ \E k \in Nat : total = s + k * (Word - 1)
    /\ s = 0 <=> total = 0

\* One turn of the folding loop takes a multiple of Word - 1 away.
LEMMA FoldStep ==
    ASSUME NEW total, NEW s, Folded(s, total), s \div Word # 0
    PROVE  Folded((s % Word) + (s \div Word), total)
  <1> DEFINE q == s \div Word
             r == s % Word
             w == Word - 1
  <1>1. s \in Nat /\ w \in Nat /\ Word = w + 1 /\ Word > 0 /\ w > 0 BY Widths DEF Folded
  <1>2. PICK k \in Nat : total = s + k * w BY DEF Folded
  <1>3. q \in Int /\ r \in Nat /\ s = Word * q + r
    <2>1. r \in 0..(Word - 1) BY <1>1, Widths, ModRange
    <2>2. q \in Int /\ s = Word * q + r BY <1>1, Widths, ModSplit
    <2> QED BY <1>1, <2>1, <2>2
  <1>4. q \in Nat
    <2>1. \A x \in Nat, y \in Nat : y > 0 => x \div y \in Nat BY SMT
    <2> QED BY <1>1, <2>1, Widths
  <1>5. q # 0 OBVIOUS
  <1> HIDE DEF q, r, w
  <1>6. r + q \in Nat /\ r + q # 0 /\ k + q \in Nat /\ s # 0
    <2>1. Word * q \in Nat /\ Word * q > 0 BY <1>1, <1>4, <1>5
    <2> QED BY <1>2, <1>3, <1>4, <1>5, <2>1
  <1>7. s = (r + q) + q * w BY <1>1, <1>3, <1>4
  <1>8. total = (r + q) + (k + q) * w
    <2>1. (k + q) * w = k * w + q * w /\ k * w \in Nat /\ q * w \in Nat
      BY <1>1, <1>2, <1>4
    <2> QED BY <1>2, <1>6, <1>7, <2>1
  <1>9. total # 0
    <2>1. (k + q) * w \in Nat BY <1>1, <1>6
    <2> QED BY <1>6, <1>8, <2>1
  <1> QED BY <1>6, <1>8, <1>9 DEF Folded, q, r, w

\* The complement of what is left is zero exactly for the multiples of Word - 1 that
\* are not zero.
LEMMA FoldedEnd ==
    ASSUME NEW total, NEW s, Folded(s, total), s \div Word = 0
    PROVE  /\ s \in 0..(Word - 1) /\ total \in Nat
           /\ total % (Word - 1) = s % (Word - 1)
           /\ Word - 1 - s = 0 <=> total # 0 /\ total % (Word - 1) = 0
  <1> DEFINE w == Word - 1
  <1>1. s \in Nat /\ w \in Nat /\ w > 0 /\ Word = w + 1 BY Widths DEF Folded
  <1>2. PICK k \in Nat : total = s + k * w BY DEF Folded
  <1>3. s \in 0..w
    <2>1. s % Word \in 0..(Word - 1) BY <1>1, Widths, ModRange
    <2>2. s = Word * (s \div Word) + (s % Word) BY <1>1, Widths, ModSplit
    <2>3. s = s % Word BY <2>1, <2>2, Widths
    <2> QED BY <2>1, <2>3
  <1> HIDE DEF w
  <1>4. k * w = w * k /\ w * k \in Nat BY <1>1, <1>2
  <1>5. total \in Nat /\ total = s + w * k BY <1>1, <1>2, <1>4
  <1>6. (s + w * k) % w = s % w BY <1>1, <1>2, ModShift
  <1>7. s % w = 0 <=> s = 0 \/ s = w
    <2>1. CASE s = w
      <3>1. w = w * 1 + 0 /\ 0 \in 0..(w - 1) BY <1>1
      <3>2. w % w = 0 BY <1>1, <3>1, ModUnique
      <3> QED BY <2>1, <3>2
    <2>2. CASE s # w
      <3>1. s = w * 0 + s /\ s \in 0..(w - 1) BY <1>1, <1>3, <2>2
      <3>2. s % w = s BY <1>1, <3>1, ModUnique
      <3> QED BY <2>2, <3>2
    <2> QED BY <2>1, <2>2
  <1>8. total % w = s % w BY <1>5, <1>6
  <1>9. s = 0 <=> total = 0 BY DEF Folded
  <1>10. w - s = 0 <=> s = w BY <1>1, <1>3
  <1>11. w # 0 BY <1>1
  <1>12. w - s = 0 <=> total # 0 /\ total % w = 0 BY <1>7, <1>8, <1>9, <1>10, <1>11
  <1> QED BY <1>3, <1>5, <1>8, <1>12 DEF w
-----------------------------------------------------------------------------
(***************************************************************************)
(* What a changed byte and the field do to the sum.                        *)
(***************************************************************************)
\* A difference that is no multiple of Word - 1.
Small == {d \in Int : d # 0 /\ d < Word - 1 /\ -d < Word - 1}

\* The difference a byte makes in a word, at either end of it.
LEMMA ByteDifference ==
    ASSUME NEW a \in ByteValue, NEW b \in ByteValue, a # b
    PROVE  b - a \in Small /\ b * Byte - a * Byte \in Small
  <1>1. a \in Nat /\ b \in Nat /\ a <= Byte - 1 /\ b <= Byte - 1 BY Widths DEF ByteValue
  <1>2. Byte * Byte >= 4 * Byte /\ Byte * Byte \in Nat BY Widths
  <1>3. b - a \in Small BY <1>1, <1>2, Widths DEF Small
  <1> DEFINE d == b - a
  <1>4. /\ b * Byte - a * Byte = d * Byte
        /\ d \in Int /\ d # 0 /\ d <= Byte - 1 /\ -d <= Byte - 1
    BY <1>1, Widths
  <1> HIDE DEF d
  <1>5. d * Byte \in Int /\ d * Byte <= (Byte - 1) * Byte /\ -(d * Byte) <= (Byte - 1) * Byte
    <2>1. -(d * Byte) = (-d) * Byte BY <1>4, Widths
    <2>2. \A x \in Int : x <= Byte - 1 => x * Byte <= (Byte - 1) * Byte BY Widths
    <2> QED BY <1>4, <2>1, <2>2, Widths
  <1>6. (Byte - 1) * Byte = Byte * Byte - Byte BY Widths
  <1>7. d * Byte # 0 BY <1>4, Widths
  <1>8. d * Byte \in Small BY <1>2, <1>5, <1>6, <1>7, Widths DEF Small
  <1> QED BY <1>3, <1>4, <1>8

\* Such a difference turns a multiple of Word - 1 into a number that is none.
LEMMA SmallDetected ==
    ASSUME NEW t \in Int, t % (Word - 1) = 0, NEW d \in Small
    PROVE  (t + d) % (Word - 1) # 0
  <1> DEFINE w == Word - 1
             q == t \div w
  <1>1. w \in Nat /\ w > 0 BY Widths
  <1>2. d \in Int /\ d # 0 /\ d < w /\ -d < w BY DEF Small
  <1>3. q \in Int /\ t = w * q + (t % w) BY <1>1, ModSplit
  <1>4. t % w = 0 OBVIOUS
  <1> HIDE DEF w, q
  <1>5. t + d = d + w * q BY <1>1, <1>2, <1>3, <1>4
  <1>6. (d + w * q) % w = d % w BY <1>1, <1>2, <1>3, ModShift
  <1>7. d % w # 0
    <2>1. CASE d > 0
      <3>1. d = w * 0 + d /\ d \in 0..(w - 1) BY <1>1, <1>2, <2>1
      <3> QED BY <1>1, <1>2, <3>1, ModUnique
    <2>2. CASE d < 0
      <3>1. d = w * (-1) + (d + w) /\ d + w \in 0..(w - 1) /\ d + w # 0
        BY <1>1, <1>2, <2>2
      <3>2. d % w = d + w BY <1>1, <1>2, <3>1, ModUnique
      <3> QED BY <3>1, <3>2
    <2> QED BY <1>2, <2>1, <2>2
  <1> QED BY <1>5, <1>6, <1>7 DEF w

\* One byte of the message changed: so is the sum of its words, by a small difference.
LEMMA ByteChange ==
    ASSUME NEW m \in Seq(ByteValue), NEW k \in 1..Len(m), NEW b \in ByteValue, b # m[k],
           NEW c, c = [m EXCEPT ![k] = b]
    PROVE  /\ c \in Seq(ByteValue) /\ Len(c) = Len(m)
           /\ WordSum(c, (Len(m) + 1) \div 2) - WordSum(m, (Len(m) + 1) \div 2) \in Small
  <1> DEFINE w == (k - 1) \div 2
             n == (Len(m) + 1) \div 2
  <1>1. Len(m) \in Nat /\ k \in Nat /\ k >= 1 /\ k <= Len(m) BY LenProperties
  <1>2. c \in Seq(ByteValue) /\ Len(c) = Len(m) BY ExceptSeq
  <1>3. m[k] \in ByteValue /\ c[k] = b /\ \A j \in 1..Len(m) : j # k => c[j] = m[j]
    BY <1>1, ElementOfSeq, ExceptSeq
  <1>4. /\ w \in Nat /\ n \in Nat /\ w < n /\ 2 * w < Len(m) /\ 2 * n <= Len(m) + 1
        /\ k = 2 * w + 1 \/ k = 2 * w + 2
    BY <1>1
  <1> HIDE DEF w, n
  <1>5. ASSUME NEW j \in Nat, j # w, 2 * j < Len(m)
        PROVE  WordAt(m, 2 * j) = WordAt(c, 2 * j)
    <2>1. 2 * j + 1 # k /\ 2 * j + 2 # k BY <1>4, <1>5
    <2>2. 2 * j + 1 \in 1..Len(m) /\ (2 * j + 2 <= Len(m) => 2 * j + 2 \in 1..Len(m))
      BY <1>1, <1>5
    <2> QED BY <1>2, <1>3, <2>1, <2>2 DEF WordAt
  <1>6. WordSum(c, n) - WordSum(m, n) = WordAt(c, 2 * w) - WordAt(m, 2 * w)
    BY <1>2, <1>4, <1>5, WordSumChange
  <1>7. b - m[k] \in Small /\ b * Byte - m[k] * Byte \in Small BY <1>3, ByteDifference
  <1>8. WordAt(c, 2 * w) - WordAt(m, 2 * w) \in Small
    <2>1. CASE k = 2 * w + 1
      <3> DEFINE t == IF 2 * w + 2 <= Len(m) THEN m[2 * w + 2] ELSE 0
      <3>1. t \in ByteValue
        <4>1. 0 \in ByteValue BY Widths DEF ByteValue
        <4> QED BY <1>1, <1>4, <4>1, ElementOfSeq
      <3>2. WordAt(m, 2 * w) = m[k] * Byte + t BY <2>1 DEF WordAt
      <3>3. WordAt(c, 2 * w) = b * Byte + t
        <4>1. 2 * w + 2 <= Len(m) => 2 * w + 2 \in 1..Len(m) /\ 2 * w + 2 # k
          BY <1>1, <1>4, <2>1
        <4> QED BY <1>2, <1>3, <2>1, <4>1 DEF WordAt
      <3>4. t \in Int /\ m[k] * Byte \in Int /\ b * Byte \in Int
        BY <1>3, <3>1, Widths DEF ByteValue
      <3> HIDE DEF t
      <3>5. WordAt(c, 2 * w) - WordAt(m, 2 * w) = b * Byte - m[k] * Byte
        BY <3>2, <3>3, <3>4
      <3> QED BY <1>7, <3>5
    <2>2. CASE k = 2 * w + 2
      <3> DEFINE h == m[2 * w + 1]
      <3>1. 2 * w + 1 \in 1..Len(m) /\ 2 * w + 1 # k /\ 2 * w + 2 <= Len(m)
        BY <1>1, <1>4, <2>2
      <3>2. h \in ByteValue BY <3>1, ElementOfSeq
      <3>3. WordAt(m, 2 * w) = h * Byte + m[k] BY <2>2, <3>1 DEF WordAt
      <3>4. WordAt(c, 2 * w) = h * Byte + b BY <1>2, <1>3, <2>2, <3>1 DEF WordAt
      <3>5. h * Byte \in Int /\ m[k] \in Int /\ b \in Int
        BY <1>3, <3>2, Widths DEF ByteValue
      <3> HIDE DEF h
      <3>6. WordAt(c, 2 * w) - WordAt(m, 2 * w) = b - m[k] BY <3>3, <3>4, <3>5
      <3> QED BY <1>7, <3>6
    <2> QED BY <1>4, <2>1, <2>2
  <1> QED BY <1>2, <1>6, <1>8 DEF n

\* The two bytes of a word.
LEMMA BytesOfWord ==
    ASSUME NEW c \in WordValue
    PROVE  /\ c \div Byte \in ByteValue /\ c % Byte \in ByteValue
           /\ (c \div Byte) * Byte + (c % Byte) = c
  <1> DEFINE q == c \div Byte
             r == c % Byte
  <1>1. c \in Nat /\ c < Byte * Byte /\ Byte \in Nat /\ Byte > 0 BY Widths DEF WordValue
  <1>2. r \in 0..(Byte - 1) BY <1>1, ModRange
  <1>3. q \in Int /\ c = Byte * q + r BY <1>1, ModSplit
  <1>4. q \in Nat
    <2>1. \A x \in Nat, y \in Nat : y > 0 => x \div y \in Nat BY SMT
    <2> QED BY <1>1, <2>1
  <1> HIDE DEF q, r
  <1>5. q < Byte
    <2> SUFFICES ASSUME q >= Byte PROVE FALSE BY <1>1, <1>4
    <2>1. Byte * q >= Byte * Byte BY <1>1, <1>4
    <2> QED BY <1>1, <1>2, <1>3, <2>1
  <1>6. Byte * q = q * Byte BY <1>1, <1>4
  <1> QED BY <1>1, <1>2, <1>3, <1>4, <1>5, <1>6 DEF q, r, ByteValue

\* The field takes the checksum: the sum of the words grows by just that.
LEMMA FieldChange ==
    ASSUME NEW m \in Seq(ByteValue), FieldAt + 2 <= Len(m),
           m[FieldAt + 1] = 0, m[FieldAt + 2] = 0, NEW v \in WordValue,
           NEW a, a = [m EXCEPT ![FieldAt + 1] = v \div Byte],
           NEW c, c = [a EXCEPT ![FieldAt + 2] = v % Byte]
    PROVE  /\ c \in Seq(ByteValue) /\ Len(c) = Len(m)
           /\ WordSum(c, (Len(m) + 1) \div 2) - WordSum(m, (Len(m) + 1) \div 2) = v
  <1> DEFINE w == FieldAt \div 2
             n == (Len(m) + 1) \div 2
             h == v \div Byte
             t == v % Byte
  <1>1. /\ Len(m) \in Nat /\ FieldAt \in Nat
        /\ FieldAt + 1 \in 1..Len(m) /\ FieldAt + 2 \in 1..Len(m)
    BY LenProperties, ChecksumAssumption
  <1>2. h \in ByteValue /\ t \in ByteValue /\ h * Byte + t = v BY BytesOfWord
  <1>3. a = [m EXCEPT ![FieldAt + 1] = h] /\ c = [a EXCEPT ![FieldAt + 2] = t] OBVIOUS
  <1> HIDE DEF h, t
  <1>4. /\ a \in Seq(ByteValue) /\ Len(a) = Len(m)
        /\ \A j \in 1..Len(m) : a[j] = IF j = FieldAt + 1 THEN h ELSE m[j]
    BY <1>1, <1>2, <1>3, ExceptSeq
  <1>5. /\ c \in Seq(ByteValue) /\ Len(c) = Len(m)
        /\ \A j \in 1..Len(m) : c[j] = IF j = FieldAt + 2 THEN t ELSE a[j]
    <2>1. FieldAt + 2 \in 1..Len(a) BY <1>1, <1>4
    <2>2. /\ c \in Seq(ByteValue) /\ Len(c) = Len(a)
          /\ \A j \in 1..Len(a) : c[j] = IF j = FieldAt + 2 THEN t ELSE a[j]
      BY <1>2, <1>3, <1>4, <2>1, ExceptSeq
    <2> QED BY <1>4, <2>2
  <1>6. /\ c[FieldAt + 1] = h /\ c[FieldAt + 2] = t
        /\ \A j \in 1..Len(m) : j # FieldAt + 1 /\ j # FieldAt + 2 => c[j] = m[j]
    BY <1>1, <1>4, <1>5
  <1>7. /\ w \in Nat /\ n \in Nat /\ w < n /\ 2 * w < Len(m) /\ 2 * n <= Len(m) + 1
        /\ 2 * w = FieldAt
    <2>1. FieldAt % 2 = 0 BY ChecksumAssumption
    <2> QED BY <1>1, <2>1
  <1> HIDE DEF w, n
  <1>8. ASSUME NEW j \in Nat, j # w, 2 * j < Len(m)
        PROVE  WordAt(m, 2 * j) = WordAt(c, 2 * j)
    <2>1. 2 * j + 1 \notin {FieldAt + 1, FieldAt + 2}
          /\ 2 * j + 2 \notin {FieldAt + 1, FieldAt + 2}
      BY <1>7, <1>8
    <2>2. 2 * j + 1 \in 1..Len(m) /\ (2 * j + 2 <= Len(m) => 2 * j + 2 \in 1..Len(m))
      BY <1>1, <1>8
    <2> QED BY <1>5, <1>6, <2>1, <2>2 DEF WordAt
  <1>9. WordSum(c, n) - WordSum(m, n) = WordAt(c, FieldAt) - WordAt(m, FieldAt)
    <2>1. WordSum(c, n) - WordSum(m, n) = WordAt(c, 2 * w) - WordAt(m, 2 * w)
      <3>1. w \in Nat /\ n \in Nat /\ w < n /\ 2 * w < Len(m) /\ 2 * n <= Len(m) + 1
        BY <1>7
      <3>2. \A j \in Nat : j # w /\ 2 * j < Len(m) => WordAt(m, 2 * j) = WordAt(c, 2 * j)
        BY <1>8
      <3>3. Len(m) = Len(c) /\ c \in Seq(ByteValue) BY <1>5
      <3> QED BY <3>1, <3>2, <3>3, WordSumChange, Zenon
    <2> QED BY <1>7, <2>1
  <1>10. WordAt(c, FieldAt) = v BY <1>2, <1>5, <1>6 DEF WordAt
  <1>11. WordAt(m, FieldAt) = 0 BY Widths DEF WordAt
  <1>12. v \in Int BY Widths DEF WordValue
  <1> QED BY <1>5, <1>9, <1>10, <1>11, <1>12 DEF n

\* One byte of an address changed: so is the seed, by a small difference.
LEMMA AddressChange ==
    ASSUME NEW a \in [1..4 -> WordValue], NEW k \in 1..4, NEW b \in ByteValue, NEW c,
           \/ b # a[k] % Byte /\ c = [a EXCEPT ![k] = (@ \div Byte) * Byte + b]
           \/ b # a[k] \div Byte /\ c = [a EXCEPT ![k] = (b * Byte) + (@ % Byte)],
           NEW l \in Nat
    PROVE  /\ c \in [1..4 -> WordValue] /\ gcs_pseudo_header_sum(c, l) \in Int
           /\ gcs_pseudo_header_sum(c, l) - gcs_pseudo_header_sum(a, l) \in Small
  <1> DEFINE h == a[k] \div Byte
             t == a[k] % Byte
  <1>1. h \in ByteValue /\ t \in ByteValue /\ h * Byte + t = a[k] BY BytesOfWord
  <1>2. PICK v : /\ c = [a EXCEPT ![k] = v]
                 /\ (v = h * Byte + b /\ b # t) \/ (v = b * Byte + t /\ b # h)
    <2>1. CASE b # t /\ c = [a EXCEPT ![k] = (@ \div Byte) * Byte + b]
      <3>1. c = [a EXCEPT ![k] = h * Byte + b] BY <2>1
      <3> QED BY <2>1, <3>1, Zenon
    <2>2. CASE b # h /\ c = [a EXCEPT ![k] = (b * Byte) + (@ % Byte)]
      <3>1. c = [a EXCEPT ![k] = b * Byte + t] BY <2>2
      <3> QED BY <2>2, <3>1, Zenon
    <2> QED BY <2>1, <2>2
  <1> HIDE DEF h, t
  <1>3. v \in WordValue BY <1>1, <1>2, WordOfBytes
  <1>4. v - a[k] \in Small
    <2>1. h * Byte \in Int /\ b * Byte \in Int /\ t \in Int /\ b \in Int
      BY <1>1, Widths DEF ByteValue
    <2>2. CASE v = h * Byte + b /\ b # t
      <3>1. v - a[k] = b - t BY <1>1, <2>1, <2>2
      <3> QED BY <1>1, <2>2, <3>1, ByteDifference
    <2>3. CASE v = b * Byte + t /\ b # h
      <3>1. v - a[k] = b * Byte - h * Byte BY <1>1, <2>1, <2>3
      <3> QED BY <1>1, <2>3, <3>1, ByteDifference
    <2> QED BY <1>2, <2>2, <2>3
  <1>5. c \in [1..4 -> WordValue] BY <1>2, <1>3
  <1>6. a # <<>> /\ c # <<>>
    <2>1. 1 \in DOMAIN a /\ 1 \in DOMAIN c BY <1>5
    <2>2. DOMAIN <<>> = {} BY EmptySeq
    <2> QED BY <2>1, <2>2
  <1>7. \A j \in 1..4 : a[j] \in Int /\ c[j] \in Int /\ c[j] = IF j = k THEN v ELSE a[j]
    BY <1>2, <1>5, Widths DEF WordValue
  <1>8. Protocol \in Int BY ChecksumAssumption, Widths DEF WordValue
  <1>9. /\ gcs_pseudo_header_sum(c, l) \in Int
        /\ gcs_pseudo_header_sum(c, l) - gcs_pseudo_header_sum(a, l) = v - a[k]
    <2>1. /\ gcs_pseudo_header_sum(a, l) = a[1] + a[2] + a[3] + a[4] + Protocol + l
          /\ gcs_pseudo_header_sum(c, l) = c[1] + c[2] + c[3] + c[4] + Protocol + l
      BY <1>6 DEF gcs_pseudo_header_sum
    <2>2. k = 1 \/ k = 2 \/ k = 3 \/ k = 4 OBVIOUS
    <2>3. 1 \in 1..4 /\ 2 \in 1..4 /\ 3 \in 1..4 /\ 4 \in 1..4 OBVIOUS
    <2> QED BY <1>7, <1>8, <2>1, <2>2, <2>3
  <1> QED BY <1>4, <1>5, <1>9
-----------------------------------------------------------------------------
(***************************************************************************)
(* The inductive invariant: what is summed up, and what the link did to it. *)
(***************************************************************************)
\* Valid in ones' complement arithmetic: the words sum up to zero, and are not all zero.
Valid == All # 0 /\ All % (Word - 1) = 0

\* The writer's result makes the message valid; the link's change makes it invalid.
LinkInv ==
    /\ pc = "fold" => Folded(sum, All)
    /\ altered \in BOOLEAN
    /\ side = "write" => ~altered
    /\ side = "write" /\ pc = "return" => Valid
    /\ side = "read" => (Valid <=> ~altered)
    /\ side = "read" /\ pc = "return" => (accepted <=> Valid)

IInv == DataInv /\ AccumInv /\ LinkInv

\* All the words, and the seed.
LEMMA AllIs ==
    All = gcs_pseudo_header_sum(addrs, Len(data)) + WordSum(data, (Len(data) + 1) \div 2)
  BY DEF All, Total

\* The sum of the words and the seed are numbers.
LEMMA SumsAreNumbers ==
    ASSUME DataInv
    PROVE  /\ Len(data) \in Nat /\ All \in Nat
           /\ gcs_pseudo_header_sum(addrs, Len(data)) \in Int
           /\ WordSum(data, (Len(data) + 1) \div 2) \in Int
  <1> DEFINE n == (Len(data) + 1) \div 2
  <1>1. Len(data) \in Nat BY Widths DEF DataInv
  <1>2. n \in Nat /\ 2 * n <= Len(data) + 1 BY <1>1
  <1> HIDE DEF n
  <1>3. n * (Word - 1) \in Nat BY <1>2, Widths
  <1>4. WordSum(data, n) \in Int BY <1>2, <1>3, WordSumRange DEF DataInv
  <1>5. gcs_pseudo_header_sum(addrs, Len(data)) \in Int BY SeedRange, Widths
  <1>6. Len(data) \in 0..(Len(data) + 1) BY <1>1
  <1>7. All \in Nat BY <1>6, TotalFits, Widths DEF All
  <1> QED BY <1>1, <1>4, <1>5, <1>7 DEF n

\* The writer stores the checksum, and the message is valid.
LEMMA InsertStep ==
    ASSUME IInv, Insert
    PROVE  DataInv' /\ Valid'
  <1> DEFINE a == [data EXCEPT ![FieldAt + 1] = Complement \div Byte]
             n == (Len(data) + 1) \div 2
             seed == gcs_pseudo_header_sum(addrs, Len(data))
  <1>1. /\ side = "write" /\ pc = "fold" /\ sum \div Word = 0 /\ addrs' = addrs
        /\ pc' = "return" /\ side' = side
        /\ data' = [a EXCEPT ![FieldAt + 2] = Complement % Byte]
    BY DEF Insert, Finished
  <1>2. /\ data \in Seq(ByteValue) /\ FieldAt + 2 <= Len(data)
        /\ data[FieldAt + 1] = 0 /\ data[FieldAt + 2] = 0
    BY <1>1, Widths, ChecksumAssumption DEF IInv, DataInv
  <1>3. Folded(sum, All) BY <1>1 DEF IInv, LinkInv
  <1>4. /\ sum \in 0..(Word - 1) /\ All \in Nat
        /\ All % (Word - 1) = sum % (Word - 1)
        /\ Word - 1 - sum = 0 <=> All # 0 /\ All % (Word - 1) = 0
    BY <1>1, <1>3, FoldedEnd
  <1>5. Complement \in WordValue /\ Complement = Word - 1 - sum
    BY <1>4, Widths DEF Complement, WordValue
  <1>6. /\ data' \in Seq(ByteValue) /\ Len(data') = Len(data)
        /\ WordSum(data', n) - WordSum(data, n) = Complement
    <2> DEFINE c == data'
    <2>1. c = [a EXCEPT ![FieldAt + 2] = Complement % Byte] BY <1>1
    <2> HIDE DEF a, c, n
    <2>2. a = [data EXCEPT ![FieldAt + 1] = Complement \div Byte] BY DEF a
    <2>3. /\ c \in Seq(ByteValue) /\ Len(c) = Len(data)
          /\ WordSum(c, n) - WordSum(data, n) = Complement
      <3> DEFINE v == Complement
      <3>1. v \in WordValue BY <1>5
      <3>2. /\ a = [data EXCEPT ![FieldAt + 1] = v \div Byte]
            /\ c = [a EXCEPT ![FieldAt + 2] = v % Byte]
        BY <2>1, <2>2
      <3> HIDE DEF v
      <3>3. /\ c \in Seq(ByteValue) /\ Len(c) = Len(data)
            /\ WordSum(c, (Len(data) + 1) \div 2) - WordSum(data, (Len(data) + 1) \div 2) = v
        BY <1>2, <3>1, <3>2, FieldChange
      <3> QED BY <3>3 DEF n, v
    <2> QED BY <2>3 DEF c
  <1>7. DataInv' BY <1>1, <1>6 DEF IInv, DataInv
  <1>8. All' = All + Complement
    <2>1. All' = seed + WordSum(data', n) BY <1>1, <1>6 DEF All, Total
    <2>2. All = seed + WordSum(data, n) BY AllIs
    <2>3. seed \in Int /\ WordSum(data, n) \in Int BY SumsAreNumbers DEF IInv
    <2>4. WordSum(data', n) \in Int
      <3>1. (n \in Nat /\ 2 * n <= Len(data') + 1) BY <1>6, SumsAreNumbers DEF IInv
      <3>2. n * (Word - 1) \in Nat BY <3>1, Widths
      <3> QED BY <1>6, <3>1, <3>2, WordSumRange
    <2>5. Complement \in Int BY <1>5, Widths DEF WordValue
    <2> HIDE DEF seed, n
    <2> QED BY <1>6, <2>1, <2>2, <2>3, <2>4, <2>5
  <1>9. (All + Complement) % (Word - 1) = 0
    <2> DEFINE w == Word - 1
               z == All
    <2>1. w \in Nat /\ w > 0 /\ z \in Nat /\ sum \in 0..w /\ Complement = w - sum
      BY <1>4, <1>5, Widths
    <2>2. z % w = sum % w BY <1>4
    <2> HIDE DEF w, z
    <2>3. /\ ((z % w) + (w - sum)) % w = (z + (w - sum)) % w
          /\ ((sum % w) + (w - sum)) % w = (sum + (w - sum)) % w
      <3> DEFINE d == w - sum
      <3>1. d \in Int /\ sum \in Int /\ z \in Int BY <2>1
      <3> HIDE DEF d
      <3>2. ((z % w) + d) % w = (z + d) % w /\ ((sum % w) + d) % w = (sum + d) % w
        BY <2>1, <3>1, ModAdd, Zenon
      <3> QED BY <3>2 DEF d
    <2>4. sum + (w - sum) = w * 1 + 0 /\ 0 \in 0..(w - 1) BY <2>1
    <2>5. (sum + (w - sum)) % w = 0 BY <2>1, <2>4, ModUnique
    <2> QED BY <2>1, <2>2, <2>3, <2>5 DEF w, z
  <1>10. All + Complement # 0
    <2>1. Complement = 0 => All # 0 BY <1>4, <1>5
    <2>2. Complement \in Nat BY <1>5, Widths DEF WordValue
    <2> QED BY <1>4, <2>1, <2>2
  <1>11. Valid' BY <1>8, <1>9, <1>10 DEF Valid
  <1> QED BY <1>7, <1>11

\* What the link delivers is valid just if it has changed nothing.
LEMMA DeliverStep ==
    ASSUME IInv, Deliver
    PROVE  DataInv' /\ altered' \in BOOLEAN /\ (Valid' <=> ~altered')
  <1> DEFINE n == (Len(data) + 1) \div 2
             seed == gcs_pseudo_header_sum(addrs, Len(data))
  <1>1. /\ side = "write" /\ pc = "return" /\ side' = "read" /\ pc' = "accum"
        /\ ~altered /\ altered \in BOOLEAN /\ Valid /\ DataInv
    BY DEF Deliver, IInv, LinkInv
  <1>2. /\ Len(data) \in Nat /\ All \in Nat /\ seed \in Int /\ WordSum(data, n) \in Int
        /\ All = seed + WordSum(data, n)
    BY <1>1, AllIs, SumsAreNumbers
  <1>3. CASE UNCHANGED <<data, addrs, altered>>
    BY <1>1, <1>3 DEF DataInv, Valid, All, Total
  <1>4. ASSUME DataInv', altered' = TRUE, NEW d \in Small, All' = All + d
        PROVE  DataInv' /\ altered' \in BOOLEAN /\ (Valid' <=> ~altered')
    <2>1. (All + d) % (Word - 1) # 0 BY <1>1, <1>2, SmallDetected DEF Valid
    <2> QED BY <1>4, <2>1 DEF Valid
  <1>5. ASSUME NEW k \in 1..Len(data), NEW b \in ByteValue, b # data[k],
               data' = [data EXCEPT ![k] = b], altered' = TRUE, addrs' = addrs
        PROVE  DataInv' /\ altered' \in BOOLEAN /\ (Valid' <=> ~altered')
    <2> DEFINE c == data'
               d == WordSum(c, n) - WordSum(data, n)
    <2>1. c \in Seq(ByteValue) /\ Len(c) = Len(data) /\ d \in Small
      <3>1. c = [data EXCEPT ![k] = b] /\ data \in Seq(ByteValue)
        BY <1>1, <1>5 DEF DataInv
      <3> HIDE DEF c
      <3> QED BY <1>5, <3>1, ByteChange
    <2>2. DataInv' BY <1>1, <1>5, <2>1 DEF DataInv
    <2>3. All' = seed + WordSum(c, n) BY <1>5, <2>1 DEF All, Total
    <2>4. WordSum(c, n) \in Int
      <3>1. n \in Nat /\ 2 * n <= Len(c) + 1 BY <1>2, <2>1
      <3>2. n * (Word - 1) \in Nat BY <3>1, Widths
      <3> HIDE DEF n
      <3> QED BY <2>1, <3>1, <3>2, WordSumRange
    <2> HIDE DEF seed, n
    <2>5. All' = All + d BY <1>2, <2>3, <2>4
    <2> QED BY <1>4, <1>5, <2>1, <2>2, <2>5
  <1>6. ASSUME addrs # <<>>, NEW k \in 1..4, NEW b \in ByteValue,
               \/ /\ b # addrs[k] % Byte
                  /\ addrs' = [addrs EXCEPT ![k] = (@ \div Byte) * Byte + b]
               \/ /\ b # addrs[k] \div Byte
                  /\ addrs' = [addrs EXCEPT ![k] = (b * Byte) + (@ % Byte)],
               data' = data, altered' = TRUE
        PROVE  DataInv' /\ altered' \in BOOLEAN /\ (Valid' <=> ~altered')
    <2> DEFINE c == addrs'
               l == Len(data)
               d == gcs_pseudo_header_sum(c, l) - gcs_pseudo_header_sum(addrs, l)
    <2>1. /\ c \in [1..4 -> WordValue] /\ d \in Small
          /\ gcs_pseudo_header_sum(c, l) \in Int
      <3>1. addrs \in [1..4 -> WordValue] /\ l \in Nat BY <1>1, <1>2, <1>6 DEF DataInv
      <3>2. \/ b # addrs[k] % Byte /\ c = [addrs EXCEPT ![k] = (@ \div Byte) * Byte + b]
            \/ b # addrs[k] \div Byte
               /\ c = [addrs EXCEPT ![k] = (b * Byte) + (@ % Byte)]
        BY <1>6
      <3> HIDE DEF c, l
      <3> QED BY <3>1, <3>2, AddressChange
    <2>2. DataInv' BY <1>1, <1>6, <2>1 DEF DataInv
    <2>3. All' = gcs_pseudo_header_sum(c, l) + WordSum(data, n) BY <1>6 DEF All, Total
    <2> HIDE DEF c, n
    <2>4. All' = All + d BY <1>2, <2>1, <2>3
    <2> QED BY <1>4, <1>6, <2>1, <2>2, <2>4
  <1> QED BY <1>3, <1>5, <1>6 DEF Deliver

\* Every step preserves the inductive invariant.
LEMMA IInvNext ==
    ASSUME IInv, [Next]_vars
    PROVE  IInv'
  <1>1. CASE AccumWord \/ AccumTail
    <2>1. UNCHANGED <<data, addrs, side>> /\ AccumInv' /\ (pc' = "fold" => sum' = All)
      BY <1>1, AccumStep DEF IInv
    <2>2. /\ UNCHANGED <<altered, accepted>> /\ pc = "accum" /\ pc' \in {"accum", "fold"}
          /\ All' = All
      BY <1>1, <2>1 DEF AccumWord, AccumTail, All, Total
    <2>3. pc' = "fold" => Folded(sum', All)
      <3>1. Folded(All, All)
        <4>1. All \in Nat /\ Word - 1 \in Nat BY SumsAreNumbers, Widths DEF IInv
        <4>2. All = All + 0 * (Word - 1) BY <4>1
        <4> QED BY <4>1, <4>2 DEF Folded
      <3> QED BY <2>1, <3>1
    <2> QED BY <2>1, <2>2, <2>3 DEF IInv, DataInv, LinkInv, Valid
  <1>2. CASE Fold
    <2>1. /\ UNCHANGED <<data, addrs, side, pc, i, altered, accepted>> /\ pc = "fold"
          /\ sum' = (sum % Word) + (sum \div Word) /\ sum \div Word # 0 /\ All' = All
      BY <1>2 DEF Fold, All, Total
    <2>2. Folded(sum, All) BY <2>1 DEF IInv, LinkInv
    <2>3. Folded(sum', All') BY <2>1, <2>2, FoldStep
    <2> QED BY <2>1, <2>3 DEF IInv, DataInv, AccumInv, LinkInv, Valid
  <1>3. CASE Insert
    <2>1. DataInv' /\ Valid' /\ Len(data') = Len(data)
      <3>1. data \in Seq(ByteValue) BY DEF IInv, DataInv
      <3>2. Len(data') = Len(data) BY <1>3, <3>1, LenProperties DEF Insert
      <3> QED BY <1>3, <3>2, InsertStep
    <2>2. UNCHANGED <<i, side, altered>> /\ pc' = "return" /\ side = "write"
      BY <1>3 DEF Insert
    <2> QED BY <2>1, <2>2 DEF IInv, AccumInv, LinkInv
  <1>4. CASE Deliver
    <2>1. DataInv' /\ altered' \in BOOLEAN /\ (Valid' <=> ~altered') BY <1>4, DeliverStep
    <2>2. /\ i' = 0 /\ pc' = "accum" /\ side' = "read"
          /\ sum' = gcs_pseudo_header_sum(addrs', Len(data))
      BY <1>4 DEF Deliver
    <2>3. Len(data') \in Nat /\ Len(data') = Len(data)
      <3>1. data \in Seq(ByteValue) BY DEF IInv, DataInv
      <3>2. Len(data') = Len(data) BY <1>4, <3>1, LenProperties DEF Deliver
      <3> QED BY <3>1, <3>2, LenProperties
    <2>4. Total(i)' = sum'
      <3>1. Total(i)' = gcs_pseudo_header_sum(addrs', Len(data')) + WordSum(data', 0)
        BY <2>2 DEF Total
      <3>2. WordSum(data', 0) = 0 BY WordSumNext
      <3>3. gcs_pseudo_header_sum(addrs', Len(data')) \in Int
        <4>1. /\ Len(data') \in Int /\ Protocol \in Int
              /\ addrs' = <<>> \/ addrs' \in [1..4 -> WordValue]
          BY <2>1, <2>3, ChecksumAssumption, Widths DEF DataInv, WordValue
        <4>2. addrs' \in [1..4 -> WordValue] =>
                /\ addrs'[1] \in Int /\ addrs'[2] \in Int
                /\ addrs'[3] \in Int /\ addrs'[4] \in Int
          BY Widths DEF WordValue
        <4> QED BY <4>1, <4>2 DEF gcs_pseudo_header_sum
      <3> QED BY <2>2, <2>3, <3>1, <3>2, <3>3
    <2>5. AccumInv' BY <2>2, <2>3, <2>4 DEF AccumInv
    <2> QED BY <2>1, <2>2, <2>5 DEF IInv, LinkInv
  <1>5. CASE Verify
    <2>1. /\ UNCHANGED <<data, addrs, side, i, sum, altered>> /\ pc' = "return"
          /\ side = "read" /\ pc = "fold" /\ sum \div Word = 0
          /\ accepted' = (Complement = 0) /\ All' = All
      BY <1>5 DEF Verify, Finished, All, Total
    <2>2. Folded(sum, All) BY <2>1 DEF IInv, LinkInv
    <2>3. Complement = 0 <=> Valid BY <2>1, <2>2, FoldedEnd DEF Complement, Valid
    <2> QED BY <2>1, <2>3 DEF IInv, DataInv, AccumInv, LinkInv, Valid
  <1>6. CASE UNCHANGED vars
    <2>1. All' = All /\ Total(i)' = Total(i) BY <1>6 DEF vars, All, Total
    <2> QED BY <1>6, <2>1 DEF vars, IInv, DataInv, AccumInv, LinkInv, Valid
  <1> QED BY <1>1, <1>2, <1>3, <1>4, <1>5, <1>6 DEF Next, Done

\* The initial state satisfies it.
LEMMA IInvInit == Init => IInv
  <1> SUFFICES ASSUME Init PROVE IInv OBVIOUS
  <1>1. DataInv BY ChecksumAssumption DEF Init, DataInv
  <1>2. i = 0 /\ sum = gcs_pseudo_header_sum(addrs, Len(data)) /\ pc = "accum" BY DEF Init
  <1>3. Total(0) = sum
    <2>1. Total(0) = gcs_pseudo_header_sum(addrs, Len(data)) + WordSum(data, 0)
      BY DEF Total
    <2>2. WordSum(data, 0) = 0 BY WordSumNext
    <2> QED BY <1>1, <1>2, <2>1, <2>2, SumsAreNumbers
  <1>4. AccumInv BY <1>1, <1>2, <1>3, SumsAreNumbers DEF AccumInv
  <1>5. LinkInv BY DEF Init, LinkInv
  <1> QED BY <1>1, <1>4, <1>5 DEF IInv

\* The inductive invariant holds in every reachable state.
THEOREM Invariance == Spec => []IInv
  BY IInvInit, IInvNext, PTL DEF Spec

\* The accumulator of gcs_checksum_accum holds the exact sum: 32 bits are enough for a
\* message of any contents and of any length an IPv4 datagram can have.
THEOREM AccumulatorExact == Spec => []AccumExact
  <1>1. IInv => AccumExact BY DEF IInv, AccumInv, AccumExact
  <1> QED BY <1>1, Invariance, PTL

\* The loops compute what RFC 1071 asks for: a message is taken just if its words, seed
\* included, sum up to zero in ones' complement arithmetic.
THEOREM VerdictRight == Spec => []VerdictIsOnesComplement
  <1>1. IInv => VerdictIsOnesComplement
    BY DEF IInv, LinkInv, Valid, All, VerdictIsOnesComplement
  <1> QED BY <1>1, Invariance, PTL

\* What a writer of this code produces its reader takes, and a message with one changed
\* byte it refuses, wherever the byte is and whatever its value.
THEOREM ChangeDetected == Spec => []OneByteDetected
  <1>1. IInv => OneByteDetected BY DEF IInv, LinkInv, OneByteDetected
  <1> QED BY <1>1, Invariance, PTL
===============================================================================
