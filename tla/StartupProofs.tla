---------------------------- MODULE StartupProofs ----------------------------
(***************************************************************************)
(* The option loops on any command line: the loop that sees one row of     *)
(* words stands where a group starts, so each setting is what its user     *)
(* meant, and the usage is printed for a malformed line and no other.      *)
(* Then addresses as text: what is spelled, or printed by the stack's log, *)
(* is read back as the same address.                                       *)
(***************************************************************************)
EXTENDS Startup, NumberFacts, SequenceTheorems

-----------------------------------------------------------------------------
(***************************************************************************)
(* The row of words: where in argv each group starts.                      *)
(***************************************************************************)
\* FlattenSeq's recursive definition defines a function on the sequences of any length.
LEMMA FlattenExists ==
    ASSUME NEW s, NEW m \in Nat
    PROVE  \E f : f = [n \in 1..m |-> IF n = 1 THEN s[n] ELSE f[n - 1] \o s[n]]
  <1> DEFINE P(n, f) == f = [k \in 1..n |-> IF k = 1 THEN s[k] ELSE f[k - 1] \o s[k]]
             S == {n \in Nat : \E f : P(n, f)}
  <1>1. 0 \in S
    <2>1. P(0, [k \in 1..0 |-> s[k]]) OBVIOUS
    <2> QED BY <2>1, Zenon
  <1>2. ASSUME NEW n \in S PROVE n + 1 \in S
    <2>1. PICK f : P(n, f) BY <1>2
    <2> DEFINE g == [k \in 1..(n + 1) |-> IF k <= n THEN f[k]
                                         ELSE IF k = 1 THEN s[k] ELSE f[n] \o s[k]]
    <2>2. ASSUME NEW k \in 1..(n + 1)
          PROVE  g[k] = IF k = 1 THEN s[k] ELSE g[k - 1] \o s[k]
      <3>1. CASE k <= n
        <4>1. k \in 1..n /\ (k # 1 => k - 1 \in 1..n /\ k - 1 \in 1..(n + 1)) BY <3>1
        <4>2. f[k] = IF k = 1 THEN s[k] ELSE f[k - 1] \o s[k] BY <2>1, <4>1
        <4>3. g[k] = f[k] /\ (k # 1 => g[k - 1] = f[k - 1]) BY <4>1
        <4> QED BY <4>2, <4>3
      <3>2. CASE k = n + 1 BY <3>2
      <3> QED BY <3>1, <3>2
    <2>3. P(n + 1, g) BY <2>2
    <2> HIDE DEF P, g
    <2> QED BY <2>3
  <1> HIDE DEF S
  <1>3. S = Nat
    <2>1. S \in SUBSET Nat BY DEF S
    <2> QED BY <1>1, <1>2, <2>1, Induction
  <1> QED BY <1>3, Zenon DEF S

\* Two sequences in a row.
LEMMA Concat ==
    ASSUME NEW W, NEW a \in Seq(W), NEW b \in Seq(W)
    PROVE  /\ a \o b \in Seq(W) /\ Len(a \o b) = Len(a) + Len(b)
           /\ Len(a) \in Nat /\ Len(b) \in Nat /\ <<>> \o b = b
           /\ \A k \in 1..Len(a) : (a \o b)[k] = a[k]
           /\ \A k \in 1..Len(b) : (a \o b)[Len(a) + k] = b[k]
  OBVIOUS

LEMMA PartIsSeq ==
    ASSUME NEW W, NEW s \in Seq(Seq(W)), NEW n \in 1..Len(s)
    PROVE  s[n] \in Seq(W)
  BY ElementOfSeq

\* What the first n sequences of s make in a row, for each n.
Rows(s, h) ==
    /\ h[0] = <<>> /\ h[Len(s)] = FlattenSeq(s)
    /\ \A n \in 1..Len(s) : h[n] = h[n - 1] \o s[n]

LEMMA RowsExist ==
    ASSUME NEW W, NEW s \in Seq(Seq(W))
    PROVE  \E h : Rows(s, h)
  <1> DEFINE P(f) == f = [n \in 1..Len(s) |-> IF n = 1 THEN s[n] ELSE f[n - 1] \o s[n]]
             flatten == CHOOSE f : P(f)
             h == [n \in 0..Len(s) |-> IF n = 0 THEN <<>> ELSE flatten[n]]
  <1>1. Len(s) \in Nat /\ (Len(s) = 0 => s = <<>>) OBVIOUS
  <1>2. P(flatten)
    <2>1. \E f : P(f) BY <1>1, FlattenExists
    <2> HIDE DEF P
    <2> QED BY <2>1, Zenon
  <1>3. FlattenSeq(s) = IF Len(s) = 0 THEN s ELSE flatten[Len(s)] BY Zenon DEF FlattenSeq
  <1>4. h[0] = <<>> /\ h[Len(s)] = FlattenSeq(s) BY <1>1, <1>3
  <1>5. ASSUME NEW n \in 1..Len(s) PROVE h[n] = h[n - 1] \o s[n]
    <2>1. flatten[n] = IF n = 1 THEN s[n] ELSE flatten[n - 1] \o s[n]
      <3> HIDE DEF flatten
      <3> QED BY <1>2
    <2>2. s[n] \in Seq(W) BY PartIsSeq
    <2>3. <<>> \o s[n] = s[n] BY <2>2, Concat
    <2>4. n \in 0..Len(s) /\ n - 1 \in 0..Len(s) /\ n # 0 /\ (n - 1 = 0 <=> n = 1) BY <1>1
    <2>5. h[n] = flatten[n] /\ h[n - 1] = IF n = 1 THEN <<>> ELSE flatten[n - 1]
      <3> HIDE DEF flatten
      <3> QED BY <2>4
    <2> HIDE DEF h, flatten
    <2> QED BY <2>1, <2>3, <2>5
  <1>6. Rows(s, h)
    <2> HIDE DEF h
    <2> QED BY <1>4, <1>5 DEF Rows
  <1> HIDE DEF h
  <1> QED BY <1>6

\* What the first m make is not changed by those after them.
LEMMA RowsGrow ==
    ASSUME NEW W, NEW s \in Seq(Seq(W)), NEW h, Rows(s, h)
    PROVE  /\ \A n \in 0..Len(s) : h[n] \in Seq(W)
           /\ \A m, n \in 0..Len(s) :
                m <= n => /\ Len(h[m]) <= Len(h[n])
                          /\ \A k \in 1..Len(h[m]) : h[n][k] = h[m][k]
  <1>1. ASSUME NEW n \in 1..Len(s), h[n - 1] \in Seq(W)
        PROVE  /\ h[n] \in Seq(W) /\ Len(h[n]) = Len(h[n - 1]) + Len(s[n])
               /\ \A k \in 1..Len(h[n - 1]) : h[n][k] = h[n - 1][k]
    <2>1. h[n] = h[n - 1] \o s[n] /\ s[n] \in Seq(W) BY PartIsSeq DEF Rows
    <2> DEFINE a == h[n - 1]
               b == s[n]
    <2>2. a \in Seq(W) /\ b \in Seq(W) /\ h[n] = a \o b BY <1>1, <2>1
    <2> HIDE DEF a, b
    <2>3. /\ h[n] \in Seq(W) /\ Len(h[n]) = Len(a) + Len(b)
          /\ \A k \in 1..Len(a) : h[n][k] = a[k]
      BY <2>2, Concat
    <2> QED BY <2>3 DEF a, b
  <1> DEFINE S == {n \in Nat : n <= Len(s) => h[n] \in Seq(W)}
  <1>2. S = Nat
    <2>1. 0 \in S
      <3>1. <<>> \in Seq(W) OBVIOUS
      <3> QED BY <3>1 DEF Rows
    <2>2. ASSUME NEW n \in S PROVE n + 1 \in S
      <3> SUFFICES ASSUME n + 1 <= Len(s) PROVE h[n + 1] \in Seq(W) OBVIOUS
      <3>1. n + 1 \in 1..Len(s) /\ (n + 1) - 1 = n /\ h[n] \in Seq(W) OBVIOUS
      <3> QED BY <3>1, <1>1
    <2> HIDE DEF S
    <2>3. S \in SUBSET Nat BY DEF S
    <2> QED BY <2>1, <2>2, <2>3, Induction
  <1>3. \A n \in 0..Len(s) : h[n] \in Seq(W) BY <1>2
  <1> HIDE DEF S
  <1>4. ASSUME NEW m \in 0..Len(s)
        PROVE  \A n \in 0..Len(s) :
                 m <= n => /\ Len(h[m]) <= Len(h[n])
                           /\ \A k \in 1..Len(h[m]) : h[n][k] = h[m][k]
    <2> DEFINE Keeps(n) == /\ Len(h[m]) <= Len(h[n])
                           /\ \A k \in 1..Len(h[m]) : h[n][k] = h[m][k]
               T == {n \in Nat : m <= n /\ n <= Len(s) => Keeps(n)}
    <2>1. 0 \in T BY <1>3
    <2>2. ASSUME NEW n \in T PROVE n + 1 \in T
      <3> SUFFICES ASSUME m <= n + 1, n + 1 <= Len(s) PROVE Keeps(n + 1) OBVIOUS
      <3>1. h[m] \in Seq(W) BY <1>3
      <3>2. CASE m = n + 1 BY <3>1, <3>2
      <3>3. CASE m <= n
        <4>1. n + 1 \in 1..Len(s) /\ (n + 1) - 1 = n /\ h[n] \in Seq(W) BY <1>3
        <4>2. Keeps(n) BY <3>3
        <4>3. /\ Len(h[n + 1]) = Len(h[n]) + Len(s[n + 1])
              /\ \A k \in 1..Len(h[n]) : h[n + 1][k] = h[n][k]
          BY <4>1, <1>1
        <4>4. s[n + 1] \in Seq(W) BY <4>1, PartIsSeq
        <4>5. Len(s[n + 1]) \in Nat /\ Len(h[n]) \in Nat /\ Len(h[m]) \in Nat
          BY <4>1, <4>4, <3>1, LenProperties
        <4>6. Len(h[m]) <= Len(h[n + 1])
          <5> DEFINE a == Len(h[m])
                     b == Len(h[n])
                     c == Len(s[n + 1])
          <5>1. a \in Nat /\ b \in Nat /\ c \in Nat /\ a <= b BY <4>2, <4>5
          <5>2. Len(h[n + 1]) = b + c BY <4>3
          <5> HIDE DEF a, b, c
          <5>3. a <= b + c BY <5>1
          <5> QED BY <5>2, <5>3 DEF a
        <4>7. ASSUME NEW k \in 1..Len(h[m]) PROVE h[n + 1][k] = h[m][k]
          <5>1. k \in 1..Len(h[n]) BY <4>2, <4>5
          <5> QED BY <5>1, <4>2, <4>3
        <4> QED BY <4>6, <4>7
      <3> QED BY <3>2, <3>3
    <2> HIDE DEF T
    <2>3. T \in SUBSET Nat BY DEF T
    <2>4. T = Nat BY <2>1, <2>2, <2>3, Induction
    <2>5. \A n \in Nat : m <= n /\ n <= Len(s) => Keeps(n)
      <3> HIDE DEF Keeps
      <3> QED BY <2>4 DEF T
    <2> QED BY <2>5
  <1> QED BY <1>3, <1>4

\* start says where in the row each group of s starts, less one, and where it ends.
Starts(s, start) ==
    /\ Len(FlattenSeq(s)) \in Nat
    /\ start \in [0..Len(s) -> 0..Len(FlattenSeq(s))]
    /\ start[0] = 0 /\ start[Len(s)] = Len(FlattenSeq(s))
    /\ \A n \in 1..Len(s) :
         /\ start[n] = start[n - 1] + Len(s[n])
         /\ \A k \in 1..Len(s[n]) : FlattenSeq(s)[start[n - 1] + k] = s[n][k]

LEMMA StartsExist ==
    ASSUME NEW W, NEW s \in Seq(Seq(W))
    PROVE  \E start : Starts(s, start)
  <1>1. PICK h : Rows(s, h) BY RowsExist
  <1> DEFINE L == Len(s)
             start == [n \in 0..L |-> Len(h[n])]
  <1>2. L \in Nat /\ 0 \in 0..L /\ L \in 0..L OBVIOUS
  <1>3. /\ \A n \in 0..L : h[n] \in Seq(W)
        /\ \A m, n \in 0..L : m <= n => /\ Len(h[m]) <= Len(h[n])
                                        /\ \A k \in 1..Len(h[m]) : h[n][k] = h[m][k]
    BY <1>1, RowsGrow
  <1>4. h[0] = <<>> /\ h[L] = FlattenSeq(s) /\ \A n \in 1..L : h[n] = h[n - 1] \o s[n]
    BY <1>1 DEF Rows
  <1> HIDE DEF L
  <1>5. start \in [0..L -> 0..Len(h[L])] BY <1>2, <1>3
  <1>6. ASSUME NEW n \in 1..L
        PROVE  /\ start[n] = start[n - 1] + Len(s[n])
               /\ \A k \in 1..Len(s[n]) : h[L][start[n - 1] + k] = s[n][k]
    <2>1. n \in 0..L /\ n - 1 \in 0..L /\ n <= L BY <1>2
    <2>2. h[n - 1] \in Seq(W) /\ h[n] \in Seq(W) /\ s[n] \in Seq(W) BY <1>3, <2>1 DEF L
    <2>3. h[n] = h[n - 1] \o s[n] BY <1>4
    <2>4. \A k \in 1..Len(h[n]) : h[L][k] = h[n][k] BY <1>2, <1>3, <2>1
    <2>5. Len(h[n]) = Len(h[n - 1]) + Len(s[n]) BY <2>2, <2>3
    <2>6. ASSUME NEW k \in 1..Len(s[n]) PROVE h[L][Len(h[n - 1]) + k] = s[n][k]
      <3>1. Len(h[n - 1]) \in Nat /\ Len(s[n]) \in Nat BY <2>2, LenProperties
      <3> DEFINE a == h[n - 1]
                 b == s[n]
      <3>2. h[n] = a \o b /\ a \in Seq(W) /\ b \in Seq(W) /\ k \in 1..Len(b)
        BY <2>2, <2>3
      <3> HIDE DEF a, b
      <3>3. /\ h[n][Len(a) + k] = b[k] /\ Len(a) \in Nat /\ Len(b) \in Nat
            /\ Len(h[n]) = Len(a) + Len(b)
        BY <3>2, Concat
      <3>4. Len(a) + k \in 1..Len(h[n]) BY <3>2, <3>3
      <3> QED BY <3>3, <3>4, <2>4 DEF a, b
    <2> QED BY <2>1, <2>5, <2>6
  <1>7. start[0] = 0 /\ start[L] = Len(h[L]) /\ Len(h[L]) \in Nat BY <1>2, <1>3, <1>4
  <1>8. Starts(s, start)
    <2> HIDE DEF start
    <2> QED BY <1>4, <1>5, <1>6, <1>7 DEF Starts, L
  <1> HIDE DEF start
  <1> QED BY <1>8
-----------------------------------------------------------------------------
(***************************************************************************)
(* The loop over the options.                                              *)
(***************************************************************************)
\* The last value that the first n groups give for an option.
Among(opt, n) == GroupsFor(opt) \cap (1..n)

LastOf(opt, S) ==
    IF S = {} THEN Default[opt] ELSE groups[CHOOSE k \in S : \A j \in S : j <= k][2]

GivenBy(opt, n) == LastOf(opt, Among(opt, n))

\* A group the replay can place.
Known(k) ==
    \/ Len(groups[k]) = 2 /\ groups[k][1].opt \in Options
    \/ Len(groups[k]) = 1 /\ groups[k][1].opt = "--quiet"

\* The loop stands after n groups, and has understood them.
Understood(start, n) ==
    /\ i = start[n] + 1
    /\ \A opt \in Options : setting[opt] = GivenBy(opt, n)
    /\ program = "GCS.Replay" => \A k \in 1..n : Known(k)

\* The command lines that are promised to be understood, and by whom.
Aligned == program = "GCS.Replay" \/ OwnOptions

LoopInv ==
    /\ program \in {"GCS.Replay", "GCS.Tapd"} /\ groups \in GroupLists
    /\ DOMAIN setting = OptionNames
    /\ pc \in {"options", "usage", "addresses", "started", "refused"}
    /\ Aligned /\ pc # "usage" =>
         \E start : /\ Starts(groups, start)
                    /\ \E n \in 0..Len(groups) : /\ Understood(start, n)
                                                 /\ Parsed => n = Len(groups)
    /\ UsageIfMalformed

\* The groups of a command line are sequences of one word or two.
LEMMA GroupTypes ==
    ASSUME groups \in GroupLists
    PROVE  /\ groups \in Seq(Seq(Words)) /\ Len(groups) \in Nat
           /\ \A k \in 1..Len(groups) :
                /\ groups[k] \in Seq(Words) /\ Len(groups[k]) \in {1, 2}
                /\ groups[k][1] \in Words
                /\ Len(groups[k]) = 2 =>
                     /\ groups[k][1].opt \in OptionNames
                     /\ groups[k][2] \in Words /\ groups[k][2] # NoWord
                /\ Len(groups[k]) = 1 =>
                     (groups[k][1].opt \in OptionNames => k = Len(groups))
  <1>1. groups \in Seq(Seq(Words)) BY StartupAssumption
  <1>2. Len(groups) \in Nat BY <1>1, LenProperties
  <1>3. \A k \in 1..Len(groups) :
          \/ /\ Len(groups[k]) = 2
             /\ groups[k][1].opt \in OptionNames /\ groups[k][2] # NoWord
          \/ /\ Len(groups[k]) = 1
             /\ groups[k][1].opt \in OptionNames => k = Len(groups)
    BY StartupAssumption, Zenon
  <1>4. ASSUME NEW k \in 1..Len(groups)
        PROVE  /\ groups[k] \in Seq(Words) /\ Len(groups[k]) \in {1, 2}
               /\ Len(groups[k]) = 2 =>
                     groups[k][1].opt \in OptionNames /\ groups[k][2] # NoWord
               /\ Len(groups[k]) = 1 =>
                     (groups[k][1].opt \in OptionNames => k = Len(groups))
    <2>1. groups[k] \in Seq(Words) BY <1>1, PartIsSeq
    <2> QED BY <2>1, <1>3
  <1>5. ASSUME NEW k \in 1..Len(groups)
        PROVE  groups[k][1] \in Words /\ (Len(groups[k]) = 2 => groups[k][2] \in Words)
    <2>1. groups[k] \in Seq(Words) /\ Len(groups[k]) \in {1, 2} BY <1>4
    <2>2. 1 \in 1..Len(groups[k]) /\ (Len(groups[k]) = 2 => 2 \in 1..Len(groups[k]))
      BY <2>1
    <2> QED BY <2>1, <2>2, ElementOfSeq
  <1> QED BY <1>1, <1>2, <1>4, <1>5

\* A group of one word gives no option a value.
LEMMA SingleGroup ==
    ASSUME NEW k, Len(groups[k]) = 1
    PROVE  \A opt : k \notin GroupsFor(opt)
  <1> SUFFICES ASSUME NEW opt, k \in GroupsFor(opt) PROVE FALSE OBVIOUS
  <1>1. Len(groups[k]) = 2 BY DEF GroupsFor
  <1> QED BY <1>1

\* One more group changes what is given for its own option, and for that one only.
LEMMA GivenByNext ==
    ASSUME NEW n \in Nat, n + 1 <= Len(groups), Len(groups) \in Nat, NEW opt
    PROVE  GivenBy(opt, n + 1) =
             IF n + 1 \in GroupsFor(opt) THEN groups[n + 1][2] ELSE GivenBy(opt, n)
  <1>1. CASE n + 1 \in GroupsFor(opt)
    <2>1. n + 1 \in Among(opt, n + 1) BY <1>1 DEF Among
    <2>2. \A j \in Among(opt, n + 1) : j \in Nat /\ j <= n + 1 BY DEF Among
    <2>3. \A k \in Among(opt, n + 1) :
            (\A j \in Among(opt, n + 1) : j <= k) => k = n + 1
      BY <2>1, <2>2
    <2>4. (CHOOSE k \in Among(opt, n + 1) : \A j \in Among(opt, n + 1) : j <= k) = n + 1
      BY <2>1, <2>2, <2>3
    <2>5. Among(opt, n + 1) # {} BY <2>1
    <2>6. GivenBy(opt, n + 1) = groups[n + 1][2] BY <2>4, <2>5, Zenon DEF GivenBy, LastOf
    <2> QED BY <1>1, <2>6
  <1>2. CASE n + 1 \notin GroupsFor(opt)
    <2>1. Among(opt, n + 1) = Among(opt, n) BY <1>2 DEF Among
    <2>2. GivenBy(opt, n + 1) = GivenBy(opt, n) BY <2>1, Zenon DEF GivenBy
    <2> QED BY <1>2, <2>2
  <1> QED BY <1>1, <1>2

\* Where the loop stands at an option, and what follows it.
LEMMA AtGroup ==
    ASSUME LoopInv, NEW start, Starts(groups, start), NEW n \in 0..Len(groups),
           i = start[n] + 1
    PROVE  /\ i \in Nat /\ Len(argv) \in Nat
           /\ i <= Len(argv) <=> n < Len(groups)
           /\ n < Len(groups) =>
                /\ n + 1 \in 1..Len(groups)
                /\ word = groups[n + 1][1]
                /\ start[n + 1] = start[n] + Len(groups[n + 1])
                /\ Len(groups[n + 1]) = 2 => i < Len(argv) /\ argv[i + 1] = groups[n + 1][2]
                /\ Len(groups[n + 1]) = 1 /\ word.opt \in OptionNames => ~(i < Len(argv))
  <1>1. Len(groups) \in Nat BY GroupTypes DEF LoopInv
  <1>2. /\ Len(argv) \in Nat /\ start \in [0..Len(groups) -> 0..Len(argv)]
        /\ start[Len(groups)] = Len(argv)
    BY DEF Starts, argv
  <1>3. start[n] \in 0..Len(argv) /\ i \in Nat BY <1>2
  <1>4. CASE n = Len(groups) BY <1>1, <1>2, <1>3, <1>4
  <1>5. CASE n < Len(groups)
    <2>1. n + 1 \in 1..Len(groups) /\ n + 1 \in 0..Len(groups) /\ (n + 1) - 1 = n
      BY <1>1, <1>5
    <2>2. /\ start[n + 1] = start[n] + Len(groups[n + 1])
          /\ \A k \in 1..Len(groups[n + 1]) : argv[start[n] + k] = groups[n + 1][k]
      BY <2>1 DEF Starts, argv
    <2>3. /\ Len(groups[n + 1]) \in {1, 2}
          /\ Len(groups[n + 1]) = 1 =>
               (groups[n + 1][1].opt \in OptionNames => n + 1 = Len(groups))
      BY <2>1, GroupTypes DEF LoopInv
    <2>4. start[n + 1] \in 0..Len(argv) BY <1>2, <2>1
    <2>5. word = groups[n + 1][1] BY <2>2, <2>3 DEF word
    <2>6. Len(groups[n + 1]) = 2 => i < Len(argv) /\ argv[i + 1] = groups[n + 1][2]
      <3> SUFFICES ASSUME Len(groups[n + 1]) = 2
                   PROVE  i < Len(argv) /\ argv[i + 1] = groups[n + 1][2]
        OBVIOUS
      <3>1. argv[start[n] + 2] = groups[n + 1][2] BY <2>2
      <3>2. i + 1 = start[n] + 2 /\ i < Len(argv) BY <1>2, <1>3, <2>2, <2>4
      <3> QED BY <3>1, <3>2
    <2>7. Len(groups[n + 1]) = 1 /\ word.opt \in OptionNames => ~(i < Len(argv))
      <3> SUFFICES ASSUME Len(groups[n + 1]) = 1, word.opt \in OptionNames
                   PROVE  ~(i < Len(argv))
        OBVIOUS
      <3>1. n + 1 = Len(groups) BY <2>3, <2>5
      <3>2. start[n] + 1 = Len(argv) BY <3>1, <1>2, <2>2
      <3> QED BY <3>2, <1>2
    <2>8. i <= Len(argv)
      <3> DEFINE a == start[n]
                 b == Len(groups[n + 1])
                 c == Len(argv)
      <3>1. a \in Nat /\ b \in {1, 2} /\ c \in Nat /\ a + b <= c /\ i = a + 1
        BY <1>2, <1>3, <2>2, <2>3, <2>4
      <3> HIDE DEF a, b, c
      <3>2. i <= c BY <3>1
      <3> QED BY <3>2 DEF c
    <2> QED BY <1>2, <1>3, <1>5, <2>1, <2>2, <2>5, <2>6, <2>7, <2>8
  <1> QED BY <1>1, <1>4, <1>5

\* Before the loop, no group is understood and the defaults stand.
LEMMA LoopInit == Init => LoopInv
  <1> SUFFICES ASSUME Init PROVE LoopInv OBVIOUS
  <1>1. groups \in Seq(Seq(Words)) /\ Len(groups) \in Nat BY GroupTypes DEF Init
  <1>2. PICK start : Starts(groups, start) BY <1>1, StartsExist
  <1>3. \A opt \in Options : setting[opt] = GivenBy(opt, 0)
    <2>1. \A opt : Among(opt, 0) = {} BY DEF Among
    <2>2. setting = Default BY DEF Init
    <2> QED BY <2>1, <2>2 DEF GivenBy, LastOf
  <1>4. 0 \in 0..Len(groups) /\ Understood(start, 0)
    BY <1>1, <1>2, <1>3 DEF Init, Starts, Understood
  <1>5. ~Parsed /\ UsageIfMalformed /\ pc = "options" BY DEF Init, Parsed, UsageIfMalformed
  <1>6. DOMAIN setting = OptionNames BY StartupAssumption DEF Init
  <1> QED BY <1>2, <1>4, <1>5, <1>6 DEF Init, LoopInv

\* A step of the loop that passes over the group it stands at.
LEMMA Passes ==
    ASSUME LoopInv, UNCHANGED <<program, groups>>,
           NEW start, Starts(groups, start), NEW n \in 0..Len(groups), n < Len(groups),
           Understood(start, n), i' = i + Len(groups[n + 1]),
           program = "GCS.Replay" => Known(n + 1),
           \A opt \in Options :
             setting'[opt] = IF n + 1 \in GroupsFor(opt) THEN groups[n + 1][2]
                             ELSE setting[opt]
    PROVE  n + 1 \in 0..Len(groups) /\ Understood(start, n + 1)'
  <1>1. Len(groups) \in Nat BY GroupTypes DEF LoopInv
  <1>2. i' = start[n + 1] + 1
    <2>1. i = start[n] + 1 BY DEF Understood
    <2>2. start[n + 1] = start[n] + Len(groups[n + 1]) BY <2>1, AtGroup
    <2>3. n + 1 \in 1..Len(groups) BY <1>1
    <2>4. start[n] \in Nat
      <3>1. start \in [0..Len(groups) -> 0..Len(FlattenSeq(groups))] BY DEF Starts
      <3> QED BY <3>1
    <2>5. Len(groups[n + 1]) \in {1, 2} BY <2>3, GroupTypes DEF LoopInv
    <2> QED BY <2>1, <2>2, <2>4, <2>5
  <1>3. ASSUME NEW opt \in Options PROVE setting'[opt] = GivenBy(opt, n + 1)
    <2>1. setting[opt] = GivenBy(opt, n) BY DEF Understood
    <2>2. n \in Nat /\ n + 1 <= Len(groups) BY <1>1
    <2>3. GivenBy(opt, n + 1) =
            IF n + 1 \in GroupsFor(opt) THEN groups[n + 1][2] ELSE GivenBy(opt, n)
      BY <1>1, <2>2, GivenByNext
    <2> QED BY <2>1, <2>3
  <1>4. /\ Options' = Options
        /\ \A opt : GivenBy(opt, n + 1)' = GivenBy(opt, n + 1)
        /\ \A k : Known(k)' <=> Known(k)
    BY DEF Options, GivenBy, LastOf, Among, GroupsFor, Known
  <1>5. program = "GCS.Replay" => \A k \in 1..(n + 1) : Known(k)
    BY <1>1 DEF Understood
  <1> QED BY <1>1, <1>2, <1>3, <1>4, <1>5 DEF Understood

\* What that says of the invariant.
LEMMA LoopGoesOn ==
    ASSUME LoopInv, UNCHANGED <<program, groups, pc>>, pc = "options",
           DOMAIN setting' = OptionNames,
           \A start : \A n \in 0..Len(groups) :
             Aligned /\ Starts(groups, start) /\ Understood(start, n) =>
               n + 1 \in 0..Len(groups) /\ Understood(start, n + 1)'
    PROVE  LoopInv'
  <1>1. (Aligned' <=> Aligned) /\ ~Parsed' /\ UsageIfMalformed'
    BY DEF Aligned, OwnOptions, Options, Parsed, UsageIfMalformed
  <1>2. ASSUME Aligned
        PROVE  \E start : Starts(groups, start)
                          /\ \E n \in 0..Len(groups) : Understood(start, n)'
    BY <1>2 DEF LoopInv
  <1> QED BY <1>1, <1>2 DEF LoopInv

LEMMA LoopTakeValue == ASSUME LoopInv, TakeValue PROVE LoopInv'
  <1>1. Options \subseteq OptionNames BY DEF Options, OptionNames
  <1>2. UNCHANGED <<program, groups, pc>> /\ pc = "options" BY DEF TakeValue, AtOption
  <1>3. DOMAIN setting' = OptionNames BY DEF TakeValue, LoopInv
  <1>4. ASSUME NEW start, NEW n \in 0..Len(groups),
               Starts(groups, start), Understood(start, n)
        PROVE  n + 1 \in 0..Len(groups) /\ Understood(start, n + 1)'
    <2>1. i = start[n] + 1 BY <1>4 DEF Understood
    <2>2. n < Len(groups) BY <1>4, <2>1, AtGroup DEF TakeValue, AtOption
    <2>3. /\ n + 1 \in 1..Len(groups) /\ word = groups[n + 1][1]
          /\ Len(groups[n + 1]) = 2 => argv[i + 1] = groups[n + 1][2]
          /\ ~(Len(groups[n + 1]) = 1 /\ word.opt \in OptionNames)
      BY <1>4, <2>1, <2>2, AtGroup DEF TakeValue, HasValue
    <2>4. word.opt \in Options /\ word.opt \in OptionNames
      BY <1>1 DEF TakeValue, HasValue
    <2>5. Len(groups[n + 1]) = 2 BY <2>3, <2>4, GroupTypes DEF LoopInv
    <2>6. \A opt : n + 1 \in GroupsFor(opt) <=> opt = word.opt
      BY <2>3, <2>5 DEF GroupsFor
    <2>7. \A opt \in Options :
            setting'[opt] = IF n + 1 \in GroupsFor(opt) THEN groups[n + 1][2]
                            ELSE setting[opt]
      BY <1>1, <2>3, <2>5, <2>6 DEF TakeValue, LoopInv
    <2>8. Known(n + 1) /\ i' = i + Len(groups[n + 1])
      BY <2>3, <2>4, <2>5 DEF Known, TakeValue
    <2> QED BY <1>2, <1>4, <2>2, <2>7, <2>8, Passes
  <1> QED BY <1>2, <1>3, <1>4, LoopGoesOn

LEMMA LoopTakeQuiet == ASSUME LoopInv, TakeQuiet PROVE LoopInv'
  <1>1. UNCHANGED <<program, groups, pc, setting>> /\ pc = "options"
    BY DEF TakeQuiet, AtOption
  <1>2. ASSUME NEW start, NEW n \in 0..Len(groups),
               Starts(groups, start), Understood(start, n)
        PROVE  n + 1 \in 0..Len(groups) /\ Understood(start, n + 1)'
    <2>1. i = start[n] + 1 BY <1>2 DEF Understood
    <2>2. n < Len(groups) BY <1>2, <2>1, AtGroup DEF TakeQuiet, AtOption
    <2>3. n + 1 \in 1..Len(groups) /\ word = groups[n + 1][1]
      BY <1>2, <2>1, <2>2, AtGroup
    <2>4. Len(groups[n + 1]) = 1 /\ groups[n + 1][1].opt = "--quiet"
      BY <2>3, GroupTypes DEF LoopInv, OptionNames, TakeQuiet, IsQuiet
    <2>5. \A opt : n + 1 \notin GroupsFor(opt) BY <2>4, SingleGroup
    <2>6. Known(n + 1) /\ i' = i + Len(groups[n + 1]) BY <2>4 DEF Known, TakeQuiet
    <2> QED BY <1>1, <1>2, <2>2, <2>5, <2>6, Passes
  <1> QED BY <1>1, <1>2, LoopGoesOn DEF LoopInv

\* At a word the loop cannot place: the group it starts.
LEMMA OtherGroup ==
    ASSUME LoopInv, TakeOther, NEW start, Starts(groups, start),
           NEW n \in 0..Len(groups), Understood(start, n)
    PROVE  /\ n < Len(groups) /\ n + 1 \in 1..Len(groups)
           /\ Len(groups[n + 1]) \in {1, 2}
           /\ Len(groups[n + 1]) = 2 =>
                groups[n + 1][1].opt \notin Options /\ groups[n + 1][1].opt # "--quiet"
           /\ program = "GCS.Replay" => groups[n + 1][1].opt # "--quiet"
  <1>1. i = start[n] + 1 BY DEF Understood
  <1>2. n < Len(groups) BY <1>1, AtGroup DEF TakeOther, AtOption
  <1>3. /\ n + 1 \in 1..Len(groups) /\ word = groups[n + 1][1]
        /\ Len(groups[n + 1]) = 2 => i < Len(argv)
    BY <1>1, <1>2, AtGroup
  <1>4. /\ Len(groups[n + 1]) \in {1, 2}
        /\ Len(groups[n + 1]) = 2 => groups[n + 1][1].opt \in OptionNames
    BY <1>3, GroupTypes DEF LoopInv
  <1> QED BY <1>2, <1>3, <1>4 DEF TakeOther, HasValue, IsQuiet, OptionNames

LEMMA LoopTakeOther == ASSUME LoopInv, TakeOther PROVE LoopInv'
  <1>1. UNCHANGED <<program, groups, setting>> /\ pc = "options"
    BY DEF TakeOther, AtOption
  <1>2. CASE program = "GCS.Replay"
    <2>1. PICK start : /\ Starts(groups, start)
                       /\ \E n \in 0..Len(groups) : Understood(start, n)
      BY <1>1, <1>2 DEF LoopInv, Aligned
    <2>2. PICK n \in 0..Len(groups) : Understood(start, n) BY <2>1
    <2>3. /\ n + 1 \in 1..Len(groups) /\ Len(groups[n + 1]) \in {1, 2}
          /\ Len(groups[n + 1]) = 2 => groups[n + 1][1].opt \notin Options
          /\ groups[n + 1][1].opt # "--quiet"
      BY <1>2, <2>1, <2>2, OtherGroup
    <2>4. Malformed BY <2>3 DEF Malformed
    <2>5. Malformed' <=> Malformed BY <1>1 DEF Malformed, GroupsFor, Options
    <2>6. pc' = "usage" BY <1>2 DEF TakeOther
    <2> QED BY <1>1, <1>2, <2>4, <2>5, <2>6 DEF LoopInv, UsageIfMalformed, Parsed
  <1>3. CASE program # "GCS.Replay"
    <2>1. ASSUME NEW start, NEW n \in 0..Len(groups), Aligned,
                 Starts(groups, start), Understood(start, n)
          PROVE  n + 1 \in 0..Len(groups) /\ Understood(start, n + 1)'
      <3>1. /\ n < Len(groups) /\ n + 1 \in 1..Len(groups)
            /\ Len(groups[n + 1]) \in {1, 2}
            /\ Len(groups[n + 1]) = 2 => groups[n + 1][1].opt \notin Options
        BY <2>1, OtherGroup
      <3>2. Len(groups[n + 1]) = 1 BY <1>3, <2>1, <3>1 DEF Aligned, OwnOptions
      <3>3. \A opt : n + 1 \notin GroupsFor(opt) BY <3>2, SingleGroup
      <3>4. i' = i + Len(groups[n + 1]) BY <1>3, <3>2 DEF TakeOther
      <3> QED BY <1>1, <1>3, <2>1, <3>1, <3>3, <3>4, Passes
    <2>2. UNCHANGED pc BY <1>3 DEF TakeOther
    <2> QED BY <1>1, <2>1, <2>2, LoopGoesOn DEF LoopInv
  <1> QED BY <1>2, <1>3

\* All groups are understood: the settings are as given.
LEMMA AllGiven ==
    ASSUME LoopInv, NEW start, Understood(start, Len(groups)), NEW opt \in Options
    PROVE  setting[opt] = LastOf(opt, GroupsFor(opt))
  <1>1. Among(opt, Len(groups)) = GroupsFor(opt) BY DEF Among, GroupsFor
  <1>2. setting[opt] = GivenBy(opt, Len(groups)) BY DEF Understood
  <1> QED BY <1>1, <1>2 DEF GivenBy

\* The last value given for an option is a word.
LEMMA ValueIsThere ==
    ASSUME LoopInv, NEW opt, GroupsFor(opt) # {}
    PROVE  LastOf(opt, GroupsFor(opt)) # NoWord
  <1> DEFINE G == GroupsFor(opt)
             last == CHOOSE k \in G : \A j \in G : j <= k
  <1>1. G \subseteq 1..Len(groups) /\ Len(groups) \in Nat
    BY GroupTypes DEF GroupsFor, LoopInv
  <1>2. \E k \in G : \A j \in G : j <= k
    <2> DEFINE N == Len(groups)
    <2>1. G \in SUBSET (1..N) /\ N \in Nat /\ G # {} BY <1>1
    <2> HIDE DEF G, N
    <2> QED BY <2>1, Greatest
  <1>3. last \in G
    <2> HIDE DEF G
    <2> QED BY <1>2
  <1>4. LastOf(opt, G) = groups[last][2]
    <2> HIDE DEF G
    <2> QED BY Zenon DEF LastOf, G
  <1> HIDE DEF last
  <1>5. groups[last][2] # NoWord BY <1>3, GroupTypes DEF GroupsFor, LoopInv
  <1> QED BY <1>4, <1>5

\* A command line whose groups the replay could all place, with a capture, is one it
\* takes; one without a capture is malformed.
LEMMA PlacedIsFormed ==
    ASSUME LoopInv, program = "GCS.Replay",
           NEW start, Understood(start, Len(groups))
    PROVE  Malformed <=> setting["--in"] = NoWord
  <1>1. "--in" \in Options /\ Default["--in"] = NoWord
    BY StartupAssumption DEF Options
  <1>2. setting["--in"] = LastOf("--in", GroupsFor("--in")) BY <1>1, AllGiven
  <1>3. GroupsFor("--in") = {} <=> setting["--in"] = NoWord
    BY <1>1, <1>2, ValueIsThere DEF LastOf
  <1>4. \A k \in 1..Len(groups) : Known(k) BY DEF Understood
  <1> QED BY <1>3, <1>4 DEF Malformed, Known

LEMMA LoopEndOptions == ASSUME LoopInv, EndOptions PROVE LoopInv'
  <1>1. UNCHANGED <<program, groups, i, setting>> /\ pc = "options" BY DEF EndOptions
  <1>2. ASSUME NEW start, NEW n \in 0..Len(groups), Starts(groups, start), Understood(start, n)
        PROVE  n = Len(groups) /\ Understood(start, n)'
    <2>1. ~(i <= Len(argv)) /\ i = start[n] + 1
      <3>1. i = start[n] + 1 BY <1>2 DEF Understood
      <3>2. i \in Nat /\ Len(argv) \in Nat BY <1>2, <3>1, AtGroup
      <3> QED BY <3>1, <3>2 DEF EndOptions
    <2>2. n = Len(groups) BY <1>2, <2>1, AtGroup, GroupTypes DEF LoopInv
    <2>3. Understood(start, n)' <=> Understood(start, n)
      BY <1>1 DEF Understood, GivenBy, LastOf, Among, GroupsFor, Known, Options
    <2> QED BY <1>2, <2>2, <2>3
  <1>3. (Aligned' <=> Aligned) /\ (Malformed' <=> Malformed)
    BY <1>1 DEF Aligned, OwnOptions, Malformed, GroupsFor, Options
  <1>4. ASSUME Aligned
        PROVE  \E start : /\ Starts(groups, start)
                          /\ Understood(start, Len(groups)) /\ Understood(start, Len(groups))'
    BY <1>1, <1>2, <1>4 DEF LoopInv
  <1>5. UsageIfMalformed'
    <2>1. CASE program = "GCS.Replay"
      <3>1. PICK start : Understood(start, Len(groups)) BY <1>4, <2>1 DEF Aligned
      <3>2. Malformed <=> setting["--in"] = NoWord BY <2>1, <3>1, PlacedIsFormed
      <3> QED BY <1>1, <1>3, <2>1, <3>2 DEF EndOptions, UsageIfMalformed, Parsed
    <2>2. CASE program # "GCS.Replay"
      BY <1>1, <2>2 DEF EndOptions, UsageIfMalformed, Parsed
    <2> QED BY <2>1, <2>2
  <1>6. pc' \in {"usage", "addresses"} BY DEF EndOptions
  <1>7. Len(groups) \in 0..Len(groups) BY GroupTypes DEF LoopInv
  <1> QED BY <1>1, <1>3, <1>4, <1>5, <1>6, <1>7 DEF LoopInv

\* Where nothing of the command line is looked at.
LEMMA LoopAside ==
    ASSUME LoopInv, ParseAddresses \/ UNCHANGED vars
    PROVE  LoopInv'
  <1>1. UNCHANGED <<program, groups, i, setting>> BY DEF ParseAddresses, vars
  <1>2. \/ UNCHANGED pc
        \/ pc = "addresses" /\ pc' \in {"started", "refused"}
    BY DEF ParseAddresses, vars
  <1>3. Parsed' <=> Parsed BY <1>2 DEF Parsed
  <1>4. /\ (Aligned' <=> Aligned) /\ (UsageIfMalformed => UsageIfMalformed')
        /\ \A start, n : Understood(start, n)' <=> Understood(start, n)
    BY <1>1, <1>2, <1>3 DEF Aligned, OwnOptions, UsageIfMalformed, Malformed, Understood, GivenBy,
                           LastOf, Among, GroupsFor, Known, Options
  <1>5. ASSUME Aligned, pc # "usage"
        PROVE  \E start : /\ Starts(groups, start)
                          /\ \E n \in 0..Len(groups) : /\ Understood(start, n)'
                                                       /\ Parsed => n = Len(groups)
    BY <1>4, <1>5 DEF LoopInv
  <1> QED BY <1>1, <1>2, <1>3, <1>4, <1>5 DEF LoopInv

LEMMA LoopInvariance == Spec => []LoopInv
  <1>1. LoopInv /\ [Next]_vars => LoopInv'
    BY LoopTakeValue, LoopTakeQuiet, LoopTakeOther, LoopEndOptions, LoopAside DEF Next
  <1> QED BY LoopInit, <1>1, PTL DEF Spec

\* A program that gets past its options has found the groups its user meant, however
\* many there are and however much their values look like options.
THEOREM SettingsAreMeant == Spec => []SettingsAsGiven
  <1>1. LoopInv => SettingsAsGiven
    <2> SUFFICES ASSUME LoopInv, Parsed, OwnOptions, NEW opt \in Options
                 PROVE  setting[opt] = LastOf(opt, GroupsFor(opt))
      BY Zenon DEF SettingsAsGiven, LastOf
    <2>1. PICK start : Understood(start, Len(groups)) BY DEF LoopInv, Aligned, Parsed
    <2> QED BY <2>1, AllGiven
  <1> QED BY <1>1, LoopInvariance, PTL

\* The replay prints its usage for the malformed command lines and for no other.
THEOREM UsageIsDeserved == Spec => []UsageIfMalformed
  <1>1. LoopInv => UsageIfMalformed BY DEF LoopInv
  <1> QED BY <1>1, LoopInvariance, PTL
-----------------------------------------------------------------------------
(***************************************************************************)
(* Numbers as text.  What a user or the log prints is defined here without *)
(* the scanner: runs of digits with one separator after each but the last. *)
(***************************************************************************)
\* The characters from p up to e, which is not one of them, are digits that write n.
Run(text, p, e, base, n) ==
    /\ p < e /\ \A k \in p..(e - 1) : text[k] < base
    /\ \E v \in [p..e -> 0..(UintMod - 1)] :
         /\ v[p] = 0 /\ v[e] = n
         /\ \A k \in p..(e - 1) : v[k + 1] = v[k] * base + text[k]

\* The text is the numbers with separators between them; without numbers it is one
\* that does not begin with a digit.
Spelled(text, sep, base, numbers) ==
    IF numbers = <<>> THEN text = <<>> \/ text[1] >= base
    ELSE \E at \in [0..Len(numbers) -> 0..(Len(text) + 1)] :
           /\ at[0] = 0 /\ at[Len(numbers)] = Len(text) + 1
           /\ \A k \in 1..Len(numbers) :
                /\ Run(text, at[k - 1] + 1, at[k], base, numbers[k])
                /\ k < Len(numbers) => text[at[k]] = sep

\* An unsigned int holds four octets, and more than one of them does.
LEMMA UintIs ==
    /\ OctetMod \in Nat /\ OctetMod >= 16 /\ OctetMod <= 256
    /\ UintMod \in Nat /\ UintMod > 256
  <1>1. OctetMod \in Nat /\ OctetMod >= 16 /\ OctetMod <= 256 BY OctetAssumption
  <1>2. PICK m \in Nat : m = OctetMod BY <1>1
  <1>3. PICK m2 \in Nat : m2 = m * m BY SMT
  <1>4. PICK m3 \in Nat : m3 = m2 * m BY SMT
  <1>5. PICK m4 \in Nat : m4 = m3 * m BY SMT
  <1>6. m2 >= 16 * m BY <1>1, <1>2, <1>3
  <1>7. m3 >= 256 * m
    <2>1. m2 * m >= 256 * m BY <1>1, <1>2, <1>6
    <2> QED BY <1>4, <2>1
  <1>8. m4 >= 256 * m
    <2>1. m3 * m >= 256 * m BY <1>1, <1>2, <1>7
    <2> QED BY <1>5, <2>1
  <1>9. m4 > 256 BY <1>1, <1>2, <1>8
  <1> QED BY <1>1, <1>2, <1>3, <1>4, <1>5, <1>9 DEF UintMod

\* A run of digits ends where the first other character is, and nowhere else.
LEMMA RunEndIs ==
    ASSUME NEW text \in Seq(Nat), NEW base \in Nat, NEW p \in Nat, NEW e \in Nat,
           p > 0, p <= e, e <= Len(text) + 1,
           \A k \in p..(e - 1) : text[k] < base, e <= Len(text) => text[e] >= base
    PROVE  RunEnd(text, p, base) = e
  <1> DEFINE Ends(q) == /\ \A k \in p..(q - 1) : text[k] < base
                        /\ q <= Len(text) => text[q] >= base
  <1>1. Len(text) \in Nat /\ \A k \in 1..Len(text) : text[k] \in Nat
    BY LenProperties, ElementOfSeq
  <1>2. e \in p..(Len(text) + 1) /\ Ends(e) BY <1>1
  <1>3. ASSUME NEW q \in p..(Len(text) + 1), Ends(q) PROVE q = e
    <2>1. CASE q < e
      <3>1. q \in p..(e - 1) /\ q \in 1..Len(text) BY <1>1, <2>1
      <3>2. text[q] < base /\ text[q] >= base /\ text[q] \in Nat BY <1>1, <1>3, <3>1
      <3> QED BY <3>2
    <2>2. CASE e < q
      <3>1. e \in p..(q - 1) /\ e \in 1..Len(text) BY <1>1, <2>2
      <3>2. text[e] < base /\ text[e] >= base /\ text[e] \in Nat BY <1>1, <1>3, <3>1
      <3> QED BY <3>2
    <2> QED BY <1>1, <2>1, <2>2
  <1>4. RunEnd(text, p, base) = CHOOSE q \in p..(Len(text) + 1) : Ends(q) BY DEF RunEnd
  <1> HIDE DEF Ends
  <1> QED BY <1>2, <1>3, <1>4

\* The recursive value of a run is the number it writes.
LEMMA NumberIs ==
    ASSUME NEW text \in Seq(Nat), NEW base \in Nat, NEW p \in Nat, NEW e \in Nat, NEW n,
           Run(text, p, e, base, n), RunEnd(text, p, base) = e
    PROVE  NumberAt(text, p, base) = n
  <1>1. PICK v \in [p..e -> 0..(UintMod - 1)] :
          /\ v[p] = 0 /\ v[e] = n
          /\ \A k \in p..(e - 1) : v[k + 1] = v[k] * base + text[k]
    BY DEF Run
  <1> DEFINE Next1(f, k) == IF k = p THEN 0 ELSE (f[k - 1] * base + text[k - 1]) % UintMod
             P(f) == f = [k \in p..e |-> Next1(f, k)]
             value == CHOOSE f : P(f)
             S == {j \in Nat : p + j <= e => value[p + j] = v[p + j]}
  <1>2. ASSUME NEW k \in p..e PROVE v[k] = Next1(v, k)
    <2>1. CASE k = p BY <1>1, <2>1
    <2>2. CASE k # p
      <3>1. k - 1 \in p..(e - 1) /\ (k - 1) + 1 = k BY <2>2
      <3>2. v[k] = v[k - 1] * base + text[k - 1] BY <1>1, <3>1
      <3>3. v[k] \in 0..(UintMod - 1) /\ UintMod \in Nat /\ UintMod > 256
        BY <1>1, UintIs
      <3>4. v[k] % UintMod = v[k]
        <4>1. v[k] \in Nat /\ v[k] < UintMod BY <3>3
        <4> QED BY <3>3, <4>1, ModSmall
      <3> QED BY <2>2, <3>2, <3>4
    <2> QED BY <2>1, <2>2
  <1>3. P(v) BY <1>1, <1>2
  <1>4. P(value)
    <2> HIDE DEF P
    <2> QED BY <1>3
  <1>5. \A k \in p..e : value[k] = Next1(value, k)
    <2> HIDE DEF value
    <2> QED BY <1>4
  <1> HIDE DEF value
  <1>6. 0 \in S
    <2>1. p \in p..e BY DEF Run
    <2> QED BY <1>1, <1>5, <2>1
  <1>7. ASSUME NEW j \in S PROVE j + 1 \in S
    <2> SUFFICES ASSUME p + (j + 1) <= e PROVE value[p + (j + 1)] = v[p + (j + 1)] OBVIOUS
    <2>1. /\ p + (j + 1) \in p..e /\ p + (j + 1) # p /\ (p + (j + 1)) - 1 = p + j
          /\ p + j <= e
      OBVIOUS
    <2>2. value[p + j] = v[p + j] BY <2>1
    <2>3. value[p + (j + 1)] = Next1(value, p + (j + 1)) BY <1>5, <2>1
    <2>4. v[p + (j + 1)] = Next1(v, p + (j + 1)) BY <1>2, <2>1
    <2> QED BY <2>1, <2>2, <2>3, <2>4
  <1>8. S = Nat
    <2> HIDE DEF S
    <2>1. S \in SUBSET Nat BY DEF S
    <2> QED BY <1>6, <1>7, <2>1, Induction
  <1>9. value[e] = n
    <2> HIDE DEF S
    <2>1. e - p \in Nat /\ p + (e - p) = e BY DEF Run
    <2>2. e - p \in S => (p + (e - p) <= e => value[p + (e - p)] = v[p + (e - p)])
      BY Zenon DEF S
    <2> QED BY <1>1, <1>8, <2>1, <2>2
  <1>10. NumberAt(text, p, base) = value[e] BY Zenon DEF NumberAt, value
  <1> QED BY <1>9, <1>10

\* Where the scanner looks for the k-th number, as Scan defines it.
Found(text, base, p) == p > 0 /\ RunEnd(text, p, base) > p

StartAfter(text, sep, base, p) ==
    IF Found(text, base, p) /\ RunEnd(text, p, base) <= Len(text)
         /\ text[RunEnd(text, p, base)] = sep
    THEN RunEnd(text, p, base) + 1 ELSE 0

\* The scanner's starts are the only ones that follow from each other.
LEMMA ScanBy ==
    ASSUME NEW text, NEW sep, NEW base, NEW n \in Nat, n > 0, NEW w,
           w = [k \in 1..n |-> w[k]], w[1] = 1,
           \A k \in 1..n : k > 1 => w[k] = StartAfter(text, sep, base, w[k - 1])
    PROVE  Scan(text, sep, base, n) =
             IF Found(text, base, w[n]) THEN [k \in 1..n |-> NumberAt(text, w[k], base)]
             ELSE <<>>
  <1> DEFINE After(p) == StartAfter(text, sep, base, p)
             P(f) == f = [k \in 1..n |-> IF k = 1 THEN 1 ELSE After(f[k - 1])]
             start == CHOOSE f : P(f)
             S == {j \in Nat : j + 1 <= n => start[j + 1] = w[j + 1]}
  <1>1. P(w)
    <2> HIDE DEF After
    <2>1. \A k \in 1..n : w[k] = IF k = 1 THEN 1 ELSE After(w[k - 1]) BY DEF After
    <2> DEFINE u == [k \in 1..n |-> w[k]]
    <2>2. u = [k \in 1..n |-> IF k = 1 THEN 1 ELSE After(w[k - 1])] BY <2>1
    <2> HIDE DEF u
    <2>3. w = u BY DEF u
    <2> QED BY <2>2, <2>3
  <1>2. P(start)
    <2> HIDE DEF P
    <2> QED BY <1>1
  <1>3. \A k \in 1..n : start[k] = IF k = 1 THEN 1 ELSE After(start[k - 1])
    <2> HIDE DEF start, After
    <2> QED BY <1>2
  <1>4. Scan(text, sep, base, n) =
          IF Found(text, base, start[n]) THEN [k \in 1..n |-> NumberAt(text, start[k], base)]
          ELSE <<>>
    BY Zenon DEF Scan, Found, StartAfter, start
  <1> HIDE DEF start, After
  <1>5. 0 \in S BY <1>3
  <1>6. ASSUME NEW j \in S PROVE j + 1 \in S
    <2> SUFFICES ASSUME (j + 1) + 1 <= n PROVE start[(j + 1) + 1] = w[(j + 1) + 1] OBVIOUS
    <2> DEFINE k == (j + 1) + 1
    <2>1. k \in 1..n /\ k # 1 /\ k > 1 /\ k - 1 = j + 1 /\ j + 1 <= n OBVIOUS
    <2>2. start[j + 1] = w[j + 1] BY <2>1
    <2> HIDE DEF k
    <2>3. start[k] = After(start[j + 1]) /\ w[k] = After(w[j + 1])
      BY <1>3, <2>1 DEF After
    <2> QED BY <2>2, <2>3 DEF k
  <1>7. S = Nat
    <2> HIDE DEF S
    <2>1. S \in SUBSET Nat BY DEF S
    <2> QED BY <1>5, <1>6, <2>1, Induction
  <1>8. ASSUME NEW k \in 1..n PROVE start[k] = w[k]
    <2>1. k - 1 \in Nat /\ (k - 1) + 1 = k /\ (k - 1) + 1 <= n OBVIOUS
    <2>2. k - 1 \in S => start[(k - 1) + 1] = w[(k - 1) + 1] BY <2>1
    <2> HIDE DEF S
    <2> QED BY <1>7, <2>1, <2>2
  <1> HIDE DEF S
  <1>9. n \in 1..n OBVIOUS
  <1> QED BY <1>4, <1>8, <1>9

\* The scanner reads the numbers that are spelled, if they are as many as it asks for.
LEMMA ScanIs ==
    ASSUME NEW text \in Seq(Nat), NEW base \in Nat, NEW sep \in Nat, sep >= base,
           NEW n \in Nat, n > 0, NEW numbers \in Seq(Nat), Len(numbers) <= n,
           Spelled(text, sep, base, numbers)
    PROVE  Scan(text, sep, base, n) = IF Len(numbers) = n THEN numbers ELSE <<>>
  <1>1. Len(text) \in Nat /\ Len(numbers) \in Nat BY LenProperties
  <1>2. CASE numbers = <<>>
    <2> DEFINE w == [k \in 1..n |-> IF k = 1 THEN 1 ELSE 0]
    <2>1. RunEnd(text, 1, base) = 1
      <3>1. 1 <= Len(text) => text[1] >= base BY <1>2 DEF Spelled
      <3> QED BY <1>1, <3>1, RunEndIs
    <2>2. \A p \in {0, 1} : ~Found(text, base, p) BY <2>1 DEF Found
    <2>3. \A k \in 1..n : w[k] \in {0, 1} /\ (k > 1 => w[k] = 0) OBVIOUS
    <2>4. w[1] = 1 /\ w = [k \in 1..n |-> w[k]] /\ n \in 1..n OBVIOUS
    <2> HIDE DEF w
    <2>5. \A k \in 1..n : k > 1 => w[k] = StartAfter(text, sep, base, w[k - 1])
      BY <2>2, <2>3 DEF StartAfter
    <2>6. Scan(text, sep, base, n) = <<>> BY <2>2, <2>3, <2>4, <2>5, ScanBy
    <2> QED BY <1>2, <2>6
  <1>3. CASE numbers # <<>>
    <2> DEFINE m == Len(numbers)
    <2>1. m \in Nat /\ m > 0 /\ m <= n BY <1>1, <1>3
    <2>2. PICK at \in [0..m -> 0..(Len(text) + 1)] :
            /\ at[0] = 0 /\ at[m] = Len(text) + 1
            /\ \A k \in 1..m : /\ Run(text, at[k - 1] + 1, at[k], base, numbers[k])
                               /\ k < m => text[at[k]] = sep
      BY <1>3, Zenon DEF Spelled
    <2> HIDE DEF m
    <2>3. ASSUME NEW k \in 1..m
          PROVE  /\ at[k - 1] + 1 \in Nat /\ at[k] \in Nat /\ at[k - 1] + 1 > 0
                 /\ at[k - 1] + 1 < at[k] /\ at[k] <= Len(text) + 1
                 /\ at[k] <= Len(text) <=> k < m
                 /\ RunEnd(text, at[k - 1] + 1, base) = at[k]
                 /\ NumberAt(text, at[k - 1] + 1, base) = numbers[k]
      <3>1. at[k - 1] \in 0..(Len(text) + 1) /\ at[k] \in 0..(Len(text) + 1)
        BY <2>1, <2>2
      <3>2. /\ Run(text, at[k - 1] + 1, at[k], base, numbers[k])
            /\ k < m => text[at[k]] = sep
        BY <2>2
      <3>3. at[k - 1] + 1 < at[k] /\ \A j \in (at[k - 1] + 1)..(at[k] - 1) : text[j] < base
        BY <3>2, Zenon DEF Run
      <3>4. at[k] <= Len(text) <=> k < m
        <4>1. CASE k = m BY <1>1, <2>2, <4>1
        <4>2. CASE k < m
          <5>1. k + 1 \in 1..m /\ (k + 1) - 1 = k /\ k + 1 \in 0..m BY <2>1, <4>2
          <5>2. at[k] + 1 < at[k + 1] BY <2>2, <5>1, Zenon DEF Run
          <5>3. at[k + 1] \in 0..(Len(text) + 1) BY <2>2, <5>1
          <5> QED BY <1>1, <3>1, <4>2, <5>2, <5>3
        <4> QED BY <2>1, <4>1, <4>2
      <3>5. at[k] <= Len(text) => text[at[k]] >= base BY <3>2, <3>4
      <3>6. /\ at[k - 1] + 1 \in Nat /\ at[k] \in Nat /\ at[k - 1] + 1 > 0
            /\ at[k - 1] + 1 <= at[k] /\ at[k] <= Len(text) + 1
        BY <1>1, <3>1, <3>3
      <3>7. RunEnd(text, at[k - 1] + 1, base) = at[k] BY <3>3, <3>5, <3>6, RunEndIs
      <3>8. NumberAt(text, at[k - 1] + 1, base) = numbers[k] BY <3>2, <3>6, <3>7, NumberIs
      <3> QED BY <3>3, <3>4, <3>6, <3>7, <3>8
    <2> DEFINE w == [k \in 1..n |-> IF k <= m THEN at[k - 1] + 1 ELSE 0]
    <2>4. w[1] = 1 /\ w = [k \in 1..n |-> w[k]] BY <2>1, <2>2
    <2>5. /\ \A k \in 1..m : w[k] = at[k - 1] + 1
          /\ \A k \in 1..n : k > m => w[k] = 0
      BY <2>1
    <2> HIDE DEF w
    <2>6. ASSUME NEW k \in 1..n, k > 1
          PROVE  w[k] = StartAfter(text, sep, base, w[k - 1])
      <3>1. CASE k <= m
        <4>1. k - 1 \in 1..m /\ k - 1 < m /\ k \in 1..m BY <2>1, <2>6, <3>1
        <4>2. w[k] = at[k - 1] + 1 /\ w[k - 1] = at[(k - 1) - 1] + 1 BY <2>5, <4>1
        <4>3. /\ RunEnd(text, w[k - 1], base) = at[k - 1] /\ w[k - 1] > 0
              /\ w[k - 1] < at[k - 1] /\ at[k - 1] <= Len(text)
              /\ w[k - 1] \in Nat /\ at[k - 1] \in Nat
          BY <2>3, <4>1, <4>2
        <4>4. text[at[k - 1]] = sep BY <2>2, <4>1
        <4>5. Found(text, base, w[k - 1]) BY <4>3 DEF Found
        <4> QED BY <4>2, <4>3, <4>4, <4>5 DEF StartAfter
      <3>2. CASE k = m + 1
        <4>1. k - 1 = m /\ m \in 1..m /\ k > m BY <2>1, <3>2
        <4>2. w[k] = 0 /\ w[k - 1] = at[m - 1] + 1 BY <2>5, <4>1
        <4>3. RunEnd(text, w[k - 1], base) = at[m] /\ ~(at[m] <= Len(text))
          BY <2>3, <4>1, <4>2
        <4> QED BY <4>2, <4>3 DEF StartAfter
      <3>3. CASE k > m + 1
        <4>1. k - 1 \in 1..n /\ k - 1 > m /\ k > m BY <2>1, <2>6, <3>3
        <4>2. w[k] = 0 /\ w[k - 1] = 0 BY <2>5, <4>1
        <4> QED BY <4>2 DEF StartAfter, Found
      <3> QED BY <2>1, <3>1, <3>2, <3>3
    <2>7. Scan(text, sep, base, n) =
            IF Found(text, base, w[n]) THEN [k \in 1..n |-> NumberAt(text, w[k], base)]
            ELSE <<>>
      BY <2>4, <2>6, ScanBy
    <2>8. CASE m = n
      <3>1. n \in 1..m BY <2>1, <2>8
      <3>2. w[n] = at[n - 1] + 1 BY <2>5, <3>1
      <3>3. RunEnd(text, w[n], base) = at[n] /\ w[n] < at[n] /\ w[n] > 0
            /\ w[n] \in Nat /\ at[n] \in Nat
        BY <2>3, <3>1, <3>2
      <3>4. Found(text, base, w[n]) BY <3>3 DEF Found
      <3>5. \A k \in 1..n : NumberAt(text, w[k], base) = numbers[k] BY <2>3, <2>5, <2>8
      <3>6. numbers = [k \in 1..n |-> numbers[k]] BY <2>8 DEF m
      <3>7. numbers = [k \in 1..n |-> NumberAt(text, w[k], base)]
        <4> DEFINE u == [k \in 1..n |-> numbers[k]]
        <4>1. u = [k \in 1..n |-> NumberAt(text, w[k], base)] BY <3>5
        <4> HIDE DEF u
        <4>2. numbers = u BY <3>6 DEF u
        <4> QED BY <4>1, <4>2
      <3> QED BY <2>7, <2>8, <3>4, <3>7 DEF m
    <2>9. CASE m # n
      <3>1. n \in 1..n /\ n > m BY <2>1, <2>9
      <3>2. w[n] = 0 BY <2>5, <3>1
      <3>3. ~Found(text, base, w[n]) BY <3>2 DEF Found
      <3> QED BY <2>7, <2>9, <3>3 DEF m
    <2> QED BY <2>8, <2>9
  <1> QED BY <1>2, <1>3

\* A single run.
LEMMA SpelledOne ==
    ASSUME NEW part \in Seq(Nat), NEW sep, NEW base, NEW n,
           Run(part, 1, Len(part) + 1, base, n)
    PROVE  Spelled(part, sep, base, <<n>>)
  <1> DEFINE at == [k \in 0..1 |-> IF k = 0 THEN 0 ELSE Len(part) + 1]
  <1>1. Len(part) \in Nat BY LenProperties
  <1>2. at \in [0..1 -> 0..(Len(part) + 1)] /\ at[0] = 0 /\ at[1] = Len(part) + 1 BY <1>1
  <1> HIDE DEF at
  <1>3. at[1 - 1] + 1 = 1 BY <1>2
  <1>4. Run(part, at[1 - 1] + 1, at[1], base, n) BY <1>2, <1>3
  <1>5. Len(<<n>>) = 1 /\ <<n>> # <<>> /\ <<n>>[1] = n OBVIOUS
  <1> QED BY <1>2, <1>4, <1>5 DEF Spelled

\* A run stays one where it is in a longer text.
LEMMA RunMoves ==
    ASSUME NEW text \in Seq(Nat), NEW other \in Seq(Nat), NEW p \in Nat, NEW e \in Nat,
           NEW d \in Nat, NEW base, NEW n, Run(text, p, e, base, n),
           \A k \in p..(e - 1) : other[k + d] = text[k]
    PROVE  Run(other, p + d, e + d, base, n)
  <1>1. PICK v \in [p..e -> 0..(UintMod - 1)] :
          /\ v[p] = 0 /\ v[e] = n
          /\ \A k \in p..(e - 1) : v[k + 1] = v[k] * base + text[k]
    BY DEF Run
  <1> DEFINE u == [k \in (p + d)..(e + d) |-> v[k - d]]
  <1>2. p < e /\ \A k \in p..(e - 1) : text[k] < base BY DEF Run
  <1>3. u \in [(p + d)..(e + d) -> 0..(UintMod - 1)]
    <2>1. \A k \in (p + d)..(e + d) : k - d \in p..e OBVIOUS
    <2>2. \A k \in p..e : v[k] \in 0..(UintMod - 1) BY <1>1
    <2> QED BY <2>1, <2>2
  <1>4. u[p + d] = 0 /\ u[e + d] = n
    <2>1. /\ p + d \in (p + d)..(e + d) /\ e + d \in (p + d)..(e + d)
          /\ (p + d) - d = p /\ (e + d) - d = e
      BY <1>2
    <2> QED BY <1>1, <2>1
  <1>5. ASSUME NEW k \in (p + d)..((e + d) - 1)
        PROVE  other[k] < base /\ u[k + 1] = u[k] * base + other[k]
    <2>1. /\ k - d \in p..(e - 1) /\ (k - d) + d = k /\ (k + 1) - d = (k - d) + 1
          /\ k \in (p + d)..(e + d) /\ k + 1 \in (p + d)..(e + d)
      OBVIOUS
    <2>2. other[k] = text[k - d] BY <2>1
    <2>3. u[k] = v[k - d] /\ u[k + 1] = v[(k - d) + 1] BY <2>1
    <2> HIDE DEF u
    <2> QED BY <1>1, <1>2, <2>1, <2>2, <2>3
  <1> HIDE DEF u
  <1>6. p + d < e + d BY <1>2
  <1> QED BY <1>3, <1>4, <1>5, <1>6 DEF Run

\* One more run after a separator.
LEMMA SpelledMore ==
    ASSUME NEW text \in Seq(Nat), NEW sep \in Nat, NEW base, NEW numbers \in Seq(Nat),
           numbers # <<>>, Spelled(text, sep, base, numbers),
           NEW part \in Seq(Nat), NEW n \in Nat, Run(part, 1, Len(part) + 1, base, n)
    PROVE  Spelled(text \o <<sep>> \o part, sep, base, Append(numbers, n))
  <1> DEFINE m == Len(numbers)
             a == Len(text)
             b == Len(part)
             long == text \o <<sep>> \o part
             more == Append(numbers, n)
  <1>1. m \in Nat /\ m > 0 /\ a \in Nat /\ b \in Nat BY LenProperties
  <1>2. /\ Len(more) = m + 1 /\ more # <<>> /\ more[m + 1] = n
        /\ \A k \in 1..m : more[k] = numbers[k]
    <2>1. /\ more \in Seq(Nat) /\ Len(more) = m + 1 /\ more[m + 1] = n
          /\ \A k \in 1..m : more[k] = numbers[k]
      BY AppendProperties
    <2>2. Len(<<>>) = 0 /\ m + 1 # 0 BY <1>1
    <2> HIDE DEF more, m
    <2> QED BY <2>1, <2>2
  <1>3. /\ long \in Seq(Nat) /\ Len(long) = (a + 1) + b /\ long[a + 1] = sep
        /\ \A k \in 1..a : long[k] = text[k]
        /\ \A k \in 1..b : long[k + (a + 1)] = part[k]
    OBVIOUS
  <1>4. PICK at \in [0..m -> 0..(a + 1)] :
          /\ at[0] = 0 /\ at[m] = a + 1
          /\ \A k \in 1..m : /\ Run(text, at[k - 1] + 1, at[k], base, numbers[k])
                             /\ k < m => text[at[k]] = sep
    BY <1>1, Zenon DEF Spelled
  <1> HIDE DEF m, a, b, long, more
  <1> DEFINE to == [k \in 0..(m + 1) |-> IF k <= m THEN at[k] ELSE ((a + 1) + b) + 1]
  <1>5. /\ to \in [0..(m + 1) -> 0..(((a + 1) + b) + 1)]
        /\ to[0] = 0 /\ to[m + 1] = ((a + 1) + b) + 1
        /\ \A k \in 0..m : to[k] = at[k]
    <2> DEFINE c == ((a + 1) + b) + 1
    <2>1. c \in Nat /\ c >= a + 1 /\ 0 \in 0..m /\ m + 1 \in 0..(m + 1) /\ ~(m + 1 <= m)
      BY <1>1
    <2>2. \A k \in 0..m : at[k] \in 0..(a + 1) BY <1>4
    <2> HIDE DEF c
    <2>3. \A k \in 0..m : at[k] \in 0..c BY <1>1, <2>1, <2>2
    <2>4. to = [k \in 0..(m + 1) |-> IF k <= m THEN at[k] ELSE c] BY DEF c
    <2> HIDE DEF to
    <2>5. \A k \in 0..m : k \in 0..(m + 1) /\ k <= m BY <1>1
    <2>6. \A k \in 0..m : to[k] = at[k] BY <2>4, <2>5
    <2>7. to[m + 1] = c BY <2>1, <2>4
    <2>8. to \in [0..(m + 1) -> 0..c]
      <3>1. \A k \in 0..(m + 1) : k \in 0..m \/ k = m + 1 BY <1>1
      <3>2. ASSUME NEW k \in 0..(m + 1) PROVE to[k] \in 0..c
        <4>1. CASE k \in 0..m BY <2>3, <2>6, <4>1
        <4>2. CASE k = m + 1 BY <2>1, <2>7, <4>2
        <4> QED BY <3>1, <4>1, <4>2
      <3> QED BY <2>4, <3>2
    <2> QED BY <1>4, <2>1, <2>6, <2>7, <2>8 DEF c
  <1> HIDE DEF to
  <1>6. ASSUME NEW k \in 1..m
        PROVE  Run(long, to[k - 1] + 1, to[k], base, more[k]) /\ long[to[k]] = sep
    <2>1. k - 1 \in 0..m /\ k \in 0..m BY <1>1
    <2>2. to[k - 1] = at[k - 1] /\ to[k] = at[k] BY <1>5, <2>1
    <2>3. at[k - 1] \in 0..(a + 1) /\ at[k] \in 0..(a + 1) BY <1>4, <2>1
    <2>4. Run(text, at[k - 1] + 1, at[k], base, numbers[k]) BY <1>4
    <2>5. ASSUME NEW j \in (at[k - 1] + 1)..(at[k] - 1) PROVE long[j + 0] = text[j]
      <3> DEFINE x == at[k - 1]
                 y == at[k]
      <3>1. x \in 0..(a + 1) /\ y \in 0..(a + 1) /\ j \in (x + 1)..(y - 1) /\ a \in Nat
        BY <1>1, <2>3
      <3> HIDE DEF x, y
      <3>2. j + 0 = j /\ j \in 1..a BY ONLY <3>1
      <3> QED BY <1>3, <3>2
    <2>6. Run(long, (at[k - 1] + 1) + 0, at[k] + 0, base, numbers[k])
      <3>1. at[k - 1] + 1 \in Nat /\ at[k] \in Nat BY <1>1, <2>3
      <3> QED BY <1>3, <2>4, <2>5, <3>1, RunMoves
    <2>7. (at[k - 1] + 1) + 0 = at[k - 1] + 1 /\ at[k] + 0 = at[k] BY <1>1, <2>3
    <2>8. long[at[k]] = sep
      <3>1. CASE k = m BY <1>3, <1>4, <3>1
      <3>2. CASE k < m
        <4>1. k + 1 \in 1..m /\ (k + 1) - 1 = k /\ k + 1 \in 0..m BY <1>1, <3>2
        <4>2. at[k] + 1 < at[k + 1] BY <1>4, <4>1, Zenon DEF Run
        <4>3. at[k + 1] \in 0..(a + 1) BY <1>4, <4>1
        <4>4. at[k - 1] + 1 < at[k] BY <2>4, Zenon DEF Run
        <4>5. at[k] \in 1..a
          <5> DEFINE x == at[k - 1]
                     y == at[k]
                     z == at[k + 1]
          <5>1. x \in Nat /\ y \in Nat /\ z \in Nat /\ z <= a + 1 /\ x + 1 < y /\ y + 1 < z
            BY <1>1, <2>3, <4>2, <4>3, <4>4
          <5> HIDE DEF x, y, z
          <5>2. y \in 1..a BY <1>1, <5>1
          <5> QED BY <5>2 DEF y
        <4> QED BY <1>3, <1>4, <3>2, <4>5
      <3> QED BY <1>1, <3>1, <3>2
    <2> QED BY <1>2, <2>2, <2>6, <2>7, <2>8
  <1>7. Run(long, to[(m + 1) - 1] + 1, to[m + 1], base, more[m + 1])
    <2>1. \A k \in 1..((b + 1) - 1) : long[k + (a + 1)] = part[k] BY <1>1, <1>3
    <2>2. Run(long, 1 + (a + 1), (b + 1) + (a + 1), base, n)
      <3>1. 1 \in Nat /\ b + 1 \in Nat /\ a + 1 \in Nat BY <1>1
      <3>2. Run(part, 1, b + 1, base, n) BY DEF b
      <3> QED BY <1>3, <2>1, <3>1, <3>2, RunMoves
    <2>3. (m + 1) - 1 = m /\ m \in 0..m BY <1>1
    <2>4. to[(m + 1) - 1] = a + 1 BY <1>4, <1>5, <2>3
    <2>5. 1 + (a + 1) = (a + 1) + 1 /\ (b + 1) + (a + 1) = ((a + 1) + b) + 1 BY <1>1
    <2> QED BY <1>2, <1>5, <2>2, <2>4, <2>5
  <1>8. /\ to \in [0..Len(more) -> 0..(Len(long) + 1)] /\ to[0] = 0
        /\ to[Len(more)] = Len(long) + 1
    BY <1>2, <1>3, <1>5
  <1>9. ASSUME NEW k \in 1..Len(more)
        PROVE  /\ Run(long, to[k - 1] + 1, to[k], base, more[k])
               /\ k < Len(more) => long[to[k]] = sep
    <2>1. CASE k \in 1..m BY <1>6, <2>1
    <2>2. CASE k = m + 1 BY <1>1, <1>2, <1>7, <2>2
    <2> QED BY <1>1, <1>2, <2>1, <2>2
  <1>10. Spelled(long, sep, base, more) BY <1>2, <1>8, <1>9 DEF Spelled
  <1> QED BY <1>10 DEF long, more
-----------------------------------------------------------------------------
(***************************************************************************)
(* The printed addresses.                                                  *)
(***************************************************************************)
\* Digits in a row.
LEMMA InARow ==
    ASSUME NEW a \in Nat, NEW b \in Nat, NEW c \in Nat
    PROVE  /\ <<>> \o <<>> \o <<a>> = <<a>> /\ <<>> \o <<a>> \o <<b>> = <<a, b>>
           /\ <<a>> \o <<b>> \o <<c>> = <<a, b, c>>
  <1>1. <<a>> \o <<b>> = <<a, b>>
    <2> DEFINE s == <<a>> \o <<b>>
    <2>1. <<a>> \in Seq(Nat) /\ <<b>> \in Seq(Nat) /\ <<a, b>> \in Seq(Nat) OBVIOUS
    <2>2. Len(<<a>>) = 1 /\ Len(<<b>>) = 1 /\ Len(<<a, b>>) = 2 OBVIOUS
    <2>3. /\ s \in Seq(Nat) /\ Len(s) = 2
          /\ \A k \in 1..1 : s[k] = <<a>>[k]
          /\ \A k \in 1..1 : s[1 + k] = <<b>>[k]
      BY <2>1, <2>2, Concat
    <2> HIDE DEF s
    <2>4. \A k \in 1..2 : s[k] = <<a, b>>[k]
      <3>1. s[1 + 1] = <<b>>[1] BY <2>3
      <3> QED BY <2>3, <3>1
    <2>5. s = <<a, b>> BY <2>1, <2>2, <2>3, <2>4, SeqEqual
    <2> QED BY <2>5 DEF s
  <1>2. <<a, b>> \o <<c>> = <<a, b, c>>
    <2> DEFINE s == <<a, b>> \o <<c>>
    <2>1. <<a, b>> \in Seq(Nat) /\ <<c>> \in Seq(Nat) /\ <<a, b, c>> \in Seq(Nat) OBVIOUS
    <2>2. Len(<<a, b>>) = 2 /\ Len(<<c>>) = 1 /\ Len(<<a, b, c>>) = 3 OBVIOUS
    <2>3. /\ s \in Seq(Nat) /\ Len(s) = 3
          /\ \A k \in 1..2 : s[k] = <<a, b>>[k]
          /\ \A k \in 1..1 : s[2 + k] = <<c>>[k]
      BY <2>1, <2>2, Concat
    <2> HIDE DEF s
    <2>4. \A k \in 1..3 : s[k] = <<a, b, c>>[k]
      <3>1. s[2 + 1] = <<c>>[1] BY <2>3
      <3> QED BY <2>3, <3>1
    <2>5. s = <<a, b, c>> BY <2>1, <2>2, <2>3, <2>4, SeqEqual
    <2> QED BY <2>5 DEF s
  <1>3. <<>> \o <<>> = <<>> /\ <<>> \o <<a>> = <<a>> OBVIOUS
  <1> QED BY <1>1, <1>2, <1>3

\* %u of an octet.
LEMMA DecimalRun ==
    ASSUME NEW n \in 0..255
    PROVE  /\ Decimal(n) \in Seq(Nat) /\ Len(Decimal(n)) <= 3
           /\ Run(Decimal(n), 1, Len(Decimal(n)) + 1, 10, n)
  <1> DEFINE h == n \div 100
             t == (n \div 10) % 10
             o == n % 10
  <1>1. /\ h \in 0..2 /\ t \in 0..9 /\ o \in 0..9
        /\ n \div 10 = h * 10 + t /\ n = (h * 10 + t) * 10 + o
    BY SMT
  <1>2. UintMod \in Nat /\ UintMod > 256 BY UintIs
  <1>3. Decimal(n) = (IF n >= 100 THEN <<h>> ELSE <<>>)
                       \o (IF n >= 10 THEN <<t>> ELSE <<>>) \o <<o>>
    BY DEF Decimal
  <1> HIDE DEF h, t, o
  <1>4. CASE n >= 100
    <2> DEFINE v == [k \in 1..4 |-> IF k = 1 THEN 0 ELSE IF k = 2 THEN h
                                    ELSE IF k = 3 THEN h * 10 + t ELSE n]
    <2>1. Decimal(n) = <<h, t, o>>
      <3>1. n >= 100 /\ n >= 10 BY <1>4
      <3>2. Decimal(n) = <<h>> \o <<t>> \o <<o>> BY <1>3, <3>1, Zenon
      <3>3. h \in Nat /\ t \in Nat /\ o \in Nat BY <1>1
      <3>4. <<h>> \o <<t>> \o <<o>> = <<h, t, o>> BY <3>3, InARow
      <3> QED BY <3>2, <3>4
    <2>2. v \in [1..(3 + 1) -> 0..(UintMod - 1)] BY <1>1, <1>2
    <2>3. v[1] = 0 /\ v[2] = h /\ v[3] = h * 10 + t /\ v[4] = n OBVIOUS
    <2> HIDE DEF v
    <2>4. \A k \in 1..((3 + 1) - 1) :
            <<h, t, o>>[k] < 10 /\ v[k + 1] = v[k] * 10 + <<h, t, o>>[k]
      BY <1>1, <2>3
    <2>5. Run(<<h, t, o>>, 1, 3 + 1, 10, n) BY <2>2, <2>3, <2>4 DEF Run
    <2>6. <<h, t, o>> \in Seq(Nat) /\ Len(<<h, t, o>>) = 3 BY <1>1
    <2> QED BY <2>1, <2>5, <2>6
  <1>5. CASE n < 100 /\ n >= 10
    <2> DEFINE v == [k \in 1..3 |-> IF k = 1 THEN 0 ELSE IF k = 2 THEN t ELSE n]
    <2>1. Decimal(n) = <<t, o>>
      <3>1. ~(n >= 100) /\ n >= 10 BY <1>5
      <3>2. Decimal(n) = <<>> \o <<t>> \o <<o>> BY <1>3, <3>1, Zenon
      <3>3. h \in Nat /\ t \in Nat /\ o \in Nat BY <1>1
      <3>4. <<>> \o <<t>> \o <<o>> = <<t, o>> BY <3>3, InARow
      <3> QED BY <3>2, <3>4
    <2>2. h = 0 BY <1>1, <1>5
    <2>3. v \in [1..(2 + 1) -> 0..(UintMod - 1)] BY <1>1, <1>2
    <2>4. v[1] = 0 /\ v[2] = t /\ v[3] = n OBVIOUS
    <2> HIDE DEF v
    <2>5. \A k \in 1..((2 + 1) - 1) :
            <<t, o>>[k] < 10 /\ v[k + 1] = v[k] * 10 + <<t, o>>[k]
      BY <1>1, <2>2, <2>4
    <2>6. Run(<<t, o>>, 1, 2 + 1, 10, n) BY <2>3, <2>4, <2>5 DEF Run
    <2>7. <<t, o>> \in Seq(Nat) /\ Len(<<t, o>>) = 2 BY <1>1
    <2> QED BY <2>1, <2>6, <2>7
  <1>6. CASE n < 10
    <2> DEFINE v == [k \in 1..2 |-> IF k = 1 THEN 0 ELSE n]
    <2>1. Decimal(n) = <<o>>
      <3>1. ~(n >= 100) /\ ~(n >= 10) BY <1>6
      <3>2. Decimal(n) = <<>> \o <<>> \o <<o>> BY <1>3, <3>1, Zenon
      <3>3. h \in Nat /\ t \in Nat /\ o \in Nat BY <1>1
      <3>4. <<>> \o <<>> \o <<o>> = <<o>> BY <3>3, InARow
      <3> QED BY <3>2, <3>4
    <2>2. h = 0 /\ t = 0 BY <1>1, <1>6
    <2>3. v \in [1..(1 + 1) -> 0..(UintMod - 1)] BY <1>1, <1>2
    <2>4. v[1] = 0 /\ v[2] = n OBVIOUS
    <2> HIDE DEF v
    <2>5. \A k \in 1..((1 + 1) - 1) : <<o>>[k] < 10 /\ v[k + 1] = v[k] * 10 + <<o>>[k]
      BY <1>1, <2>2, <2>4
    <2>6. Run(<<o>>, 1, 1 + 1, 10, n) BY <2>3, <2>4, <2>5 DEF Run
    <2>7. <<o>> \in Seq(Nat) /\ Len(<<o>>) = 1 BY <1>1
    <2> QED BY <2>1, <2>6, <2>7
  <1> QED BY <1>4, <1>5, <1>6

\* %02x of an octet.
LEMMA HexRun ==
    ASSUME NEW n \in 0..255
    PROVE  /\ Hex(n) \in Seq(Nat) /\ Len(Hex(n)) = 2
           /\ Run(Hex(n), 1, Len(Hex(n)) + 1, 16, n)
  <1> DEFINE h == n \div 16
             o == n % 16
             v == [k \in 1..3 |-> IF k = 1 THEN 0 ELSE IF k = 2 THEN h ELSE n]
  <1>1. h \in 0..15 /\ o \in 0..15 /\ n = h * 16 + o BY SMT
  <1>2. UintMod \in Nat /\ UintMod > 256 BY UintIs
  <1>3. Hex(n) = <<h, o>> BY DEF Hex
  <1> HIDE DEF h, o
  <1>4. v \in [1..(2 + 1) -> 0..(UintMod - 1)] BY <1>1, <1>2
  <1>5. v[1] = 0 /\ v[2] = h /\ v[3] = n OBVIOUS
  <1> HIDE DEF v
  <1>6. \A k \in 1..((2 + 1) - 1) : <<h, o>>[k] < 16 /\ v[k + 1] = v[k] * 16 + <<h, o>>[k]
    BY <1>1, <1>5
  <1>7. Run(<<h, o>>, 1, 2 + 1, 16, n) BY <1>4, <1>5, <1>6 DEF Run
  <1>8. <<h, o>> \in Seq(Nat) /\ Len(<<h, o>>) = 2 BY <1>1
  <1> QED BY <1>3, <1>7, <1>8

\* A text that fits is not cut.
LEMMA Fits ==
    ASSUME NEW text \in Seq(Nat), NEW cap \in Nat, Len(text) < cap
    PROVE  Fit(text, cap) = text
  BY DEF Fit

\* Octets are numbers.
Octet == 0..(OctetMod - 1)

LEMMA OctetSeq ==
    ASSUME NEW octets \in Seq(Octet)
    PROVE  /\ octets \in Seq(Nat) /\ Len(octets) \in Nat
           /\ \A k \in 1..Len(octets) :
                octets[k] \in Octet /\ octets[k] \in 0..255 /\ octets[k] < OctetMod
  <1> DEFINE O == Octet
  <1>1. O \subseteq Nat BY UintIs DEF Octet
  <1>2. octets \in Seq(O) OBVIOUS
  <1> HIDE DEF O
  <1>3. /\ Len(octets) \in Nat /\ octets \in [1..Len(octets) -> O]
        /\ \A k \in 1..Len(octets) : octets[k] \in O
    BY <1>2, LenProperties, ElementOfSeq
  <1>4. octets \in [1..Len(octets) -> Nat] BY <1>1, <1>3
  <1>5. octets \in Seq(Nat) BY <1>3, <1>4
  <1>6. \A x \in O : x \in Octet /\ x \in 0..255 /\ x < OctetMod BY UintIs DEF O, Octet
  <1> QED BY <1>3, <1>5, <1>6

\* Octets packed into a word are those that leave in a frame, and a word is packed of its
\* octets: the shifts of the parser, the log and the writer agree.
LEMMA PackedOctets ==
    ASSUME NEW o \in Seq(Octet), Len(o) = 4
    PROVE  Packed(o) \in 0..(UintMod - 1) /\ gcs_wr32be(Packed(o)) = o
  <1> PICK m \in Nat : m = OctetMod /\ m > 0 BY UintIs
  <1>1. /\ o[1] \in 0..(m - 1) /\ o[2] \in 0..(m - 1)
        /\ o[3] \in 0..(m - 1) /\ o[4] \in 0..(m - 1)
    <2>1. \A k \in 1..Len(o) : o[k] \in Octet BY OctetSeq, Zenon
    <2>2. 1 \in 1..4 /\ 2 \in 1..4 /\ 3 \in 1..4 /\ 4 \in 1..4 OBVIOUS
    <2>3. o[1] \in Octet /\ o[2] \in Octet /\ o[3] \in Octet /\ o[4] \in Octet
      BY <2>1, <2>2, Zenon
    <2>4. Octet = 0..(m - 1) BY DEF Octet
    <2> HIDE DEF Octet
    <2> QED BY <2>3, <2>4, Zenon
  <1>2. PICK a \in 0..(m - 1), b \in 0..(m - 1), c \in 0..(m - 1), d \in 0..(m - 1) :
          a = o[1] /\ b = o[2] /\ c = o[3] /\ d = o[4]
    BY <1>1
  <1>3. PICK v : v = ((a * m + b) * m + c) * m + d OBVIOUS
  <1>4. IsWord(m, a, b, c, d, v) BY <1>3 DEF IsWord
  <1>5. v \in Nat /\ v < UintMod /\ UintMod \in Nat
    <2>1. v \in Nat BY <1>4, FourDigits
    <2>2. ((a * m + b) * m + c) * m + d < ((m * m) * m) * m BY FourDigitsOf, Zenon
    <2>3. UintMod = ((m * m) * m) * m BY Zenon DEF UintMod
    <2>4. v < UintMod BY <1>3, <2>2, <2>3, Zenon
    <2> QED BY <2>1, <2>4, UintIs
  <1>6. Packed(o) = v
    <2>1. a * m \in Nat /\ b * m \in Nat BY SMT
    <2>2. (a * m + b) * m = (a * m) * m + b * m /\ (a * m) * m \in Nat BY SMT
    <2>3. ((a * m) * m + b * m + c) * m = ((a * m) * m) * m + (b * m) * m + c * m
      BY <2>1, <2>2
    <2>4. ((a * m) * m) * m = a * ((m * m) * m) /\ (b * m) * m = b * (m * m) BY SMT
    <2>5. v = a * ((m * m) * m) + b * (m * m) + c * m + d
      BY <1>3, <2>2, <2>3, <2>4
    <2>6. Packed(o) = v % UintMod
      BY <1>2, <2>5 DEF Packed, Shift8, Shift16, Shift24
    <2>7. v % UintMod = v BY <1>5, ModSmall
    <2> QED BY <2>6, <2>7
  <1>7. gcs_wr32be(v) = <<a, b, c, d>>
    <2>1. /\ v % m = d /\ (v \div m) % m = c
          /\ (v \div (m * m)) % m = b /\ (v \div ((m * m) * m)) % m = a
      BY <1>4, FourDigits DEF HasDigits
    <2> QED BY <2>1, Zenon DEF gcs_wr32be, Shift8, Shift16, Shift24
  <1>8. <<a, b, c, d>> = o
    <2>1. o \in Seq(Nat) BY OctetSeq
    <2>2. <<a, b, c, d>> \in Seq(Nat) /\ Len(<<a, b, c, d>>) = 4 OBVIOUS
    <2>3. \A k \in 1..4 : <<a, b, c, d>>[k] = o[k] BY <1>2
    <2> QED BY <2>1, <2>2, <2>3, SeqEqual
  <1> QED BY <1>5, <1>6, <1>7, <1>8

LEMMA WordOctets ==
    ASSUME NEW ip_word \in 0..(UintMod - 1)
    PROVE  /\ gcs_wr32be(ip_word) \in Seq(Octet) /\ Len(gcs_wr32be(ip_word)) = 4
           /\ Packed(gcs_wr32be(ip_word)) = ip_word
  <1> PICK m \in Nat : m = OctetMod /\ m > 0 BY UintIs
  <1>1. UintMod = ((m * m) * m) * m BY DEF UintMod
  <1>2. PICK a \in 0..(m - 1), b \in 0..(m - 1), c \in 0..(m - 1), d \in 0..(m - 1) :
          IsWord(m, a, b, c, d, ip_word)
    <2> PICK top : top = ((m * m) * m) * m OBVIOUS
    <2>1. ip_word \in 0..(top - 1) BY <1>1, Zenon
    <2>2. \A v \in 0..(top - 1) : \E a, b, c, d \in 0..(m - 1) : IsWord(m, a, b, c, d, v)
      BY FourDigitsOf, Zenon
    <2> QED BY <2>1, <2>2
  <1>3. gcs_wr32be(ip_word) = <<a, b, c, d>>
    <2>1. /\ ip_word % m = d /\ (ip_word \div m) % m = c
          /\ (ip_word \div (m * m)) % m = b /\ (ip_word \div ((m * m) * m)) % m = a
      BY <1>2, FourDigits DEF HasDigits
    <2> QED BY <2>1, Zenon DEF gcs_wr32be, Shift8, Shift16, Shift24
  <1>4. <<a, b, c, d>> \in Seq(Octet) /\ Len(<<a, b, c, d>>) = 4 BY DEF Octet
  <1>5. Packed(<<a, b, c, d>>) = ip_word
    <2>1. a * m \in Nat /\ b * m \in Nat BY SMT
    <2>2. (a * m + b) * m = (a * m) * m + b * m /\ (a * m) * m \in Nat BY SMT
    <2>3. ((a * m) * m + b * m + c) * m = ((a * m) * m) * m + (b * m) * m + c * m
      BY <2>1, <2>2
    <2>4. ((a * m) * m) * m = a * ((m * m) * m) /\ (b * m) * m = b * (m * m) BY SMT
    <2>5. ip_word = a * ((m * m) * m) + b * (m * m) + c * m + d
      BY <1>2, <2>2, <2>3, <2>4 DEF IsWord
    <2>6. Packed(<<a, b, c, d>>) = ip_word % UintMod
      BY <2>5 DEF Packed, Shift8, Shift16, Shift24
    <2>7. ip_word % UintMod = ip_word
      <3>1. ip_word \in Nat /\ ip_word < UintMod /\ UintMod \in Nat BY UintIs
      <3> QED BY <3>1, ModSmall
    <2> QED BY <2>6, <2>7
  <1> QED BY <1>3, <1>4, <1>5

\* The first k octets, and a text of at most so many characters that spells them.
Pre(octets, k) == [j \in 1..k |-> octets[j]]

Prints(text, sep, base, octets, k, most) ==
    /\ text \in Seq(Nat) /\ Len(text) <= most
    /\ Spelled(text, sep, base, Pre(octets, k))

PrintsOne(part, base, n, most) ==
    part \in Seq(Nat) /\ Len(part) <= most /\ Run(part, 1, Len(part) + 1, base, n)

LEMMA PreSeq ==
    ASSUME NEW octets \in Seq(Nat), NEW k \in Nat, k <= Len(octets), k > 0
    PROVE  /\ Pre(octets, k) \in Seq(Nat) /\ Pre(octets, k) # <<>>
           /\ Len(Pre(octets, k)) = k /\ Pre(octets, 1) = <<octets[1]>>
           /\ Pre(octets, Len(octets)) = octets
           /\ k < Len(octets) => Append(Pre(octets, k), octets[k + 1]) = Pre(octets, k + 1)
  <1>1. Len(octets) \in Nat /\ \A j \in 1..Len(octets) : octets[j] \in Nat
    BY LenProperties, ElementOfSeq
  <1>2. Pre(octets, k) \in Seq(Nat) /\ Len(Pre(octets, k)) = k BY <1>1 DEF Pre
  <1>3. Pre(octets, k) # <<>>
    <2>1. Len(<<>>) = 0 OBVIOUS
    <2> QED BY <1>2, <2>1
  <1>4. Pre(octets, 1) = <<octets[1]>> BY <1>1 DEF Pre
  <1>5. Pre(octets, Len(octets)) = octets BY <1>1 DEF Pre
  <1>6. ASSUME k < Len(octets)
        PROVE  Append(Pre(octets, k), octets[k + 1]) = Pre(octets, k + 1)
    <2> DEFINE a == Append(Pre(octets, k), octets[k + 1])
    <2>1. octets[k + 1] \in Nat BY <1>1, <1>6
    <2>2. /\ a \in Seq(Nat) /\ Len(a) = k + 1 /\ a[k + 1] = octets[k + 1]
          /\ \A j \in 1..k : a[j] = Pre(octets, k)[j]
      BY <1>2, <2>1, AppendProperties
    <2>3. \A j \in 1..k : Pre(octets, k)[j] = octets[j] BY DEF Pre
    <2> HIDE DEF a
    <2>4. ASSUME NEW j \in 1..(k + 1) PROVE a[j] = octets[j]
      <3>1. CASE j \in 1..k BY <2>2, <2>3, <3>1
      <3>2. CASE j = k + 1 BY <2>2, <3>2
      <3> QED BY <3>1, <3>2
    <2>5. a = [j \in 1..(k + 1) |-> a[j]] BY <2>2
    <2>6. a = [j \in 1..(k + 1) |-> octets[j]]
      <3> DEFINE u == [j \in 1..(k + 1) |-> a[j]]
      <3>1. u = [j \in 1..(k + 1) |-> octets[j]] BY <2>4, Zenon
      <3> HIDE DEF u
      <3>2. a = u BY <2>5 DEF u
      <3> QED BY <3>1, <3>2
    <2> QED BY <2>6 DEF Pre, a
  <1> QED BY <1>2, <1>3, <1>4, <1>5, <1>6

\* The first printed octet, and one more.
LEMMA FirstOctet ==
    ASSUME NEW octets \in Seq(Nat), Len(octets) > 0, NEW sep, NEW base, NEW most,
           NEW part, PrintsOne(part, base, octets[1], most)
    PROVE  Prints(part, sep, base, octets, 1, most)
  <1>1. Len(octets) \in Nat BY LenProperties
  <1>2. Pre(octets, 1) = <<octets[1]>> BY <1>1, PreSeq
  <1>3. Spelled(part, sep, base, <<octets[1]>>) BY SpelledOne DEF PrintsOne
  <1> QED BY <1>2, <1>3 DEF Prints, PrintsOne

LEMMA OneMore ==
    ASSUME NEW octets \in Seq(Nat), NEW k \in Nat, k > 0, k < Len(octets),
           NEW sep \in Nat, NEW base, NEW cap \in Nat, NEW most \in Nat,
           NEW text, Prints(text, sep, base, octets, k, cap),
           NEW part, PrintsOne(part, base, octets[k + 1], most)
    PROVE  Prints(text \o <<sep>> \o part, sep, base, octets, k + 1, (cap + 1) + most)
  <1>1. Len(octets) \in Nat /\ octets[k + 1] \in Nat
    <2>1. Len(octets) \in Nat BY LenProperties
    <2>2. k + 1 \in 1..Len(octets) BY <2>1
    <2> QED BY <2>1, <2>2, ElementOfSeq
  <1>2. /\ text \in Seq(Nat) /\ Len(text) <= cap
        /\ Spelled(text, sep, base, Pre(octets, k))
    BY DEF Prints
  <1>3. part \in Seq(Nat) /\ Len(part) <= most
        /\ Run(part, 1, Len(part) + 1, base, octets[k + 1])
    BY DEF PrintsOne
  <1>4. /\ Pre(octets, k) \in Seq(Nat) /\ Pre(octets, k) # <<>>
        /\ Append(Pre(octets, k), octets[k + 1]) = Pre(octets, k + 1)
    BY <1>1, PreSeq
  <1>5. Spelled(text \o <<sep>> \o part, sep, base, Pre(octets, k + 1))
    BY <1>1, <1>2, <1>3, <1>4, SpelledMore
  <1>6. text \o <<sep>> \o part \in Seq(Nat) BY <1>2, <1>3
  <1>7. Len(text \o <<sep>> \o part) = (Len(text) + 1) + Len(part) BY <1>2, <1>3
  <1>8. Len(text) \in Nat /\ Len(part) \in Nat BY <1>2, <1>3, LenProperties
  <1>9. Len(text \o <<sep>> \o part) <= (cap + 1) + most
    <2> DEFINE a == Len(text)
               b == Len(part)
               c == Len(text \o <<sep>> \o part)
    <2>1. a \in Nat /\ b \in Nat /\ a <= cap /\ b <= most /\ c = (a + 1) + b
      BY <1>2, <1>3, <1>7, <1>8
    <2> HIDE DEF a, b, c
    <2>2. c <= (cap + 1) + most BY <2>1
    <2> QED BY <2>2 DEF c
  <1> QED BY <1>5, <1>6, <1>9 DEF Prints

\* A printed address that fits its buffer is there as a whole.
LEMMA PrintedFits ==
    ASSUME NEW octets \in Seq(Nat), Len(octets) > 0, NEW sep, NEW base, NEW text,
           NEW most \in Nat, Prints(text, sep, base, octets, Len(octets), most),
           NEW cap \in Nat, most < cap
    PROVE  /\ Fit(text, cap) = text /\ text \in Seq(Nat)
           /\ Spelled(text, sep, base, octets)
  <1>1. Len(octets) \in Nat BY LenProperties
  <1>2. Pre(octets, Len(octets)) = octets BY <1>1, PreSeq
  <1>3. text \in Seq(Nat) /\ Len(text) <= most /\ Spelled(text, sep, base, octets)
    BY <1>2 DEF Prints
  <1>4. Len(text) \in Nat BY <1>3, LenProperties
  <1>5. Len(text) < cap BY <1>3, <1>4
  <1> QED BY <1>3, <1>5, Fits

\* The log's buffer of 16 holds the longest IPv4 address, and what is printed into it
\* spells its octets.
LEMMA Ipv4Spelled ==
    ASSUME NEW ip_word \in 0..(UintMod - 1), NEW octets, octets = gcs_wr32be(ip_word)
    PROVE  /\ gcs_ipv4_format(ip_word, SIP_CAP) \in Seq(Nat) /\ octets \in Seq(Nat)
           /\ Spelled(gcs_ipv4_format(ip_word, SIP_CAP), Dot, 10, octets)
  <1>0. octets \in Seq(Octet) /\ Len(octets) = 4 BY WordOctets
  <1> DEFINE D(k) == Decimal(octets[k])
             t2 == D(1) \o <<Dot>> \o D(2)
             t3 == t2 \o <<Dot>> \o D(3)
             t4 == t3 \o <<Dot>> \o D(4)
             Done(text, k, most) == Prints(text, Dot, 10, octets, k, most)
  <1>1. octets \in Seq(Nat) /\ Dot \in Nat BY <1>0, OctetSeq DEF Dot
  <1>2. ASSUME NEW k \in 1..4 PROVE PrintsOne(D(k), 10, octets[k], 3)
    <2>1. octets[k] \in 0..255 BY <1>0, OctetSeq
    <2>2. /\ D(k) \in Seq(Nat) /\ Len(D(k)) <= 3
          /\ Run(D(k), 1, Len(D(k)) + 1, 10, octets[k])
      BY <2>1, DecimalRun
    <2> QED BY <2>2, Zenon DEF PrintsOne
  <1>3. gcs_ipv4_format(ip_word, SIP_CAP) = Fit(t4, 16)
    <2>1. /\ octets[1] = (ip_word \div Shift24) % OctetMod
          /\ octets[2] = (ip_word \div Shift16) % OctetMod
          /\ octets[3] = (ip_word \div Shift8) % OctetMod /\ octets[4] = ip_word % OctetMod
      BY DEF gcs_wr32be
    <2> QED BY <2>1, Zenon DEF gcs_ipv4_format, SIP_CAP
  <1> HIDE DEF D
  <1>4. Done(D(1), 1, 3)
    <2>1. 1 \in 1..4 /\ Len(octets) > 0 BY <1>0
    <2>2. PrintsOne(D(1), 10, octets[1], 3) BY <1>2, <2>1
    <2> QED BY <1>1, <2>1, <2>2, FirstOctet
  <1>5. ASSUME NEW k \in 1..3, NEW text, NEW most \in Nat, Done(text, k, most)
        PROVE  Done(text \o <<Dot>> \o D(k + 1), k + 1, (most + 1) + 3)
    <2>1. k \in Nat /\ k > 0 /\ k < Len(octets) /\ k + 1 \in 1..4 BY <1>0
    <2> QED BY <1>1, <1>2, <1>5, <2>1, OneMore
  <1> HIDE DEF Done
  <1>6. Done(t2, 2, 7) BY <1>4, <1>5
  <1> HIDE DEF t2
  <1>7. Done(t3, 3, 11) BY <1>5, <1>6
  <1> HIDE DEF t3
  <1>8. Done(t4, 4, 15) BY <1>5, <1>7
  <1> HIDE DEF t4
  <1>9. Prints(t4, Dot, 10, octets, Len(octets), 15) BY <1>0, <1>8 DEF Done
  <1>10. /\ Fit(t4, 16) = t4 /\ t4 \in Seq(Nat)
         /\ Spelled(t4, Dot, 10, octets)
    <2>1. Len(octets) > 0 /\ 15 \in Nat /\ 16 \in Nat /\ 15 < 16 BY <1>0
    <2> QED BY <1>1, <1>9, <2>1, PrintedFits
  <1> QED BY <1>1, <1>3, <1>10

\* The same of a MAC address and its buffer of 18.
LEMMA MacSpelled ==
    ASSUME NEW octets \in Seq(Octet), Len(octets) = GCS_MAC_LEN
    PROVE  /\ gcs_mac_format(octets, SMAC_CAP) \in Seq(Nat) /\ octets \in Seq(Nat)
           /\ Spelled(gcs_mac_format(octets, SMAC_CAP), Colon, 16, octets)
  <1> DEFINE D(k) == Hex(octets[k])
             t2 == D(1) \o <<Colon>> \o D(2)
             t3 == t2 \o <<Colon>> \o D(3)
             t4 == t3 \o <<Colon>> \o D(4)
             t5 == t4 \o <<Colon>> \o D(5)
             t6 == t5 \o <<Colon>> \o D(6)
             Done(text, k, most) == Prints(text, Colon, 16, octets, k, most)
  <1>1. octets \in Seq(Nat) /\ Colon \in Nat /\ Len(octets) = 6
    BY OctetSeq DEF Colon, GCS_MAC_LEN
  <1>2. ASSUME NEW k \in 1..6 PROVE PrintsOne(D(k), 16, octets[k], 2)
    <2>1. octets[k] \in 0..255 BY <1>1, OctetSeq
    <2>2. /\ D(k) \in Seq(Nat) /\ Len(D(k)) = 2
          /\ Run(D(k), 1, Len(D(k)) + 1, 16, octets[k])
      BY <2>1, HexRun
    <2> QED BY <2>2 DEF PrintsOne
  <1>3. gcs_mac_format(octets, SMAC_CAP) = Fit(t6, 18) BY DEF gcs_mac_format, SMAC_CAP
  <1> HIDE DEF D
  <1>4. Done(D(1), 1, 2) BY <1>1, <1>2, FirstOctet
  <1>5. ASSUME NEW k \in 1..5, NEW text, NEW most \in Nat, Done(text, k, most)
        PROVE  Done(text \o <<Colon>> \o D(k + 1), k + 1, (most + 1) + 2)
    <2>1. k \in Nat /\ k > 0 /\ k < 6 /\ k + 1 \in 1..6 OBVIOUS
    <2> QED BY <1>1, <1>2, <1>5, <2>1, OneMore
  <1> HIDE DEF Done
  <1>6. Done(t2, 2, 5) BY <1>4, <1>5
  <1> HIDE DEF t2
  <1>7. Done(t3, 3, 8) BY <1>5, <1>6
  <1> HIDE DEF t3
  <1>8. Done(t4, 4, 11) BY <1>5, <1>7
  <1> HIDE DEF t4
  <1>9. Done(t5, 5, 14) BY <1>5, <1>8
  <1> HIDE DEF t5
  <1>10. Done(t6, 6, 17) BY <1>5, <1>9
  <1> HIDE DEF t6
  <1>11. Prints(t6, Colon, 16, octets, Len(octets), 17) BY <1>1, <1>10 DEF Done
  <1>12. /\ Fit(t6, 18) = t6 /\ t6 \in Seq(Nat)
         /\ Spelled(t6, Colon, 16, octets)
    <2>1. Len(octets) > 0 /\ 17 \in Nat /\ 18 \in Nat /\ 17 < 18 BY <1>1
    <2> QED BY <1>1, <1>11, <2>1, PrintedFits
  <1> QED BY <1>1, <1>3, <1>12

\* The parsers take what is spelled if it is the right number of octets.
LEMMA Ipv4Read ==
    ASSUME NEW text \in Seq(Nat), NEW numbers \in Seq(Nat), Len(numbers) <= 4,
           Spelled(text, Dot, 10, numbers)
    PROVE  gcs_ipv4_parse(text) = IF Accepted(numbers, 4) THEN <<Packed(numbers)>> ELSE <<>>
  <1>1. Scan(text, Dot, 10, 4) = IF Len(numbers) = 4 THEN numbers ELSE <<>>
    <2>1. Dot \in Nat /\ Dot >= 10 BY DEF Dot
    <2>2. 10 \in Nat /\ 4 \in Nat /\ 4 > 0 OBVIOUS
    <2> QED BY <2>1, <2>2, ScanIs
  <1>2. Len(<<>>) = 0 OBVIOUS
  <1>3. CASE Len(numbers) = 4
    <2>1. Scan(text, Dot, 10, 4) = numbers BY <1>1, <1>3
    <2>2. numbers # <<>>
      <3> SUFFICES ASSUME numbers = <<>> PROVE FALSE OBVIOUS
      <3>1. 4 = 0 BY <1>2, <1>3, Zenon
      <3> QED BY <3>1
    <2> QED BY <1>3, <2>1, <2>2, Zenon DEF gcs_ipv4_parse, Octets, Accepted
  <1>4. CASE Len(numbers) # 4
    <2>1. Scan(text, Dot, 10, 4) = <<>> BY <1>1, <1>4
    <2> QED BY <1>4, <2>1, Zenon DEF gcs_ipv4_parse, Octets, Accepted
  <1> QED BY <1>3, <1>4

LEMMA MacRead ==
    ASSUME NEW text \in Seq(Nat), NEW numbers \in Seq(Nat), Len(numbers) <= GCS_MAC_LEN,
           Spelled(text, Colon, 16, numbers)
    PROVE  gcs_mac_parse(text) = IF Accepted(numbers, GCS_MAC_LEN) THEN numbers ELSE <<>>
  <1>1. GCS_MAC_LEN = 6 BY DEF GCS_MAC_LEN
  <1>2. Scan(text, Colon, 16, GCS_MAC_LEN) =
          IF Len(numbers) = GCS_MAC_LEN THEN numbers ELSE <<>>
    <2>1. Colon \in Nat /\ Colon >= 16 BY DEF Colon
    <2>2. 16 \in Nat /\ GCS_MAC_LEN \in Nat /\ GCS_MAC_LEN > 0 BY <1>1
    <2> QED BY <2>1, <2>2, ScanIs
  <1>3. Len(<<>>) = 0 OBVIOUS
  <1>4. CASE Len(numbers) = GCS_MAC_LEN
    <2>1. Scan(text, Colon, 16, GCS_MAC_LEN) = numbers BY <1>2, <1>4
    <2>2. numbers # <<>>
      <3> SUFFICES ASSUME numbers = <<>> PROVE FALSE OBVIOUS
      <3>1. 6 = 0 BY <1>1, <1>3, <1>4, Zenon
      <3> QED BY <3>1
    <2> QED BY <1>4, <2>1, <2>2, Zenon DEF gcs_mac_parse, Octets, Accepted
  <1>5. CASE Len(numbers) # GCS_MAC_LEN
    <2>1. Scan(text, Colon, 16, GCS_MAC_LEN) = <<>> BY <1>2, <1>5
    <2> QED BY <1>5, <2>1, Zenon DEF gcs_mac_parse, Octets, Accepted
  <1> QED BY <1>4, <1>5

LEMMA PortRead ==
    ASSUME NEW text \in Seq(Nat), NEW n \in Nat, n < 65536, Run(text, 1, Len(text) + 1, 10, n)
    PROVE  port_parse(text) = n
  <1>1. Len(text) \in Nat BY LenProperties
  <1>2. \A k \in 1..((Len(text) + 1) - 1) : text[k] < 10 BY DEF Run
  <1>3. ~(Len(text) + 1 <= Len(text)) /\ 1 <= Len(text) + 1 /\ Len(text) + 1 \in Nat BY <1>1
  <1>4. RunEnd(text, 1, 10) = Len(text) + 1 BY <1>2, <1>3, RunEndIs
  <1>5. NumberAt(text, 1, 10) = n BY <1>3, <1>4, NumberIs
  <1>6. n % 65536 = n
    <2> DEFINE max == 65536
    <2>1. max \in Nat /\ n < max OBVIOUS
    <2> HIDE DEF max
    <2>2. n % max = n BY <2>1, ModSmall
    <2> QED BY <2>2 DEF max
  <1> QED BY <1>5, <1>6 DEF port_parse

\* So are any four numbers that are octets.
LEMMA PackedBack ==
    ASSUME NEW o \in Seq(Nat), Len(o) = 4, \A k \in 1..4 : o[k] < OctetMod
    PROVE  gcs_wr32be(Packed(o)) = o
  <1>1. \A k \in 1..4 : o[k] \in Octet
    <2>1. \A k \in 1..4 : o[k] \in Nat /\ o[k] < OctetMod BY ElementOfSeq
    <2>2. \A x \in Nat : x < OctetMod => x \in Octet BY UintIs DEF Octet
    <2> QED BY <2>1, <2>2
  <1>2. PICK a \in Octet, b \in Octet, c \in Octet, d \in Octet :
          a = o[1] /\ b = o[2] /\ c = o[3] /\ d = o[4]
    BY <1>1
  <1> DEFINE O == Octet
             q == <<a, b, c, d>>
  <1>3. q \in Seq(Nat) /\ Len(q) = 4 BY UintIs DEF Octet
  <1>4. \A k \in 1..4 : q[k] = o[k] BY <1>2
  <1> HIDE DEF O
  <1>5. q \in Seq(O) BY DEF O
  <1> HIDE DEF q
  <1>6. o = q BY <1>3, <1>4, SeqEqual
  <1>7. o \in Seq(Octet) BY <1>5, <1>6 DEF O
  <1> QED BY <1>7, PackedOctets

\* An address that the stack's log prints is read back as the same one by the parsers
\* of the command line, an IPv4 address from the word it was packed into to that word: no
\* two addresses look the same in the log, its buffers hold the longest of them, and
\* either program can be started with what it says.
THEOREM AddressesRoundTrip ==
    /\ \A ip_word \in 0..(UintMod - 1) :
         gcs_ipv4_parse(gcs_ipv4_format(ip_word, SIP_CAP)) = <<ip_word>>
    /\ \A octets \in Seq(Octet) :
         Len(octets) = GCS_MAC_LEN => gcs_mac_parse(gcs_mac_format(octets, SMAC_CAP)) = octets
  <1>1. ASSUME NEW octets \in Seq(Octet)
        PROVE  \A k \in 1..Len(octets) : octets[k] < OctetMod
    BY OctetSeq, Zenon
  <1>2. ASSUME NEW ip_word \in 0..(UintMod - 1)
        PROVE  gcs_ipv4_parse(gcs_ipv4_format(ip_word, SIP_CAP)) = <<ip_word>>
    <2> PICK octets : octets = gcs_wr32be(ip_word) OBVIOUS
    <2>1. octets \in Seq(Octet) /\ Len(octets) = 4 /\ Packed(octets) = ip_word BY WordOctets
    <2>2. Accepted(octets, 4) BY <1>1, <2>1 DEF Accepted
    <2>3. /\ gcs_ipv4_format(ip_word, SIP_CAP) \in Seq(Nat) /\ octets \in Seq(Nat)
          /\ Spelled(gcs_ipv4_format(ip_word, SIP_CAP), Dot, 10, octets)
      BY Ipv4Spelled
    <2>4. Len(octets) <= 4 BY <2>1
    <2> QED BY <2>1, <2>2, <2>3, <2>4, Ipv4Read
  <1>3. ASSUME NEW octets \in Seq(Octet), Len(octets) = GCS_MAC_LEN
        PROVE  gcs_mac_parse(gcs_mac_format(octets, SMAC_CAP)) = octets
    <2>1. Accepted(octets, GCS_MAC_LEN) BY <1>1, <1>3 DEF Accepted
    <2>2. /\ gcs_mac_format(octets, SMAC_CAP) \in Seq(Nat) /\ octets \in Seq(Nat)
          /\ Spelled(gcs_mac_format(octets, SMAC_CAP), Colon, 16, octets)
      BY <1>3, MacSpelled
    <2>3. Len(octets) <= GCS_MAC_LEN BY <1>3 DEF GCS_MAC_LEN
    <2> QED BY <2>1, <2>2, <2>3, MacRead
  <1> QED BY <1>2, <1>3
-----------------------------------------------------------------------------
(***************************************************************************)
(* The addresses and the port of any command line.                         *)
(***************************************************************************)
\* A word that spells a value for the option: not more numbers than it takes, of any
\* size an unsigned int holds, or none at all; a port is one number of 16 bits.
WellSpelled(opt, w) ==
    /\ w \in Words
    /\ opt = "--ip" => Spelled(w.text, Dot, 10, w.numbers) /\ Len(w.numbers) <= 4
    /\ opt = "--mac" =>
         Spelled(w.text, Colon, 16, w.numbers) /\ Len(w.numbers) <= GCS_MAC_LEN
    /\ opt = "--port" =>
         \E n \in Nat :
           n < 65536 /\ w.numbers = <<n>> /\ Run(w.text, 1, Len(w.text) + 1, 10, n)

AddressOptions == {"--ip", "--mac", "--port"}

\* Every default does, and every word that stands behind one of the options.
AllWellSpelled ==
    /\ \A opt \in AddressOptions : WellSpelled(opt, Default[opt])
    /\ \A list \in GroupLists : \A k \in 1..(Len(FlattenSeq(list)) - 1) :
         FlattenSeq(list)[k].opt \in AddressOptions =>
           WellSpelled(FlattenSeq(list)[k].opt, FlattenSeq(list)[k + 1])

SpelledInv ==
    /\ groups \in GroupLists /\ DOMAIN setting = OptionNames /\ i \in Nat /\ i > 0
    /\ \A opt \in AddressOptions : WellSpelled(opt, setting[opt])
    /\ AddressesAsPrinted

\* The settings are parsed to the numbers they spell.
LEMMA SpelledParse == ASSUME SpelledInv, ParseAddresses PROVE AddressesAsPrinted'
  <1> DEFINE m == setting["--mac"]
             a == setting["--ip"]
             p == setting["--port"]
             ok == Accepted(m.numbers, GCS_MAC_LEN) /\ Accepted(a.numbers, 4)
  <1>1. WellSpelled("--mac", m) /\ WellSpelled("--ip", a) /\ WellSpelled("--port", p)
    BY DEF SpelledInv, AddressOptions
  <1>2. UNCHANGED setting /\ pc' \in {"refused", "started"} BY DEF ParseAddresses
  <1>3. gcs_mac_parse(m.text) = IF Accepted(m.numbers, GCS_MAC_LEN) THEN m.numbers ELSE <<>>
    <2>1. m.text \in Seq(Nat) /\ m.numbers \in Seq(Nat) BY <1>1 DEF WellSpelled, Words
    <2> QED BY <1>1, <2>1, MacRead DEF WellSpelled
  <1>4. gcs_ipv4_parse(a.text) =
          IF Accepted(a.numbers, 4) THEN <<Packed(a.numbers)>> ELSE <<>>
    <2>1. a.text \in Seq(Nat) /\ a.numbers \in Seq(Nat) BY <1>1 DEF WellSpelled, Words
    <2> QED BY <1>1, <2>1, Ipv4Read DEF WellSpelled
  <1>5. <<port_parse(p.text)>> = p.numbers
    <2>1. p.text \in Seq(Nat) BY <1>1 DEF WellSpelled, Words
    <2>2. PICK n \in Nat :
            n < 65536 /\ p.numbers = <<n>> /\ Run(p.text, 1, Len(p.text) + 1, 10, n)
      BY <1>1 DEF WellSpelled
    <2> QED BY <2>1, <2>2, PortRead
  <1>6. /\ Accepted(m.numbers, GCS_MAC_LEN) => m.numbers # <<>>
        /\ Accepted(a.numbers, 4) => gcs_wr32be(Packed(a.numbers)) = a.numbers
    <2>1. Len(<<>>) = 0 OBVIOUS
    <2>2. ASSUME Accepted(a.numbers, 4) PROVE gcs_wr32be(Packed(a.numbers)) = a.numbers
      <3> PICK o : o = a.numbers OBVIOUS
      <3>1. o \in Seq(Nat) BY <1>1 DEF WellSpelled, Words
      <3>2. Len(o) = 4 /\ \A k \in 1..4 : o[k] < OctetMod BY <2>2 DEF Accepted
      <3> QED BY <3>1, <3>2, PackedBack
    <2> QED BY <2>1, <2>2 DEF Accepted, GCS_MAC_LEN
  <1>7. CASE ok
    <2>1. ~(gcs_mac_parse(m.text) = <<>> \/ gcs_ipv4_parse(a.text) = <<>>)
      BY <1>3, <1>4, <1>6, <1>7
    <2>2. /\ pc' = "started" /\ mac' = gcs_mac_parse(m.text)
          /\ ip' = gcs_ipv4_parse(a.text)[1]
          /\ port' = port_parse(p.text)
      BY <2>1, Zenon DEF ParseAddresses
    <2>3. mac' = m.numbers /\ ip' = Packed(a.numbers) /\ <<port'>> = p.numbers
      BY <1>3, <1>4, <1>5, <1>7, <2>2
    <2>4. gcs_wr32be(ip') = a.numbers BY <1>6, <1>7, <2>3
    <2> QED BY <1>2, <1>7, <2>2, <2>3, <2>4 DEF AddressesAsPrinted
  <1>8. CASE ~ok
    <2>1. gcs_mac_parse(m.text) = <<>> \/ gcs_ipv4_parse(a.text) = <<>> BY <1>3, <1>4, <1>8
    <2>2. pc' = "refused" BY <2>1, Zenon DEF ParseAddresses
    <2> QED BY <1>2, <1>8, <2>2 DEF AddressesAsPrinted
  <1> QED BY <1>7, <1>8

LEMMA SpelledTaken ==
    ASSUME AllWellSpelled, SpelledInv, TakeValue
    PROVE  \A opt \in AddressOptions : WellSpelled(opt, setting'[opt])
  <1>1. groups \in Seq(Seq(Words)) BY StartupAssumption DEF SpelledInv
  <1>2. Len(argv) \in Nat
    <2>1. \E start : Starts(groups, start) BY <1>1, StartsExist
    <2> QED BY <2>1 DEF Starts, argv
  <1>3. i \in 1..(Len(argv) - 1) BY <1>2 DEF SpelledInv, TakeValue, HasValue
  <1>4. word.opt \in AddressOptions => WellSpelled(word.opt, argv[i + 1])
    BY <1>3 DEF AllWellSpelled, SpelledInv, argv, word
  <1>5. AddressOptions \subseteq OptionNames BY DEF AddressOptions, OptionNames
  <1>6. setting' = [setting EXCEPT ![word.opt] = argv[i + 1]] BY DEF TakeValue
  <1>7. ASSUME NEW opt \in AddressOptions PROVE WellSpelled(opt, setting'[opt])
    <2>1. opt \in DOMAIN setting /\ WellSpelled(opt, setting[opt])
      BY <1>5 DEF SpelledInv
    <2>2. CASE opt = word.opt
      <3>1. setting'[opt] = argv[i + 1] BY <1>6, <2>1, <2>2
      <3> QED BY <1>4, <2>2, <3>1
    <2>3. CASE opt # word.opt
      <3>1. setting'[opt] = setting[opt] BY <1>6, <2>1, <2>3
      <3> QED BY <2>1, <3>1
    <2> QED BY <2>2, <2>3
  <1> QED BY <1>7

LEMMA SpelledStep == ASSUME AllWellSpelled, SpelledInv, [Next]_vars PROVE SpelledInv'
  <1>1. UNCHANGED groups /\ DOMAIN setting' = DOMAIN setting
    BY DEF Next, TakeValue, TakeQuiet, TakeOther, EndOptions, ParseAddresses, vars
  <1>2. i' \in Nat /\ i' > 0
    BY DEF SpelledInv, Next, TakeValue, TakeQuiet, TakeOther, EndOptions, ParseAddresses, vars
  <1>3. \A opt \in AddressOptions : WellSpelled(opt, setting'[opt])
    <2>1. TakeValue \/ UNCHANGED setting
      BY DEF Next, TakeQuiet, TakeOther, EndOptions, ParseAddresses, vars
    <2> QED BY <2>1, SpelledTaken DEF SpelledInv
  <1>4. AddressesAsPrinted'
    <2>1. \/ ParseAddresses
          \/ pc' \notin {"started", "refused"}
          \/ UNCHANGED vars
      BY DEF Next, TakeValue, TakeQuiet, TakeOther, EndOptions, AtOption
    <2>2. CASE UNCHANGED vars BY <2>2 DEF vars, SpelledInv, AddressesAsPrinted
    <2>3. CASE pc' \notin {"started", "refused"} BY <2>3 DEF AddressesAsPrinted
    <2> QED BY <2>1, <2>2, <2>3, SpelledParse
  <1> QED BY <1>1, <1>2, <1>3, <1>4 DEF SpelledInv

\* Where every value is spelled as a user spells it, whether its numbers are octets or
\* not and however many there are, a program starts with the very addresses and port
\* that were meant, or refuses them because one is no address: the word that it gives the
\* stack for its own IPv4 address has the octets that were printed.
THEOREM AddressesAreMeant == AllWellSpelled => (Spec => []AddressesAsPrinted)
  <1> SUFFICES ASSUME AllWellSpelled PROVE Spec => []AddressesAsPrinted OBVIOUS
  <1>1. Init => SpelledInv
    <2> SUFFICES ASSUME Init PROVE SpelledInv OBVIOUS
    <2>1. AddressesAsPrinted BY DEF Init, AddressesAsPrinted
    <2>2. DOMAIN Default = OptionNames BY StartupAssumption
    <2> QED BY <2>1, <2>2 DEF Init, SpelledInv, AllWellSpelled
  <1>2. SpelledInv /\ [Next]_vars => SpelledInv' BY SpelledStep
  <1>3. SpelledInv => AddressesAsPrinted BY DEF SpelledInv
  <1> QED BY <1>1, <1>2, <1>3, PTL DEF Spec
==============================================================================
