------------------------------ MODULE DeviceProof ------------------------------
(***************************************************************************)
(* What the threads that use a device can rely on, whatever they ask of    *)
(* it: the post office over the network, with its mailboxes (module        *)
(* PostOffice), and the synchronous disk (module SynchDisk), by itself and *)
(* under the file system (module FileSystem).                              *)
(*                                                                         *)
(* The post office comes first.  The invariant that is inductive follows a *)
(* mail from the socket to the client: Between, which picks the mails of   *)
(* one sender to one box, distributes over the parts of the path (lemma    *)
(* BetweenConcat), and each step moves at most one mail from one part to   *)
(* the next (lemma Moves).                                                 *)
(***************************************************************************)
EXTENDS PostOffice, ListProof, FiniteSetTheorems

\* A sequence, of whatever values.
Sequence(s) == s \in Seq(Range(s))

\* A sequence of elements of S is a sequence of whatever it contains.
LEMMA RangeOfSequence ==
  ASSUME NEW S, NEW s \in Seq(S)
  PROVE  Sequence(s) /\ Range(s) \in SUBSET S
<1>1. /\ Len(s) \in Nat
      /\ DOMAIN s = 1 .. Len(s)
      /\ s \in [1 .. Len(s) -> S]
  BY LenProperties
<1>2. s \in [1 .. Len(s) -> Range(s)]
  BY <1>1 DEF Range
<1>3. s \in Seq(Range(s))
  BY <1>1, <1>2, SeqDef
<1>4. Range(s) \in SUBSET S
  <2>1. \A x \in DOMAIN s : s[x] \in S
    BY <1>1
  <2>2. QED
    BY <2>1, Zenon DEF Range
<1>5. QED
  BY <1>3, <1>4 DEF Sequence

\* The empty sequence, and sequences of one element.
LEMMA EmptySequence == Sequence(<<>>) /\ Range(<<>>) = {}
<1>1. <<>> \in Seq({})
  BY EmptySeq
<1>2. Sequence(<<>>) /\ Range(<<>>) \in SUBSET {}
  BY <1>1, RangeOfSequence, Zenon
<1>3. QED
  BY <1>2

LEMMA OneSequence ==
  ASSUME NEW x
  PROVE  Sequence(<<x>>) /\ Range(<<x>>) = {x}
<1>1. <<x>> \in Seq({x})
  OBVIOUS
<1>2. x \in Range(<<x>>)
  <2>1. 1 \in DOMAIN <<x>> /\ <<x>>[1] = x
    OBVIOUS
  <2>2. QED
    BY <2>1 DEF Range
<1>3. Sequence(<<x>>) /\ Range(<<x>>) \in SUBSET {x}
  BY <1>1, RangeOfSequence, Zenon
<1>4. QED
  BY <1>2, <1>3

\* What Append, Head and Tail, and concatenation make of sequences.
LEMMA AppendSequence ==
  ASSUME NEW s, NEW x, Sequence(s)
  PROVE  /\ Sequence(Append(s, x))
         /\ Range(Append(s, x)) \subseteq Range(s) \cup {x}
         /\ Len(Append(s, x)) = Len(s) + 1
         /\ Len(s) \in Nat
         /\ \A i \in 1 .. Len(s) : Append(s, x)[i] = s[i]
         /\ Append(s, x)[Len(s) + 1] = x
<1> DEFINE S == Range(s) \cup {x}
<1>1. s \in Seq(S) /\ x \in S
  BY SeqMonotonic DEF Sequence
<1> HIDE DEF S
<1>2. Append(s, x) \in Seq(S)
  BY <1>1, AppendProperties
<1>3. Sequence(Append(s, x)) /\ Range(Append(s, x)) \in SUBSET S
  BY <1>2, RangeOfSequence, Zenon
<1>4. Len(s) \in Nat
  BY <1>1, LenProperties
<1>5. QED
  BY <1>1, <1>3, <1>4, AppendProperties DEF S

LEMMA TailSequence ==
  ASSUME NEW s, Sequence(s), s # <<>>
  PROVE  /\ Sequence(Tail(s))
         /\ Range(Tail(s)) \subseteq Range(s)
         /\ Head(s) \in Range(s)
         /\ s = <<Head(s)>> \o Tail(s)
<1>1. s \in Seq(Range(s))
  BY DEF Sequence
<1>2. Tail(s) \in Seq(Range(s)) /\ Head(s) \in Range(s)
  BY <1>1, HeadTailProperties
<1>3. s = <<Head(s)>> \o Tail(s)
  <2>1. Len(s) \in Nat \ {0}
    BY <1>1, EmptySeq
  <2>2. SubSeq(s, 1, Len(s)) = << s[1] >> \o SubSeq(s, 1 + 1, Len(s))
    BY <1>1, <2>1, SubSeqRecursiveFirst
  <2>3. SubSeq(s, 1, Len(s)) = s /\ Tail(s) = SubSeq(s, 2, Len(s))
    BY <1>1, SubSeqFull, TailIsSubSeq
  <2>4. Head(s) = s[1]
    OBVIOUS
  <2>5. QED
    BY <2>2, <2>3, <2>4
<1>4. Sequence(Tail(s)) /\ Range(Tail(s)) \in SUBSET Range(s)
  BY <1>2, RangeOfSequence, Zenon
<1>5. QED
  BY <1>2, <1>3, <1>4

LEMMA ConcatSequence ==
  ASSUME NEW s, NEW t, Sequence(s), Sequence(t)
  PROVE  /\ Sequence(s \o t)
         /\ Range(s \o t) \subseteq Range(s) \cup Range(t)
<1> DEFINE S == Range(s) \cup Range(t)
<1>1. s \in Seq(S) /\ t \in Seq(S)
  BY SeqMonotonic DEF Sequence
<1> HIDE DEF S
<1>2. s \o t \in Seq(S)
  BY <1>1, ConcatProperties
<1>3. Sequence(s \o t) /\ Range(s \o t) \in SUBSET S
  BY <1>2, RangeOfSequence, Zenon
<1>4. QED
  BY <1>3 DEF S

\* Concatenation is associative, and appending is concatenation of one.
LEMMA SequencesAssociate ==
  ASSUME NEW s, NEW t, NEW u, Sequence(s), Sequence(t), Sequence(u)
  PROVE  (s \o t) \o u = s \o (t \o u)
<1> DEFINE S == Range(s) \cup Range(t) \cup Range(u)
<1>1. s \in Seq(S) /\ t \in Seq(S) /\ u \in Seq(S)
  BY SeqMonotonic DEF Sequence
<1> HIDE DEF S
<1>2. QED
  BY <1>1, ConcatAssociative

\* Append as a concatenation.
LEMMA AppendConcat ==
  ASSUME NEW s, NEW x, Sequence(s)
  PROVE  /\ Append(s, x) = s \o <<x>>
         /\ s \o <<>> = s
         /\ <<>> \o s = s
<1> DEFINE S == Range(s) \cup {x}
<1>1. s \in Seq(S) /\ x \in S
  BY SeqMonotonic DEF Sequence
<1> HIDE DEF S
<1>2. QED
  BY <1>1, AppendIsConcat, ConcatEmptySeq

\* Append to a concatenation.
LEMMA ConcatAppend ==
  ASSUME NEW s, NEW u, NEW x, Sequence(s), Sequence(u)
  PROVE  s \o Append(u, x) = Append(s \o u, x) /\ Sequence(s \o u)
<1> DEFINE one == <<x>>
<1>1. /\ Append(u, x) = u \o one
      /\ Sequence(one) /\ Sequence(s \o u)
  BY AppendConcat, OneSequence, ConcatSequence
<1>2. Append(s \o u, x) = (s \o u) \o one
  BY <1>1, AppendConcat
<1> HIDE DEF one
<1>3. (s \o u) \o one = s \o (u \o one)
  BY <1>1, SequencesAssociate
<1>4. QED
  BY <1>1, <1>2, <1>3

-------------------------------------------------------------------------------
Matches(m, l, mail) == mail.from = m /\ <<mail.to, mail.box>> = l

\* The mails of s up to the i-th that Between keeps, for i up to n.
Kept(k, m, l, s, n) ==
  k = [i \in 0 .. n |->
         IF i = 0 THEN <<>>
         ELSE IF Matches(m, l, s[i]) THEN Append(k[i - 1], s[i]) ELSE k[i - 1]]

\* The function Between is defined with exists: it filters each prefix.
LEMMA KeptExists ==
  ASSUME NEW m, NEW l, NEW s
  PROVE  \A n \in Nat : \E k : Kept(k, m, l, s, n)
<1> DEFINE Bad == {n \in Nat : ~\E k : Kept(k, m, l, s, n)}
<1>1. SUFFICES ASSUME Bad # {} PROVE FALSE
  OBVIOUS
<1>2. PICK n \in Bad : \A i \in Bad : n <= i
  <2>1. Bad \in SUBSET Nat
    OBVIOUS
  <2> HIDE DEF Bad
  <2>2. QED
    BY <1>1, <2>1, LeastNatural
<1>3. CASE n = 0
  <2>1. Kept([i \in 0 .. 0 |-> <<>>], m, l, s, 0)
    BY DEF Kept
  <2>2. QED
    BY <1>2, <1>3, <2>1
<1>4. CASE n # 0
  <2>1. n - 1 \in Nat /\ n \in Nat
    BY <1>2, <1>4
  <2>2. n - 1 \notin Bad
    BY <1>2, <2>1
  <2>3. PICK k : Kept(k, m, l, s, n - 1)
    BY <2>1, <2>2
  <2> DEFINE new == IF Matches(m, l, s[n]) THEN Append(k[n - 1], s[n]) ELSE k[n - 1]
             longer == [i \in 0 .. n |-> IF i = n THEN new ELSE k[i]]
  <2>4. ASSUME NEW i \in 0 .. n
        PROVE  longer[i] =
                 IF i = 0 THEN <<>>
                 ELSE IF Matches(m, l, s[i]) THEN Append(longer[i - 1], s[i]) ELSE longer[i - 1]
    <3>1. CASE i = n
      <4>1. longer[n] = new /\ longer[n - 1] = k[n - 1]
        BY <2>1
      <4>2. QED
        BY <4>1, <3>1, <1>4
    <3>2. CASE i # n
      <4>1. i \in 0 .. n - 1
        BY <3>2, <2>1
      <4>2. longer[i] = k[i] /\ (i # 0 => longer[i - 1] = k[i - 1])
        BY <4>1, <2>1
      <4> HIDE DEF longer
      <4>3. k[i] = IF i = 0 THEN <<>>
                   ELSE IF Matches(m, l, s[i]) THEN Append(k[i - 1], s[i]) ELSE k[i - 1]
        BY <4>1, <2>3 DEF Kept
      <4>4. QED
        BY <4>2, <4>3
    <3>3. QED
      BY <3>1, <3>2
  <2>5. Kept(longer, m, l, s, n)
    <3>1. longer = [i \in 0 .. n |-> longer[i]]
      OBVIOUS
    <3> HIDE DEF longer
    <3>2. QED
      BY <3>1, <2>4 DEF Kept
  <2>6. QED
    BY <1>2, <2>5
<1>5. QED
  BY <1>3, <1>4

\* Two functions that filter the prefixes agree where both are defined.
LEMMA KeptUnique ==
  ASSUME NEW m, NEW l, NEW s, NEW t, NEW n \in Nat, NEW p \in Nat, n <= p,
         \A i \in 1 .. n : s[i] = t[i],
         NEW k, NEW q, Kept(k, m, l, s, n), Kept(q, m, l, t, p)
  PROVE  \A i \in 0 .. n : k[i] = q[i]
<1> DEFINE Bad == {i \in 0 .. n : k[i] # q[i]}
<1>1. SUFFICES ASSUME Bad # {} PROVE FALSE
  OBVIOUS
<1>2. PICK i \in Bad : \A j \in Bad : i <= j
  <2>1. Bad \in SUBSET Nat
    OBVIOUS
  <2> HIDE DEF Bad
  <2>2. QED
    BY <1>1, <2>1, LeastNatural
<1>3. /\ k[i] = IF i = 0 THEN <<>>
                ELSE IF Matches(m, l, s[i]) THEN Append(k[i - 1], s[i]) ELSE k[i - 1]
      /\ q[i] = IF i = 0 THEN <<>>
                ELSE IF Matches(m, l, t[i]) THEN Append(q[i - 1], t[i]) ELSE q[i - 1]
  <2>1. i \in 0 .. n /\ i \in 0 .. p
    BY <1>2
  <2>2. QED
    BY <2>1 DEF Kept
<1>4. i # 0
  BY <1>2, <1>3
<1>5. i - 1 \notin Bad /\ i - 1 \in 0 .. n /\ i \in 1 .. n
  BY <1>2, <1>4
<1>6. k[i - 1] = q[i - 1] /\ s[i] = t[i]
  BY <1>5
<1>7. k[i] = q[i]
  BY <1>3, <1>6
<1>8. QED
  BY <1>2, <1>7

\* Between keeps what any such function has kept at the end.
LEMMA BetweenIs ==
  ASSUME NEW m, NEW l, NEW s, Len(s) \in Nat
  PROVE  \E k : Kept(k, m, l, s, Len(s)) /\ Between(m, l, s) = k[Len(s)]
<1> DEFINE n == Len(s)
           k == CHOOSE f : f = [i \in 0 .. n |->
                     IF i = 0 THEN <<>>
                     ELSE IF s[i].from = m /\ <<s[i].to, s[i].box>> = l
                          THEN Append(f[i - 1], s[i])
                          ELSE f[i - 1]]
<1>1. \E f : Kept(f, m, l, s, n)
  BY KeptExists
<1>2. Kept(k, m, l, s, n)
  BY <1>1 DEF Kept, Matches
<1>3. Between(m, l, s) = k[n]
  BY DEF Between
<1>4. QED
  BY <1>2, <1>3

\* Between of the empty sequence, of one more mail, of a concatenation.
LEMMA BetweenEmpty ==
  ASSUME NEW m, NEW l
  PROVE  Between(m, l, <<>>) = <<>>
<1>1. Len(<<>>) = 0
  OBVIOUS
<1>2. PICK k : Kept(k, m, l, <<>>, Len(<<>>)) /\ Between(m, l, <<>>) = k[Len(<<>>)]
  <2>1. Len(<<>>) \in Nat
    BY <1>1
  <2>2. QED
    BY <2>1, BetweenIs
<1>3. k[0] = <<>>
  BY <1>1, <1>2 DEF Kept
<1>4. QED
  BY <1>1, <1>2, <1>3

LEMMA BetweenAppend ==
  ASSUME NEW m, NEW l, NEW s, NEW x, Sequence(s)
  PROVE  Between(m, l, Append(s, x)) =
           IF Matches(m, l, x) THEN Append(Between(m, l, s), x) ELSE Between(m, l, s)
<1> DEFINE t == Append(s, x)
           n == Len(s)
<1>1. /\ n \in Nat /\ Len(t) = n + 1
      /\ \A i \in 1 .. n : s[i] = t[i]
      /\ t[n + 1] = x
  BY AppendSequence
<1> HIDE DEF t, n
<1>2. PICK k : Kept(k, m, l, s, n) /\ Between(m, l, s) = k[n]
  BY <1>1, BetweenIs DEF n
<1>3. PICK q : Kept(q, m, l, t, n + 1) /\ Between(m, l, t) = q[n + 1]
  <2>1. Len(t) \in Nat
    BY <1>1
  <2>2. QED
    BY <1>1, <2>1, BetweenIs
<1>4. k[n] = q[n]
  <2>1. n + 1 \in Nat /\ n <= n + 1
    BY <1>1
  <2>2. \A i \in 0 .. n : k[i] = q[i]
    BY <1>1, <1>2, <1>3, <2>1, KeptUnique
  <2>3. QED
    BY <1>1, <2>2
<1>5. q[n + 1] = IF Matches(m, l, t[n + 1]) THEN Append(q[n], t[n + 1]) ELSE q[n]
  <2>1. n + 1 \in 0 .. n + 1 /\ n + 1 # 0 /\ n + 1 - 1 = n
    BY <1>1
  <2>2. q = [i \in 0 .. n + 1 |->
               IF i = 0 THEN <<>>
               ELSE IF Matches(m, l, t[i]) THEN Append(q[i - 1], t[i]) ELSE q[i - 1]]
    BY <1>3 DEF Kept
  <2>3. \A i \in 0 .. n + 1 : q[i] =
               IF i = 0 THEN <<>>
               ELSE IF Matches(m, l, t[i]) THEN Append(q[i - 1], t[i]) ELSE q[i - 1]
    BY <2>2
  <2> DEFINE e == n + 1
  <2>4. e \in 0 .. e /\ e # 0 /\ e - 1 = n
    BY <2>1, <1>1
  <2>5. \A i \in 0 .. e : q[i] =
               IF i = 0 THEN <<>>
               ELSE IF Matches(m, l, t[i]) THEN Append(q[i - 1], t[i]) ELSE q[i - 1]
    BY <2>3
  <2> HIDE DEF e
  <2>6. q[e] = IF Matches(m, l, t[e]) THEN Append(q[e - 1], t[e]) ELSE q[e - 1]
    BY <2>4, <2>5
  <2>7. QED
    BY <2>4, <2>6 DEF e
<1>6. q[n + 1] = IF Matches(m, l, x) THEN Append(k[n], x) ELSE k[n]
  BY <1>1, <1>4, <1>5
<1>7. QED
  BY <1>2, <1>3, <1>6 DEF t

\* What Between returns is a sequence.
LEMMA BetweenSequence ==
  ASSUME NEW m, NEW l, NEW s, Sequence(s)
  PROVE  Sequence(Between(m, l, s))
<1>1. Len(s) \in Nat
  BY LenProperties DEF Sequence
<1>2. PICK k : Kept(k, m, l, s, Len(s)) /\ Between(m, l, s) = k[Len(s)]
  BY <1>1, BetweenIs
<1> DEFINE n == Len(s)
           Bad == {i \in 0 .. n : ~Sequence(k[i])}
<1>3. ASSUME Bad # {} PROVE FALSE
  <2>1. PICK i \in Bad : \A j \in Bad : i <= j
    <3>1. Bad \in SUBSET Nat
      OBVIOUS
    <3> HIDE DEF Bad
    <3>2. QED
      BY <1>3, <3>1, LeastNatural
  <2>2. k[i] = IF i = 0 THEN <<>>
               ELSE IF Matches(m, l, s[i]) THEN Append(k[i - 1], s[i]) ELSE k[i - 1]
    <3>1. i \in 0 .. n
      BY <2>1
    <3>2. QED
      BY <3>1, <1>2 DEF Kept
  <2>3. i # 0
    BY <2>1, <2>2, EmptySequence
  <2>4. i - 1 \notin Bad /\ i - 1 \in 0 .. n
    BY <2>1, <2>3, <1>1
  <2>5. Sequence(k[i - 1])
    BY <2>4
  <2>6. Sequence(Append(k[i - 1], s[i]))
    BY <2>5, AppendSequence
  <2>7. Sequence(k[i])
    BY <2>2, <2>3, <2>5, <2>6
  <2>8. QED
    BY <2>1, <2>7
<1>4. QED
  BY <1>1, <1>2, <1>3

\* The prefixes of a sequence.
LEMMA PrefixesOfSequence ==
  ASSUME NEW t, Sequence(t)
  PROVE  /\ Len(t) \in Nat
         /\ SubSeq(t, 1, 0) = <<>>
         /\ SubSeq(t, 1, Len(t)) = t
         /\ \A j \in 0 .. Len(t) : Sequence(SubSeq(t, 1, j))
         /\ \A j \in 1 .. Len(t) : SubSeq(t, 1, j) = Append(SubSeq(t, 1, j - 1), t[j])
<1>1. t \in Seq(Range(t)) /\ Len(t) \in Nat
  BY LenProperties DEF Sequence
<1>2. ASSUME NEW j \in 0 .. Len(t) PROVE Sequence(SubSeq(t, 1, j))
  <2>1. \A i \in 1 .. j : t[i] \in Range(t)
    BY <1>1, <1>2, ElementOfSeq
  <2>2. SubSeq(t, 1, j) \in Seq(Range(t))
    BY <1>1, <2>1, SubSeqProperties
  <2>3. QED
    BY <2>2, RangeOfSequence
<1>3. ASSUME NEW j \in 1 .. Len(t)
      PROVE  SubSeq(t, 1, j) = Append(SubSeq(t, 1, j - 1), t[j])
  <2>1. 1 \in 1 .. Len(t) /\ j \in 1 .. Len(t)
    BY <1>1
  <2>2. SubSeq(t, 1, j) = SubSeq(t, 1, j - 1) \o <<t[j]>>
    BY <1>1, <2>1, SubSeqRecursiveSecond
  <2>3. Sequence(SubSeq(t, 1, j - 1))
    <3>1. j - 1 \in 0 .. Len(t)
      BY <1>1
    <3>2. QED
      BY <3>1, <1>2
  <2>4. Append(SubSeq(t, 1, j - 1), t[j]) = SubSeq(t, 1, j - 1) \o <<t[j]>>
    BY <2>3, AppendConcat
  <2>5. QED
    BY <2>2, <2>4
<1>4. SubSeq(t, 1, 0) = <<>>
  BY SubSeqEmpty
<1>5. SubSeq(t, 1, Len(t)) = t
  BY <1>1, SubSeqFull
<1>6. QED
  BY <1>1, <1>2, <1>3, <1>4, <1>5

\* Between distributes over concatenation.
LEMMA BetweenConcat ==
  ASSUME NEW m, NEW l, NEW s, NEW t, Sequence(s), Sequence(t)
  PROVE  Between(m, l, s \o t) = Between(m, l, s) \o Between(m, l, t)
<1> DEFINE Prefix(j) == SubSeq(t, 1, j)
           B(u) == Between(m, l, u)
           Bad == {j \in 0 .. Len(t) : B(s \o Prefix(j)) # B(s) \o B(Prefix(j))}
<1>1. /\ Len(t) \in Nat
      /\ Prefix(0) = <<>>
      /\ Prefix(Len(t)) = t
      /\ \A j \in 0 .. Len(t) : Sequence(Prefix(j))
      /\ \A j \in 1 .. Len(t) : Prefix(j) = Append(Prefix(j - 1), t[j])
  BY PrefixesOfSequence
<1> HIDE DEF Prefix
<1>2. Sequence(B(s))
  BY BetweenSequence
<1>3. ASSUME Bad # {} PROVE FALSE
  <2>1. PICK j \in Bad : \A i \in Bad : j <= i
    <3>1. Bad \in SUBSET Nat
      OBVIOUS
    <3> HIDE DEF Bad
    <3>2. QED
      BY <1>3, <3>1, LeastNatural
  <2>2. j # 0
    <3>1. s \o <<>> = s /\ B(s) \o <<>> = B(s)
      <4>1. s \o <<>> = s
        BY AppendConcat
      <4> HIDE DEF B
      <4>2. B(s) \o <<>> = B(s)
        BY <1>2, AppendConcat
      <4>3. QED
        BY <4>1, <4>2
    <3>2. B(<<>>) = <<>>
      BY BetweenEmpty
    <3>3. B(s \o <<>>) = B(s) \o B(<<>>)
      BY <3>1, <3>2
    <3>4. QED
      BY <3>3, <2>1, <1>1
  <2> DEFINE u == Prefix(j - 1)
  <2>3. /\ j - 1 \in 0 .. Len(t) /\ j \in 1 .. Len(t)
        /\ B(s \o u) = B(s) \o B(u)
    BY <2>1, <2>2, <1>1
  <2>4. Prefix(j) = Append(u, t[j]) /\ Sequence(u)
    BY <2>3, <1>1
  <2> HIDE DEF u
  <2>5. s \o Append(u, t[j]) = Append(s \o u, t[j]) /\ Sequence(s \o u)
    <3> DEFINE x == t[j]
    <3>1. Sequence(s) /\ Sequence(u)
      BY <2>4
    <3> HIDE DEF x
    <3>2. s \o Append(u, x) = Append(s \o u, x)
      BY <3>1, ConcatAppend
    <3>3. Sequence(s \o u)
      BY <3>1, ConcatSequence
    <3>4. QED
      BY <3>2, <3>3 DEF x
  <2>6. /\ B(Append(s \o u, t[j])) =
             IF Matches(m, l, t[j]) THEN Append(B(s \o u), t[j]) ELSE B(s \o u)
        /\ B(Append(u, t[j])) =
             IF Matches(m, l, t[j]) THEN Append(B(u), t[j]) ELSE B(u)
    <3>1. B(Append(s \o u, t[j])) =
            IF Matches(m, l, t[j]) THEN Append(B(s \o u), t[j]) ELSE B(s \o u)
      <4> DEFINE su == s \o u
      <4>1. Sequence(su)
        BY <2>5
      <4> HIDE DEF su
      <4>2. B(Append(su, t[j])) = IF Matches(m, l, t[j]) THEN Append(B(su), t[j]) ELSE B(su)
        BY <4>1, BetweenAppend
      <4>3. QED
        BY <4>2 DEF su
    <3>2. B(Append(u, t[j])) =
            IF Matches(m, l, t[j]) THEN Append(B(u), t[j]) ELSE B(u)
      BY <2>4, BetweenAppend
    <3>3. QED
      BY <3>1, <3>2
  <2>7. Sequence(B(u))
    BY <2>4, BetweenSequence
  <2> HIDE DEF B
  <2>8. Append(B(s) \o B(u), t[j]) = B(s) \o Append(B(u), t[j])
    <3> DEFINE bs == B(s)
               bu == B(u)
    <3>1. Sequence(bs) /\ Sequence(bu)
      BY <1>2, <2>7
    <3> HIDE DEF bs, bu
    <3>2. bs \o Append(bu, t[j]) = Append(bs \o bu, t[j])
      BY <3>1, ConcatAppend
    <3>3. QED
      BY <3>2 DEF bs, bu
  <2>9. B(s \o Prefix(j)) = B(s) \o B(Prefix(j))
    BY <2>3, <2>4, <2>5, <2>6, <2>8
  <2>10. QED
    BY <2>1, <2>9
<1>4. Len(t) \in 0 .. Len(t)
  BY <1>1
<1>5. Len(t) \notin Bad
  BY <1>3
<1>6. B(s \o Prefix(Len(t))) = B(s) \o B(Prefix(Len(t)))
  BY <1>4, <1>5
<1>7. QED
  BY <1>1, <1>6
-------------------------------------------------------------------------------
Places == {"out", "in", "waiting", "leaving", "locked", "sent", "unlock", "collect"}

Locks == Lists \cup {sendLock(m) : m \in Machines}

ControlOK ==
  /\ pc \in [Threads -> Places]
  /\ up \subseteq Machines
  /\ sending \in [Machines -> Nat]
  /\ messageSent \in [Machines -> Nat]
  /\ messageAvailable \in [Machines -> Nat]
  /\ owner \in [Locks -> Threads \cup {NoThread}]
  /\ waitList \in [Lists -> Seq(Elements(Threads))]
  /\ DOMAIN todo = Threads
  /\ \A t \in Clients : todo[t] \in Seq(Calls)

\* A sequence of mails: what Remove returns for an empty list is not one.
Mails(s) == Sequence(s) /\ NULL \notin Range(s)

MailsOK ==
  /\ DOMAIN list = Lists
  /\ DOMAIN removed = Lists
  /\ DOMAIN got = Threads
  /\ DOMAIN sent = Machines
  /\ DOMAIN socket = Machines
  /\ DOMAIN inbox = Machines
  /\ \A l \in Lists : Mails(list[l]) /\ Mails(removed[l])
  /\ \A t \in Threads : Mails(got[t])
  /\ \A m \in Machines : Mails(sent[m]) /\ Mails(socket[m])

\* The one call of a postal worker: to put a packet in the box it is for.
Carries(m) ==
  LET t == Worker[m]
      packet == Head(todo[t]).item
  IN  /\ todo[t] = <<AppendTo(<<m, packet.box>>, packet)>>
      /\ packet # NULL

WorkersDeliver ==
  \A m \in Machines :
    \/ todo[Worker[m]] = <<>> /\ pc[Worker[m]] \in {"out", "collect"}
    \/ Carries(m) /\ pc[Worker[m]] \in {"out", "in", "leaving"}

ClientsDoNot == \A t \in Clients : pc[t] # "collect"

Sending(t) == pc[t] \in {"locked", "sent", "unlock"}

SendersHoldLock == \A t \in Threads : Sending(t) => CallsSend(t) /\ owner[sendLock(Host[t])] = t

WaitersWait ==
  \A l \in Lists :
    /\ Distinct(waitList[l])
    /\ \A t \in Items(waitList[l]) : pc[t] = "waiting" /\ Calling(t, "Remove", l)

-------------------------------------------------------------------------------
\* What a step on a mailbox leaves alone.
BoxesAlone == UNCHANGED <<up, parameters, deviceVars, semaphores, aborted>>

\* Each thread is a client or the postal worker of one machine.
LEMMA ThreadsAndMachines ==
  /\ NoThread \notin Threads
  /\ \A t \in Threads : Host[t] \in Machines /\ Priority[t] \in Int
  /\ \A m \in Machines : Worker[m] \in Threads /\ Worker[m] \notin Clients
  /\ \A t \in Threads \ Clients : \E m \in Machines : t = Worker[m]
  /\ \A m \in Machines : Host[Worker[m]] = m
  /\ Clients \subseteq Threads
<1>1. \A m \in Machines : Worker[m] \in Range(Worker)
  BY PostOfficeAssumption DEF Range
<1>2. \A t \in Range(Worker) : \E m \in Machines : t = Worker[m]
  BY PostOfficeAssumption DEF Range
<1>3. QED
  BY <1>1, <1>2, PostOfficeAssumption, SynchListAssumption DEF Clients

\* The lock of Send is the lock of no mailbox and of no other machine.
LEMMA LockNames ==
  /\ \A m \in Machines : sendLock(m) \in Locks /\ sendLock(m) \notin Lists
  /\ \A m, n \in Machines : sendLock(m) = sendLock(n) => m = n
  /\ Lists \subseteq Locks
  /\ \A l \in Lists : \E n \in Machines, b \in Boxes : l = <<n, b>>
  /\ \A n \in Machines, b \in Boxes : <<n, b>> \in Lists
<1>1. \A m \in Machines : sendLock(m) \notin Machines \X Boxes
  <2>1. -1 \notin Boxes
    BY PostOfficeAssumption
  <2>2. QED
    BY <2>1 DEF sendLock
<1>2. Lists = Machines \X Boxes
  BY PostOfficeAssumption
<1>3. \A l \in Lists : \E n \in Machines, b \in Boxes : l = <<n, b>>
  BY <1>2
<1>4. \A m, n \in Machines : sendLock(m) = sendLock(n) => m = n
  BY DEF sendLock
<1>5. QED
  BY <1>1, <1>2, <1>3, <1>4 DEF Locks

\* The calls that are left are calls.
LEMMA CallsLeft ==
  ASSUME NEW t \in Clients, ControlOK, todo[t] # <<>>
  PROVE  Head(todo[t]) \in Calls /\ Tail(todo[t]) \in Seq(Calls)
<1>1. todo[t] \in Seq(Calls)
  BY DEF ControlOK
<1>2. QED
  BY <1>1, HeadTailProperties

\* Only clients send.
LEMMA SendersAreClients ==
  ASSUME WorkersDeliver, NEW t \in Threads, Sending(t)
  PROVE  t \in Clients
  BY ThreadsAndMachines DEF WorkersDeliver, Sending

\* A call that returns leaves calls.
LEMMA ReturnTyped ==
  ASSUME ControlOK, NEW t \in Threads, todo[t] # <<>>, Return(t)
  PROVE  DOMAIN todo' = Threads /\ \A u \in Clients : todo'[u] \in Seq(Calls)
<1>1. todo' = [todo EXCEPT ![t] = Tail(todo[t])] /\ DOMAIN todo = Threads
  BY DEF Return, ControlOK
<1>2. \A u \in Clients : todo[u] \in Seq(Calls)
  BY DEF ControlOK
<1>3. t \in Clients => Tail(todo[t]) \in Seq(Calls)
  BY CallsLeft
<1>4. QED
  BY <1>1, <1>2, <1>3, ThreadsAndMachines

\* The call of a postal worker that carries a packet.
LEMMA CarrierCalls ==
  ASSUME NEW m \in Machines, Carries(m)
  PROVE  LET call == Head(todo[Worker[m]])
         IN  /\ todo[Worker[m]] # <<>>
             /\ call.op = "Append"
             /\ call.list = <<m, call.item.box>>
             /\ call.item # NULL
             /\ Tail(todo[Worker[m]]) = <<>>
             /\ todo[Worker[m]] = <<call>>
<1> DEFINE packet == Head(todo[Worker[m]]).item
           call == AppendTo(<<m, packet.box>>, packet)
<1>1. todo[Worker[m]] = <<call>> /\ packet # NULL
  BY DEF Carries
<1>2. call.op = "Append" /\ call.list = <<m, packet.box>> /\ call.item = packet
  BY DEF AppendTo
<1> HIDE DEF call, packet
<1>3. Head(<<call>>) = call /\ Tail(<<call>>) = <<>> /\ <<call>> # <<>>
  OBVIOUS
<1>4. QED
  BY <1>1, <1>2, <1>3

\* The one list call of a postal worker is Append.
LEMMA OthersAreClients ==
  ASSUME WorkersDeliver, NEW t \in Threads, todo[t] # <<>>, Head(todo[t]).op # "Append"
  PROVE  t \in Clients
  BY ThreadsAndMachines, CarrierCalls DEF WorkersDeliver

\* Each step keeps the types of the control state.
LEMMA ControlStep ==
  ASSUME ControlOK, SendersHoldLock, WorkersDeliver, ClientsDoNot, [Next]_vars
  PROVE  ControlOK'
<1>1. ASSUME NEW t \in Threads, SendAcquires(t)
      PROVE  ControlOK'
  BY <1>1, ThreadsAndMachines, LockNames
  DEF SendAcquires, Acquire, Goto, At, BoxesAlone, Places, listVars, parameters,
      deviceVars, semaphores, ControlOK
<1>2. ASSUME NEW t \in Threads, NetworkSend(t)
      PROVE  ControlOK'
  BY <1>2, ThreadsAndMachines, LockNames
  DEF NetworkSend, Goto, SendToSocket, At, BoxesAlone, Places, listVars, parameters,
      deviceVars, semaphores, ControlOK
<1>3. ASSUME NEW t \in Threads, SendWaits(t)
      PROVE  ControlOK'
  BY <1>3, ThreadsAndMachines, LockNames
  DEF SendWaits, Goto, At, BoxesAlone, Places, listVars, parameters, deviceVars,
      semaphores, ControlOK
<1>4. ASSUME NEW t \in Threads, SendReleases(t)
      PROVE  ControlOK'
  <2>1. Return(t) /\ todo[t] # <<>>
    BY <1>4 DEF SendersHoldLock, Sending, At, CallsSend, SendReleases
  <2>2. DOMAIN todo' = Threads /\ \A u \in Clients : todo'[u] \in Seq(Calls)
    BY <2>1, ReturnTyped
  <2>3. QED
    BY <1>4, <2>2, ThreadsAndMachines, LockNames
    DEF SendReleases, Release, Goto, Holds, At, BoxesAlone, Places, listVars, parameters,
        deviceVars, semaphores, ControlOK
<1>5. ASSUME NEW t \in Threads, HaltMachine(t)
      PROVE  ControlOK'
  BY <1>5, ThreadsAndMachines, LockNames
  DEF HaltMachine, At, BoxesAlone, Places, listVars, parameters, deviceVars, semaphores,
      ControlOK
<1>6. ASSUME NEW t \in Threads, NEW l \in Lists, BoxesAlone, Enter(t, l)
      PROVE  ControlOK'
  BY <1>6, ThreadsAndMachines, LockNames
  DEF Enter, Acquire, Goto, At, BoxesAlone, Places, listVars, parameters, deviceVars,
      semaphores, ControlOK
<1>7. ASSUME NEW t \in Threads, NEW l \in Lists, BoxesAlone, AppendItemAndSignal(t, l)
      PROVE  ControlOK'
  BY <1>7, ThreadsAndMachines, LockNames
  DEF AppendItemAndSignal, Signal, Goto, At, BoxesAlone, Places, listVars, parameters,
      deviceVars, semaphores, ControlOK
<1>8. ASSUME NEW t \in Threads, NEW l \in Lists, BoxesAlone, Leave(t, l)
      PROVE  ControlOK'
  <2>1. Return(t) /\ todo[t] # <<>>
    BY <1>8 DEF Calling, Leave
  <2>2. DOMAIN todo' = Threads /\ \A u \in Clients : todo'[u] \in Seq(Calls)
    BY <2>1, ReturnTyped
  <2>3. QED
    BY <1>8, <2>2, ThreadsAndMachines, LockNames
    DEF Leave, Release, Goto, At, BoxesAlone, Places, listVars, parameters, deviceVars,
        semaphores, ControlOK
<1>9. ASSUME NEW t \in Threads, NEW l \in Lists, BoxesAlone, WaitForItem(t, l)
      PROVE  ControlOK'
  <2>1. SortedInsert(waitList[l], t, Priority[t]) \in Seq(Elements(Threads))
    <3>1. waitList[l] \in Seq(Elements(Threads)) /\ Priority[t] \in Int
      BY ThreadsAndMachines DEF ControlOK
    <3>2. QED
      BY <3>1, InsertShape
  <2>2. QED
    BY <1>9, <2>1, ThreadsAndMachines, LockNames
    DEF WaitForItem, Wait, Goto, BoxesAlone, Places, parameters, deviceVars, semaphores, ControlOK
<1>10. ASSUME NEW t \in Threads, NEW l \in Lists, BoxesAlone, WaitReturns(t, l)
      PROVE  ControlOK'
  BY <1>10, ThreadsAndMachines, LockNames
  DEF WaitReturns, ReturnFromWait, Acquire, Goto, At, BoxesAlone, Places, listVars,
      parameters, deviceVars, semaphores, ControlOK
<1>11. ASSUME NEW t \in Threads, NEW l \in Lists, BoxesAlone, RemoveItem(t, l)
      PROVE  ControlOK'
  <2>1. Return(t) /\ todo[t] # <<>>
    BY <1>11 DEF Calling, RemoveItem
  <2>2. DOMAIN todo' = Threads /\ \A u \in Clients : todo'[u] \in Seq(Calls)
    BY <2>1, ReturnTyped
  <2>3. QED
    BY <1>11, <2>2, ThreadsAndMachines, LockNames
    DEF RemoveItem, Release, Goto, At, BoxesAlone, Places, listVars, parameters,
        deviceVars, semaphores, ControlOK
<1>12. ASSUME NEW t \in Threads, WorkerWaits(t)
      PROVE  ControlOK'
  BY <1>12, ThreadsAndMachines, LockNames
  DEF WorkerWaits, Goto, At, BoxesAlone, Places, listVars, parameters, deviceVars,
      semaphores, ControlOK
<1>13. ASSUME NEW t \in Threads, WorkerCollects(t)
      PROVE  ControlOK'
  <2>1. t \notin Clients
    BY <1>13 DEF WorkerCollects, At, ClientsDoNot
  <2>2. QED
    BY <1>13, <2>1, ThreadsAndMachines
    DEF WorkerCollects, Goto, At, Places, listVars, parameters, semaphores, ControlOK
<1>14. ASSUME NEW m \in Machines, CheckPktAvail(m)
      PROVE  ControlOK'
  BY <1>14, ThreadsAndMachines, LockNames
  DEF CheckPktAvail, PollSocket, ReadFromSocket, At, BoxesAlone, Places, listVars,
      parameters, deviceVars, semaphores, ControlOK
<1>15. ASSUME NEW m \in Machines, SendDone(m)
      PROVE  ControlOK'
  BY <1>15, ThreadsAndMachines, LockNames
  DEF SendDone, At, BoxesAlone, Places, listVars, parameters, deviceVars, semaphores,
      ControlOK
<1>16. ASSUME UNCHANGED vars
      PROVE  ControlOK'
  BY <1>16 DEF vars, listVars, parameters, deviceVars, semaphores, ControlOK
<1>17. QED
  BY <1>1, <1>2, <1>3, <1>4, <1>5, <1>6, <1>7, <1>8, <1>9, <1>10, <1>11, <1>12, <1>13,
     <1>14, <1>15, <1>16
  DEF Next, Step, Interrupts, UseBox, ListStep, BoxesAlone

\* Each step leaves the postal workers idle or delivering one packet.
LEMMA WorkersDeliverStep ==
  ASSUME ControlOK, WorkersDeliver, ClientsDoNot, SendersHoldLock, WaitersWait, [Next]_vars
  PROVE  WorkersDeliver'
<1>1. ASSUME NEW t \in Threads, SendAcquires(t)
      PROVE  WorkersDeliver'
  <2>1. t \in Clients
    <3>1. todo[t] # <<>> /\ Head(todo[t]).op # "Append"
      BY <1>1 DEF SendAcquires, CallsSend, Calling
    <3>2. QED
      BY <3>1, OthersAreClients
  <2>2. \A u \in Threads \ {t} : todo'[u] = todo[u] /\ pc'[u] = pc[u]
    BY <1>1 DEF SendAcquires, Acquire, Goto, ControlOK
  <2>3. QED
    BY <2>1, <2>2, ThreadsAndMachines DEF WorkersDeliver, Carries
<1>2. ASSUME NEW t \in Threads, NetworkSend(t)
      PROVE  WorkersDeliver'
  BY <1>2, ThreadsAndMachines, LockNames
  DEF NetworkSend, Goto, SendToSocket, At, BoxesAlone, listVars, parameters, deviceVars,
      semaphores, ControlOK, WorkersDeliver, Carries, CallsSend, Calling, AppendTo, Halt,
      NoPacket
<1>3. ASSUME NEW t \in Threads, SendWaits(t)
      PROVE  WorkersDeliver'
  BY <1>3, ThreadsAndMachines, LockNames
  DEF SendWaits, Goto, At, BoxesAlone, listVars, parameters, deviceVars, semaphores,
      ControlOK, WorkersDeliver, Carries, CallsSend, Calling, AppendTo, Halt, NoPacket
<1>4. ASSUME NEW t \in Threads, SendReleases(t)
      PROVE  WorkersDeliver'
  BY <1>4, ThreadsAndMachines, LockNames
  DEF SendReleases, Release, Goto, Return, Holds, At, BoxesAlone, listVars, parameters,
      deviceVars, semaphores, ControlOK, WorkersDeliver, Carries, CallsSend, Calling,
      AppendTo, Halt, NoPacket
<1>5. ASSUME NEW t \in Threads, HaltMachine(t)
      PROVE  WorkersDeliver'
  BY <1>5, ThreadsAndMachines, LockNames
  DEF HaltMachine, At, BoxesAlone, listVars, parameters, deviceVars, semaphores, ControlOK,
      WorkersDeliver, Carries, CallsSend, Calling, AppendTo, Halt, NoPacket
<1>6. ASSUME NEW t \in Threads, NEW l \in Lists, BoxesAlone, Enter(t, l)
      PROVE  WorkersDeliver'
  BY <1>6, ThreadsAndMachines, LockNames
  DEF Enter, Acquire, Goto, At, BoxesAlone, listVars, parameters, deviceVars, semaphores,
      ControlOK, WorkersDeliver, Carries, CallsSend, Calling, AppendTo, Halt, NoPacket
<1>7. ASSUME NEW t \in Threads, NEW l \in Lists, BoxesAlone, AppendItemAndSignal(t, l)
      PROVE  WorkersDeliver'
  BY <1>7, ThreadsAndMachines, LockNames
  DEF AppendItemAndSignal, Signal, Goto, At, BoxesAlone, listVars, parameters, deviceVars,
      semaphores, ControlOK, WorkersDeliver, Carries, CallsSend, Calling, AppendTo, Halt,
      NoPacket
<1>8. ASSUME NEW t \in Threads, NEW l \in Lists, BoxesAlone, Leave(t, l)
      PROVE  WorkersDeliver'
  <2>1. /\ pc' = [pc EXCEPT ![t] = "out"]
        /\ todo' = [todo EXCEPT ![t] = Tail(todo[t])]
        /\ todo[t] # <<>>
    BY <1>8 DEF Leave, Goto, Return, Calling
  <2>2. pc' = [u \in Threads |-> IF u = t THEN "out" ELSE pc[u]]
    BY <2>1 DEF ControlOK
  <2>3. \A u \in Threads : todo'[u] = IF u = t THEN Tail(todo[u]) ELSE todo[u]
    BY <2>1 DEF ControlOK
  <2>4. ASSUME NEW m \in Machines, t = Worker[m]
        PROVE  todo'[t] = <<>> /\ pc'[t] = "out"
    <3>1. Carries(m)
      BY <2>1, <2>4 DEF WorkersDeliver
    <3>2. Tail(todo[t]) = <<>>
      BY <3>1, <2>4, CarrierCalls
    <3>3. QED
      BY <3>2, <2>2, <2>3
  <2>5. QED
    BY <2>2, <2>3, <2>4, ThreadsAndMachines DEF WorkersDeliver, Carries
<1>9. ASSUME NEW t \in Threads, NEW l \in Lists, BoxesAlone, WaitForItem(t, l)
      PROVE  WorkersDeliver'
  <2>1. t \in Clients
    <3>1. todo[t] # <<>> /\ Head(todo[t]).op # "Append"
      BY <1>9 DEF WaitForItem, CallsSend, Calling
    <3>2. QED
      BY <3>1, OthersAreClients
  <2>2. \A u \in Threads \ {t} : todo'[u] = todo[u] /\ pc'[u] = pc[u]
    BY <1>9 DEF WaitForItem, Wait, Goto, ControlOK
  <2>3. QED
    BY <2>1, <2>2, ThreadsAndMachines DEF WorkersDeliver, Carries
<1>10. ASSUME NEW t \in Threads, NEW l \in Lists, BoxesAlone, WaitReturns(t, l)
      PROVE  WorkersDeliver'
  BY <1>10, ThreadsAndMachines, LockNames
  DEF WaitReturns, ReturnFromWait, Acquire, Goto, At, BoxesAlone, listVars, parameters,
      deviceVars, semaphores, ControlOK, WorkersDeliver, Carries, CallsSend, Calling,
      AppendTo, Halt, NoPacket
<1>11. ASSUME NEW t \in Threads, NEW l \in Lists, BoxesAlone, RemoveItem(t, l)
      PROVE  WorkersDeliver'
  <2>1. t \in Clients
    <3>1. todo[t] # <<>> /\ Head(todo[t]).op # "Append"
      BY <1>11 DEF RemoveItem, CallsSend, Calling
    <3>2. QED
      BY <3>1, OthersAreClients
  <2>2. \A u \in Threads \ {t} : todo'[u] = todo[u] /\ pc'[u] = pc[u]
    BY <1>11 DEF RemoveItem, Release, Goto, Return, ControlOK
  <2>3. QED
    BY <2>1, <2>2, ThreadsAndMachines DEF WorkersDeliver, Carries
<1>12. ASSUME NEW t \in Threads, WorkerWaits(t)
      PROVE  WorkersDeliver'
  BY <1>12, ThreadsAndMachines, LockNames
  DEF WorkerWaits, Goto, At, BoxesAlone, listVars, parameters, deviceVars, semaphores,
      ControlOK, WorkersDeliver, Carries, CallsSend, Calling, AppendTo, Halt, NoPacket
<1>13. ASSUME NEW t \in Threads, WorkerCollects(t)
      PROVE  WorkersDeliver'
  <2> DEFINE m == Host[t]
             packet == inbox[m]
             call == AppendTo(<<m, packet.box>>, packet)
  <2>1. t = Worker[m] /\ m \in Machines
    BY <1>13, ThreadsAndMachines DEF WorkerCollects, At, ClientsDoNot
  <2>2. /\ packet # NULL
        /\ todo' = [todo EXCEPT ![t] = <<call>>]
        /\ pc' = [pc EXCEPT ![t] = "out"]
    BY <1>13 DEF WorkerCollects, Goto, NoPacket
  <2>3. Head(<<call>>) = call /\ call.item = packet
    BY DEF AppendTo
  <2>4. /\ \A u \in Threads \ {t} : todo'[u] = todo[u] /\ pc'[u] = pc[u]
        /\ todo'[t] = <<call>> /\ pc'[t] = "out"
    BY <2>2 DEF ControlOK
  <2>5. Head(todo'[t]).item = packet
    BY <2>3, <2>4
  <2>6. Carries(m)'
    BY <2>1, <2>2, <2>4, <2>5 DEF Carries
  <2>7. ASSUME NEW n \in Machines, n # m
        PROVE  /\ Worker[n] \in Threads /\ Worker[n] # t
               /\ Carries(n) => Carries(n)'
    <3>1. Worker[n] \in Threads /\ Worker[n] # t
      BY <2>1, <2>7, ThreadsAndMachines
    <3>2. todo'[Worker[n]] = todo[Worker[n]]
      BY <3>1, <2>4
    <3>3. QED
      BY <3>1, <3>2 DEF Carries
  <2> HIDE DEF m, packet, call
  <2>8. QED
    BY <2>1, <2>4, <2>6, <2>7 DEF WorkersDeliver
<1>14. ASSUME NEW m \in Machines, CheckPktAvail(m)
      PROVE  WorkersDeliver'
  BY <1>14, ThreadsAndMachines, LockNames
  DEF CheckPktAvail, PollSocket, ReadFromSocket, At, BoxesAlone, listVars, parameters,
      deviceVars, semaphores, ControlOK, WorkersDeliver, Carries, CallsSend, Calling,
      AppendTo, Halt, NoPacket
<1>15. ASSUME NEW m \in Machines, SendDone(m)
      PROVE  WorkersDeliver'
  BY <1>15, ThreadsAndMachines, LockNames
  DEF SendDone, At, BoxesAlone, listVars, parameters, deviceVars, semaphores, ControlOK,
      WorkersDeliver, Carries, CallsSend, Calling, AppendTo, Halt, NoPacket
<1>16. ASSUME UNCHANGED vars
      PROVE  WorkersDeliver'
  BY <1>16
  DEF vars, listVars, parameters, deviceVars, semaphores, WorkersDeliver, Carries,
      CallsSend, Calling, AppendTo, Halt, NoPacket
<1>17. QED
  BY <1>1, <1>2, <1>3, <1>4, <1>5, <1>6, <1>7, <1>8, <1>9, <1>10, <1>11, <1>12, <1>13,
     <1>14, <1>15, <1>16
  DEF Next, Step, Interrupts, UseBox, ListStep, BoxesAlone

\* Only a postal worker goes on to collect a packet.
LEMMA ClientsDoNotStep ==
  ASSUME ControlOK, ClientsDoNot, [Next]_vars
  PROVE  ClientsDoNot'
<1>1. ASSUME NEW t \in Threads, SendAcquires(t)
      PROVE  ClientsDoNot'
  BY <1>1, ThreadsAndMachines, LockNames
  DEF SendAcquires, Acquire, Goto, At, BoxesAlone, listVars, parameters, deviceVars,
      semaphores, ControlOK, ClientsDoNot
<1>2. ASSUME NEW t \in Threads, NetworkSend(t)
      PROVE  ClientsDoNot'
  BY <1>2, ThreadsAndMachines, LockNames
  DEF NetworkSend, Goto, SendToSocket, At, BoxesAlone, listVars, parameters, deviceVars,
      semaphores, ControlOK, ClientsDoNot
<1>3. ASSUME NEW t \in Threads, SendWaits(t)
      PROVE  ClientsDoNot'
  BY <1>3, ThreadsAndMachines, LockNames
  DEF SendWaits, Goto, At, BoxesAlone, listVars, parameters, deviceVars, semaphores,
      ControlOK, ClientsDoNot
<1>4. ASSUME NEW t \in Threads, SendReleases(t)
      PROVE  ClientsDoNot'
  BY <1>4, ThreadsAndMachines, LockNames
  DEF SendReleases, Release, Goto, Return, Holds, At, BoxesAlone, listVars, parameters,
      deviceVars, semaphores, ControlOK, ClientsDoNot
<1>5. ASSUME NEW t \in Threads, HaltMachine(t)
      PROVE  ClientsDoNot'
  BY <1>5, ThreadsAndMachines, LockNames
  DEF HaltMachine, At, BoxesAlone, listVars, parameters, deviceVars, semaphores, ControlOK,
      ClientsDoNot
<1>6. ASSUME NEW t \in Threads, NEW l \in Lists, BoxesAlone, Enter(t, l)
      PROVE  ClientsDoNot'
  BY <1>6, ThreadsAndMachines, LockNames
  DEF Enter, Acquire, Goto, At, BoxesAlone, listVars, parameters, deviceVars, semaphores,
      ControlOK, ClientsDoNot
<1>7. ASSUME NEW t \in Threads, NEW l \in Lists, BoxesAlone, AppendItemAndSignal(t, l)
      PROVE  ClientsDoNot'
  BY <1>7, ThreadsAndMachines, LockNames
  DEF AppendItemAndSignal, Signal, Goto, At, BoxesAlone, listVars, parameters, deviceVars,
      semaphores, ControlOK, ClientsDoNot
<1>8. ASSUME NEW t \in Threads, NEW l \in Lists, BoxesAlone, Leave(t, l)
      PROVE  ClientsDoNot'
  BY <1>8, ThreadsAndMachines, LockNames
  DEF Leave, Release, Goto, Return, At, BoxesAlone, listVars, parameters, deviceVars,
      semaphores, ControlOK, ClientsDoNot
<1>9. ASSUME NEW t \in Threads, NEW l \in Lists, BoxesAlone, WaitForItem(t, l)
      PROVE  ClientsDoNot'
  BY <1>9, ThreadsAndMachines, LockNames
  DEF WaitForItem, Wait, Goto, At, BoxesAlone, listVars, parameters, deviceVars,
      semaphores, ControlOK, ClientsDoNot
<1>10. ASSUME NEW t \in Threads, NEW l \in Lists, BoxesAlone, WaitReturns(t, l)
      PROVE  ClientsDoNot'
  BY <1>10, ThreadsAndMachines, LockNames
  DEF WaitReturns, ReturnFromWait, Acquire, Goto, At, BoxesAlone, listVars, parameters,
      deviceVars, semaphores, ControlOK, ClientsDoNot
<1>11. ASSUME NEW t \in Threads, NEW l \in Lists, BoxesAlone, RemoveItem(t, l)
      PROVE  ClientsDoNot'
  BY <1>11, ThreadsAndMachines, LockNames
  DEF RemoveItem, Release, Goto, Return, At, BoxesAlone, listVars, parameters, deviceVars,
      semaphores, ControlOK, ClientsDoNot
<1>12. ASSUME NEW t \in Threads, WorkerWaits(t)
      PROVE  ClientsDoNot'
  BY <1>12, ThreadsAndMachines, LockNames
  DEF WorkerWaits, Goto, At, BoxesAlone, listVars, parameters, deviceVars, semaphores,
      ControlOK, ClientsDoNot
<1>13. ASSUME NEW t \in Threads, WorkerCollects(t)
      PROVE  ClientsDoNot'
  BY <1>13, ThreadsAndMachines, LockNames
  DEF WorkerCollects, Goto, At, BoxesAlone, listVars, parameters, deviceVars, semaphores,
      ControlOK, ClientsDoNot
<1>14. ASSUME NEW m \in Machines, CheckPktAvail(m)
      PROVE  ClientsDoNot'
  BY <1>14, ThreadsAndMachines, LockNames
  DEF CheckPktAvail, PollSocket, ReadFromSocket, At, BoxesAlone, listVars, parameters,
      deviceVars, semaphores, ControlOK, ClientsDoNot
<1>15. ASSUME NEW m \in Machines, SendDone(m)
      PROVE  ClientsDoNot'
  BY <1>15, ThreadsAndMachines, LockNames
  DEF SendDone, At, BoxesAlone, listVars, parameters, deviceVars, semaphores, ControlOK,
      ClientsDoNot
<1>16. ASSUME UNCHANGED vars
      PROVE  ClientsDoNot'
  BY <1>16 DEF vars, listVars, parameters, deviceVars, semaphores, ClientsDoNot
<1>17. QED
  BY <1>1, <1>2, <1>3, <1>4, <1>5, <1>6, <1>7, <1>8, <1>9, <1>10, <1>11, <1>12, <1>13,
     <1>14, <1>15, <1>16
  DEF Next, Step, Interrupts, UseBox, ListStep, BoxesAlone

\* Whoever is in Send keeps sendLock until SendReleases.
LEMMA SendersHoldLockStep ==
  ASSUME ControlOK, SendersHoldLock, [Next]_vars
  PROVE  SendersHoldLock'
<1>1. ASSUME NEW t \in Threads, SendAcquires(t)
      PROVE  SendersHoldLock'
  BY <1>1, ThreadsAndMachines, LockNames
  DEF SendAcquires, Acquire, Goto, At, BoxesAlone, listVars, parameters, deviceVars,
      semaphores, ControlOK, SendersHoldLock, Sending, CallsSend
<1>2. ASSUME NEW t \in Threads, NetworkSend(t)
      PROVE  SendersHoldLock'
  BY <1>2, ThreadsAndMachines, LockNames
  DEF NetworkSend, Goto, SendToSocket, At, BoxesAlone, listVars, parameters, deviceVars,
      semaphores, ControlOK, SendersHoldLock, Sending, CallsSend
<1>3. ASSUME NEW t \in Threads, SendWaits(t)
      PROVE  SendersHoldLock'
  BY <1>3, ThreadsAndMachines, LockNames
  DEF SendWaits, Goto, At, BoxesAlone, listVars, parameters, deviceVars, semaphores,
      ControlOK, SendersHoldLock, Sending, CallsSend
<1>4. ASSUME NEW t \in Threads, SendReleases(t)
      PROVE  SendersHoldLock'
  BY <1>4, ThreadsAndMachines, LockNames
  DEF SendReleases, Release, Goto, Return, Holds, At, BoxesAlone, listVars, parameters,
      deviceVars, semaphores, ControlOK, SendersHoldLock, Sending, CallsSend
<1>5. ASSUME NEW t \in Threads, HaltMachine(t)
      PROVE  SendersHoldLock'
  BY <1>5, ThreadsAndMachines, LockNames
  DEF HaltMachine, At, BoxesAlone, listVars, parameters, deviceVars, semaphores, ControlOK,
      SendersHoldLock, Sending, CallsSend
<1>6. ASSUME NEW t \in Threads, NEW l \in Lists, BoxesAlone, Enter(t, l)
      PROVE  SendersHoldLock'
  BY <1>6, ThreadsAndMachines, LockNames
  DEF Enter, Acquire, Goto, At, BoxesAlone, listVars, parameters, deviceVars, semaphores,
      ControlOK, SendersHoldLock, Sending, CallsSend
<1>7. ASSUME NEW t \in Threads, NEW l \in Lists, BoxesAlone, AppendItemAndSignal(t, l)
      PROVE  SendersHoldLock'
  BY <1>7, ThreadsAndMachines, LockNames
  DEF AppendItemAndSignal, Signal, Goto, At, BoxesAlone, listVars, parameters, deviceVars,
      semaphores, ControlOK, SendersHoldLock, Sending, CallsSend
<1>8. ASSUME NEW t \in Threads, NEW l \in Lists, BoxesAlone, Leave(t, l)
      PROVE  SendersHoldLock'
  BY <1>8, ThreadsAndMachines, LockNames
  DEF Leave, Release, Goto, Return, At, BoxesAlone, listVars, parameters, deviceVars,
      semaphores, ControlOK, SendersHoldLock, Sending, CallsSend
<1>9. ASSUME NEW t \in Threads, NEW l \in Lists, BoxesAlone, WaitForItem(t, l)
      PROVE  SendersHoldLock'
  BY <1>9, ThreadsAndMachines, LockNames
  DEF WaitForItem, Wait, Goto, At, BoxesAlone, listVars, parameters, deviceVars,
      semaphores, ControlOK, SendersHoldLock, Sending, CallsSend
<1>10. ASSUME NEW t \in Threads, NEW l \in Lists, BoxesAlone, WaitReturns(t, l)
      PROVE  SendersHoldLock'
  BY <1>10, ThreadsAndMachines, LockNames
  DEF WaitReturns, ReturnFromWait, Acquire, Goto, At, BoxesAlone, listVars, parameters,
      deviceVars, semaphores, ControlOK, SendersHoldLock, Sending, CallsSend
<1>11. ASSUME NEW t \in Threads, NEW l \in Lists, BoxesAlone, RemoveItem(t, l)
      PROVE  SendersHoldLock'
  BY <1>11, ThreadsAndMachines, LockNames
  DEF RemoveItem, Release, Goto, Return, At, BoxesAlone, listVars, parameters, deviceVars,
      semaphores, ControlOK, SendersHoldLock, Sending, CallsSend
<1>12. ASSUME NEW t \in Threads, WorkerWaits(t)
      PROVE  SendersHoldLock'
  BY <1>12, ThreadsAndMachines, LockNames
  DEF WorkerWaits, Goto, At, BoxesAlone, listVars, parameters, deviceVars, semaphores,
      ControlOK, SendersHoldLock, Sending, CallsSend
<1>13. ASSUME NEW t \in Threads, WorkerCollects(t)
      PROVE  SendersHoldLock'
  BY <1>13, ThreadsAndMachines, LockNames
  DEF WorkerCollects, Goto, At, BoxesAlone, listVars, parameters, deviceVars, semaphores,
      ControlOK, SendersHoldLock, Sending, CallsSend
<1>14. ASSUME NEW m \in Machines, CheckPktAvail(m)
      PROVE  SendersHoldLock'
  BY <1>14, ThreadsAndMachines, LockNames
  DEF CheckPktAvail, PollSocket, ReadFromSocket, At, BoxesAlone, listVars, parameters,
      deviceVars, semaphores, ControlOK, SendersHoldLock, Sending, CallsSend
<1>15. ASSUME NEW m \in Machines, SendDone(m)
      PROVE  SendersHoldLock'
  BY <1>15, ThreadsAndMachines, LockNames
  DEF SendDone, At, BoxesAlone, listVars, parameters, deviceVars, semaphores, ControlOK,
      SendersHoldLock, Sending, CallsSend
<1>16. ASSUME UNCHANGED vars
      PROVE  SendersHoldLock'
  BY <1>16
  DEF vars, listVars, parameters, deviceVars, semaphores, SendersHoldLock, Sending,
      CallsSend
<1>17. QED
  BY <1>1, <1>2, <1>3, <1>4, <1>5, <1>6, <1>7, <1>8, <1>9, <1>10, <1>11, <1>12, <1>13,
     <1>14, <1>15, <1>16
  DEF Next, Step, Interrupts, UseBox, ListStep, BoxesAlone

\* The threads on a wait list stay in Remove until they are signalled.
LEMMA WaitersWaitStep ==
  ASSUME ControlOK, WaitersWait, ClientsDoNot, [Next]_vars
  PROVE  WaitersWait'
<1>1. ASSUME NEW t \in Threads, SendAcquires(t)
      PROVE  WaitersWait'
  BY <1>1, ThreadsAndMachines, LockNames
  DEF SendAcquires, Acquire, Goto, At, BoxesAlone, listVars, parameters, deviceVars,
      semaphores, ControlOK, WaitersWait, Calling
<1>2. ASSUME NEW t \in Threads, NetworkSend(t)
      PROVE  WaitersWait'
  BY <1>2, ThreadsAndMachines, LockNames
  DEF NetworkSend, Goto, SendToSocket, At, BoxesAlone, listVars, parameters, deviceVars,
      semaphores, ControlOK, WaitersWait, Calling
<1>3. ASSUME NEW t \in Threads, SendWaits(t)
      PROVE  WaitersWait'
  BY <1>3, ThreadsAndMachines, LockNames
  DEF SendWaits, Goto, At, BoxesAlone, listVars, parameters, deviceVars, semaphores,
      ControlOK, WaitersWait, Calling
<1>4. ASSUME NEW t \in Threads, SendReleases(t)
      PROVE  WaitersWait'
  BY <1>4, ThreadsAndMachines, LockNames
  DEF SendReleases, Release, Goto, Return, Holds, At, BoxesAlone, listVars, parameters,
      deviceVars, semaphores, ControlOK, WaitersWait, Calling
<1>5. ASSUME NEW t \in Threads, HaltMachine(t)
      PROVE  WaitersWait'
  BY <1>5, ThreadsAndMachines, LockNames
  DEF HaltMachine, At, BoxesAlone, listVars, parameters, deviceVars, semaphores, ControlOK,
      WaitersWait, Calling
<1>6. ASSUME NEW t \in Threads, NEW l \in Lists, BoxesAlone, Enter(t, l)
      PROVE  WaitersWait'
  BY <1>6, ThreadsAndMachines, LockNames
  DEF Enter, Acquire, Goto, At, BoxesAlone, listVars, parameters, deviceVars, semaphores,
      ControlOK, WaitersWait, Calling
<1>7. ASSUME NEW t \in Threads, NEW l \in Lists, BoxesAlone, AppendItemAndSignal(t, l)
      PROVE  WaitersWait'
  <2>1. /\ pc[t] = "in"
        /\ pc' = [pc EXCEPT ![t] = "leaving"] /\ todo' = todo
        /\ waitList' = [waitList EXCEPT ![l] = IF waitList[l] = <<>> THEN waitList[l] ELSE Tail(waitList[l])]
    BY <1>7 DEF AppendItemAndSignal, Signal, Goto
  <2>2. \A k \in Lists : t \notin Items(waitList[k])
    BY <2>1 DEF WaitersWait
  <2>3. ASSUME NEW k \in Lists
        PROVE  Distinct(waitList'[k]) /\ Items(waitList'[k]) \subseteq Items(waitList[k])
    <3>1. waitList[k] \in Seq(Elements(Threads)) /\ Distinct(waitList[k])
      BY DEF ControlOK, WaitersWait
    <3>2. waitList[k] # <<>> => /\ Distinct(Tail(waitList[k]))
                               /\ Items(Tail(waitList[k])) \subseteq Items(waitList[k])
      BY <3>1, RemoveProperties
    <3>3. waitList'[k] \in {waitList[k], Tail(waitList[k])}
      BY <2>1 DEF ControlOK
    <3>4. waitList'[k] = waitList[k] \/ (waitList[k] # <<>> /\ waitList'[k] = Tail(waitList[k]))
      BY <2>1 DEF ControlOK
    <3>5. QED
      BY <3>1, <3>2, <3>4
  <2>4. \A u \in Threads \ {t} : pc'[u] = pc[u]
    BY <2>1 DEF ControlOK
  <2>5. ASSUME NEW k \in Lists, NEW u \in Items(waitList'[k])
        PROVE  pc'[u] = "waiting" /\ Calling(u, "Remove", k)'
    <3>1. u \in Items(waitList[k]) /\ u # t
      BY <2>2, <2>3
    <3>2. pc[u] = "waiting" /\ Calling(u, "Remove", k)
      BY <3>1 DEF WaitersWait
    <3>3. pc'[u] = pc[u]
      BY <2>1, <3>1 DEF ControlOK
    <3>4. QED
      BY <3>2, <3>3, <2>1 DEF Calling
  <2>6. QED
    BY <2>3, <2>5 DEF WaitersWait
<1>8. ASSUME NEW t \in Threads, NEW l \in Lists, BoxesAlone, Leave(t, l)
      PROVE  WaitersWait'
  BY <1>8, ThreadsAndMachines, LockNames
  DEF Leave, Release, Goto, Return, At, BoxesAlone, listVars, parameters, deviceVars,
      semaphores, ControlOK, WaitersWait, Calling
<1>9. ASSUME NEW t \in Threads, NEW l \in Lists, BoxesAlone, WaitForItem(t, l)
      PROVE  WaitersWait'
  <2> DEFINE new == SortedInsert(waitList[l], t, Priority[t])
  <2>1. /\ pc[t] = "in" /\ Calling(t, "Remove", l)
        /\ pc' = [pc EXCEPT ![t] = "waiting"] /\ todo' = todo
        /\ waitList' = [waitList EXCEPT ![l] = new]
    BY <1>9 DEF WaitForItem, Wait, Goto
  <2>2. \A k \in Lists : t \notin Items(waitList[k])
    BY <2>1 DEF WaitersWait
  <2>3. Distinct(new) /\ Items(new) = Items(waitList[l]) \cup {t}
    <3>1. /\ waitList[l] \in Seq(Elements(Threads)) /\ Priority[t] \in Int
          /\ Distinct(waitList[l])
      BY ThreadsAndMachines DEF ControlOK, WaitersWait
    <3>2. QED
      BY <3>1, <2>2, InsertDistinct, InsertItems
  <2> HIDE DEF new
  <2>4. \A k \in Lists : waitList'[k] = IF k = l THEN new ELSE waitList[k]
    BY <2>1 DEF ControlOK
  <2>5. ASSUME NEW k \in Lists, NEW u \in Items(waitList'[k])
        PROVE  pc'[u] = "waiting" /\ Calling(u, "Remove", k)'
    <3>1. u \in Items(waitList[k]) \/ (u = t /\ k = l)
      BY <2>3, <2>4
    <3>2. CASE u = t /\ k = l
      BY <3>2, <2>1 DEF ControlOK, Calling
    <3>3. CASE u \in Items(waitList[k])
      <4>1. pc[u] = "waiting" /\ Calling(u, "Remove", k)
        BY <3>3 DEF WaitersWait
      <4>2. pc'[u] = "waiting"
        BY <4>1, <2>1 DEF ControlOK
      <4>3. QED
        BY <4>1, <4>2, <2>1 DEF Calling
    <3>4. QED
      BY <3>1, <3>2, <3>3
  <2>6. \A k \in Lists : Distinct(waitList'[k])
    BY <2>3, <2>4 DEF WaitersWait
  <2>7. QED
    BY <2>5, <2>6 DEF WaitersWait
<1>10. ASSUME NEW t \in Threads, NEW l \in Lists, BoxesAlone, WaitReturns(t, l)
      PROVE  WaitersWait'
  BY <1>10, ThreadsAndMachines, LockNames
  DEF WaitReturns, ReturnFromWait, Acquire, Goto, At, BoxesAlone, listVars, parameters,
      deviceVars, semaphores, ControlOK, WaitersWait, Calling
<1>11. ASSUME NEW t \in Threads, NEW l \in Lists, BoxesAlone, RemoveItem(t, l)
      PROVE  WaitersWait'
  BY <1>11, ThreadsAndMachines, LockNames
  DEF RemoveItem, Release, Goto, Return, At, BoxesAlone, listVars, parameters, deviceVars,
      semaphores, ControlOK, WaitersWait, Calling
<1>12. ASSUME NEW t \in Threads, WorkerWaits(t)
      PROVE  WaitersWait'
  BY <1>12, ThreadsAndMachines, LockNames
  DEF WorkerWaits, Goto, At, BoxesAlone, listVars, parameters, deviceVars, semaphores,
      ControlOK, WaitersWait, Calling
<1>13. ASSUME NEW t \in Threads, WorkerCollects(t)
      PROVE  WaitersWait'
  BY <1>13, ThreadsAndMachines, LockNames
  DEF WorkerCollects, Goto, At, BoxesAlone, listVars, parameters, deviceVars, semaphores,
      ControlOK, WaitersWait, Calling
<1>14. ASSUME NEW m \in Machines, CheckPktAvail(m)
      PROVE  WaitersWait'
  BY <1>14, ThreadsAndMachines, LockNames
  DEF CheckPktAvail, PollSocket, ReadFromSocket, At, BoxesAlone, listVars, parameters,
      deviceVars, semaphores, ControlOK, WaitersWait, Calling
<1>15. ASSUME NEW m \in Machines, SendDone(m)
      PROVE  WaitersWait'
  BY <1>15, ThreadsAndMachines, LockNames
  DEF SendDone, At, BoxesAlone, listVars, parameters, deviceVars, semaphores, ControlOK,
      WaitersWait, Calling
<1>16. ASSUME UNCHANGED vars
      PROVE  WaitersWait'
  BY <1>16 DEF vars, listVars, parameters, deviceVars, semaphores, WaitersWait, Calling
<1>17. QED
  BY <1>1, <1>2, <1>3, <1>4, <1>5, <1>6, <1>7, <1>8, <1>9, <1>10, <1>11, <1>12, <1>13,
     <1>14, <1>15, <1>16
  DEF Next, Step, Interrupts, UseBox, ListStep, BoxesAlone

-------------------------------------------------------------------------------
Enough(l) == waitList[l] # <<>> => Len(list[l]) <= Cardinality(Takers(l))

EnoughTakers == \A l \in Lists : Enough(l)

\* There are finitely many takers.
LEMMA TakersAreFinite ==
  ASSUME NEW l
  PROVE  /\ IsFiniteSet(Takers(l)) /\ Cardinality(Takers(l)) \in Nat
         /\ IsFiniteSet(Takers(l)') /\ Cardinality(Takers(l)') \in Nat
<1>1. Takers(l) \in SUBSET Threads /\ Takers(l)' \in SUBSET Threads
  BY DEF Takers
<1>2. IsFiniteSet(Takers(l)) /\ IsFiniteSet(Takers(l)')
  BY <1>1, SynchListAssumption, FS_Subset
<1>3. QED
  BY <1>2, FS_CardinalityType

\* A list that stays as it is, and loses no taker, still has enough of them.
LEMMA EnoughStays ==
  ASSUME NEW l \in Lists, Enough(l), Len(list[l]) \in Nat,
         list'[l] = list[l], waitList'[l] = waitList[l], Takers(l) \subseteq Takers(l)'
  PROVE  Enough(l)'
<1>1. Cardinality(Takers(l)) <= Cardinality(Takers(l)')
  BY TakersAreFinite, FS_Subset
<1>2. QED
  BY <1>1, TakersAreFinite DEF Enough

\* A list of mails has a length.
LEMMA MailsLength ==
  ASSUME MailsOK, NEW l \in Lists
  PROVE  Len(list[l]) \in Nat /\ Sequence(list[l])
<1>1. Sequence(list[l])
  BY DEF MailsOK, Mails
<1>2. QED
  BY <1>1, LenProperties DEF Sequence

\* An item that is appended has its Signal, an item that is taken its taker.
LEMMA EnoughTakersStep ==
  ASSUME ControlOK, MailsOK, WaitersWait, ClientsDoNot, EnoughTakers, [Next]_vars
  PROVE  EnoughTakers'
<1>1. ASSUME NEW t \in Threads, SendAcquires(t)
      PROVE  EnoughTakers'
  <2>1. ASSUME NEW k \in Lists
        PROVE  /\ list'[k] = list[k] /\ waitList'[k] = waitList[k]
               /\ Takers(k) \subseteq Takers(k)'
    BY <1>1
    DEF SendAcquires, Acquire, Goto, At, listVars, ControlOK, ClientsDoNot, Takers, Calling
  <2>2. QED
    BY <2>1, EnoughStays, MailsLength DEF EnoughTakers
<1>2. ASSUME NEW t \in Threads, NetworkSend(t)
      PROVE  EnoughTakers'
  <2>1. ASSUME NEW k \in Lists
        PROVE  /\ list'[k] = list[k] /\ waitList'[k] = waitList[k]
               /\ Takers(k) \subseteq Takers(k)'
    BY <1>2
    DEF NetworkSend, Goto, SendToSocket, At, listVars, ControlOK, ClientsDoNot, Takers,
        Calling
  <2>2. QED
    BY <2>1, EnoughStays, MailsLength DEF EnoughTakers
<1>3. ASSUME NEW t \in Threads, SendWaits(t)
      PROVE  EnoughTakers'
  <2>1. ASSUME NEW k \in Lists
        PROVE  /\ list'[k] = list[k] /\ waitList'[k] = waitList[k]
               /\ Takers(k) \subseteq Takers(k)'
    BY <1>3 DEF SendWaits, Goto, At, listVars, ControlOK, ClientsDoNot, Takers, Calling
  <2>2. QED
    BY <2>1, EnoughStays, MailsLength DEF EnoughTakers
<1>4. ASSUME NEW t \in Threads, SendReleases(t)
      PROVE  EnoughTakers'
  <2>1. ASSUME NEW k \in Lists
        PROVE  /\ list'[k] = list[k] /\ waitList'[k] = waitList[k]
               /\ Takers(k) \subseteq Takers(k)'
    BY <1>4
    DEF SendReleases, Release, Goto, Return, Holds, At, listVars, ControlOK, ClientsDoNot,
        Takers, Calling
  <2>2. QED
    BY <2>1, EnoughStays, MailsLength DEF EnoughTakers
<1>5. ASSUME NEW t \in Threads, HaltMachine(t)
      PROVE  EnoughTakers'
  <2>1. ASSUME NEW k \in Lists
        PROVE  /\ list'[k] = list[k] /\ waitList'[k] = waitList[k]
               /\ Takers(k) \subseteq Takers(k)'
    BY <1>5 DEF HaltMachine, At, listVars, ControlOK, ClientsDoNot, Takers, Calling
  <2>2. QED
    BY <2>1, EnoughStays, MailsLength DEF EnoughTakers
<1>6. ASSUME NEW t \in Threads, NEW l \in Lists, BoxesAlone, Enter(t, l)
      PROVE  EnoughTakers'
  <2>1. ASSUME NEW k \in Lists
        PROVE  /\ list'[k] = list[k] /\ waitList'[k] = waitList[k]
               /\ Takers(k) \subseteq Takers(k)'
    BY <1>6 DEF Enter, Acquire, Goto, At, listVars, ControlOK, ClientsDoNot, Takers, Calling
  <2>2. QED
    BY <2>1, EnoughStays, MailsLength DEF EnoughTakers
<1>7. ASSUME NEW t \in Threads, NEW l \in Lists, BoxesAlone, AppendItemAndSignal(t, l)
      PROVE  EnoughTakers'
  <2> DEFINE new == IF waitList[l] = <<>> THEN waitList[l] ELSE Tail(waitList[l])
             h == Head(waitList[l]).item
  <2>1. /\ pc[t] = "in" /\ Calling(t, "Append", l)
        /\ list' = [list EXCEPT ![l] = Append(list[l], Head(todo[t]).item)]
        /\ waitList' = [waitList EXCEPT ![l] = new]
        /\ pc' = [pc EXCEPT ![t] = "leaving"] /\ todo' = todo
    BY <1>7 DEF AppendItemAndSignal, Signal, Goto
  <2>2. ASSUME NEW k \in Lists, k # l
        PROVE  Enough(k)'
    <3>1. list'[k] = list[k] /\ waitList'[k] = waitList[k]
      BY <2>1, <2>2 DEF ControlOK, MailsOK
    <3>2. Takers(k) \subseteq Takers(k)'
      BY <2>1, <2>2, <3>1 DEF ControlOK, Takers, Calling
    <3>3. QED
      BY <3>1, <3>2, EnoughStays, MailsLength DEF EnoughTakers
  <2>3. waitList'[l] = new
    BY <2>1 DEF ControlOK
  <2>4. CASE waitList[l] = <<>>
    <3>1. Enough(l)'
      BY <2>3, <2>4 DEF Enough
    <3>2. QED
      BY <2>2, <3>1 DEF EnoughTakers
  <2>5. CASE waitList[l] # <<>>
    <3>1. /\ h \in Items(waitList[l]) /\ h \notin Items(waitList'[l])
          /\ Items(waitList'[l]) \subseteq Items(waitList[l])
          /\ h \in Threads
      <4>1. waitList[l] \in Seq(Elements(Threads)) /\ Distinct(waitList[l])
        BY DEF ControlOK, WaitersWait
      <4>2. waitList'[l] = Tail(waitList[l])
        BY <2>3, <2>5
      <4>3. QED
        BY <4>1, <4>2, <2>5, RemoveProperties
    <3>2. pc[h] = "waiting" /\ Calling(h, "Remove", l)
      BY <3>1 DEF WaitersWait
    <3> HIDE DEF h, new
    <3>3. h \notin Takers(l)
      BY <3>1, <3>2 DEF Takers
    <3>4. ~Calling(t, "Remove", l)
      BY <2>1 DEF Calling
    <3>5. Takers(l) \cup {h} \subseteq Takers(l)'
      <4>1. \A u \in Threads : Calling(u, "Remove", l)' <=> Calling(u, "Remove", l)
        BY <2>1 DEF Calling
      <4>2. \A u \in Threads \ {t} : pc'[u] = pc[u]
        BY <2>1 DEF ControlOK
      <4>3. h # t
        BY <3>2, <3>4
      <4>4. h \in Takers(l)'
        BY <3>1, <3>2, <4>1, <4>2, <4>3 DEF Takers
      <4>5. ASSUME NEW u \in Takers(l)
            PROVE  u \in Takers(l)'
        BY <3>1, <3>4, <4>1, <4>2 DEF Takers
      <4>6. QED
        BY <4>4, <4>5
    <3>6. Cardinality(Takers(l)) + 1 <= Cardinality(Takers(l)')
      <4>1. /\ IsFiniteSet(Takers(l)) /\ IsFiniteSet(Takers(l)')
            /\ Takers(l) \cup {h} \in SUBSET (Takers(l)')
        BY <3>5, TakersAreFinite
      <4>2. Cardinality(Takers(l) \cup {h}) = Cardinality(Takers(l)) + 1
        BY <3>3, <4>1, FS_AddElement
      <4>3. Cardinality(Takers(l) \cup {h}) <= Cardinality(Takers(l)')
        BY <4>1, FS_Subset
      <4>4. QED
        BY <4>2, <4>3
    <3>7. Len(list'[l]) = Len(list[l]) + 1 /\ Len(list[l]) \in Nat
      <4>1. Sequence(list[l])
        BY MailsLength
      <4>2. list'[l] = Append(list[l], Head(todo[t]).item)
        BY <2>1 DEF MailsOK
      <4>3. QED
        BY <4>1, <4>2, AppendSequence
    <3>8. Enough(l)'
      BY <3>6, <3>7, <2>5, TakersAreFinite DEF EnoughTakers, Enough
    <3>9. QED
      BY <2>2, <3>8 DEF EnoughTakers
  <2>6. QED
    BY <2>4, <2>5
<1>8. ASSUME NEW t \in Threads, NEW l \in Lists, BoxesAlone, Leave(t, l)
      PROVE  EnoughTakers'
  <2>1. ASSUME NEW k \in Lists
        PROVE  /\ list'[k] = list[k] /\ waitList'[k] = waitList[k]
               /\ Takers(k) \subseteq Takers(k)'
    BY <1>8
    DEF Leave, Release, Goto, Return, At, listVars, ControlOK, ClientsDoNot, Takers,
        Calling
  <2>2. QED
    BY <2>1, EnoughStays, MailsLength DEF EnoughTakers
<1>9. ASSUME NEW t \in Threads, NEW l \in Lists, BoxesAlone, WaitForItem(t, l)
      PROVE  EnoughTakers'
  <2>1. /\ pc[t] = "in" /\ Calling(t, "Remove", l) /\ list[l] = <<>>
        /\ list' = list /\ waitList' = [waitList EXCEPT ![l] = SortedInsert(@, t, Priority[t])]
        /\ pc' = [pc EXCEPT ![t] = "waiting"] /\ todo' = todo
    BY <1>9 DEF WaitForItem, Wait, Goto
  <2>2. ASSUME NEW k \in Lists, k # l
        PROVE  Enough(k)'
    <3>1. list'[k] = list[k] /\ waitList'[k] = waitList[k]
      BY <2>1, <2>2 DEF ControlOK, MailsOK
    <3>2. Takers(k) \subseteq Takers(k)'
      BY <2>1, <2>2, <3>1 DEF ControlOK, Takers, Calling
    <3>3. QED
      BY <3>1, <3>2, EnoughStays, MailsLength DEF EnoughTakers
  <2>3. Enough(l)'
    <3>1. Len(list'[l]) = 0
      BY <2>1
    <3>2. QED
      BY <3>1, TakersAreFinite DEF Enough
  <2>4. QED
    BY <2>2, <2>3 DEF EnoughTakers
<1>10. ASSUME NEW t \in Threads, NEW l \in Lists, BoxesAlone, WaitReturns(t, l)
      PROVE  EnoughTakers'
  <2>1. ASSUME NEW k \in Lists
        PROVE  /\ list'[k] = list[k] /\ waitList'[k] = waitList[k]
               /\ Takers(k) \subseteq Takers(k)'
    BY <1>10
    DEF WaitReturns, ReturnFromWait, Acquire, Goto, At, listVars, ControlOK, ClientsDoNot,
        Takers, Calling
  <2>2. QED
    BY <2>1, EnoughStays, MailsLength DEF EnoughTakers
<1>11. ASSUME NEW t \in Threads, NEW l \in Lists, BoxesAlone, RemoveItem(t, l)
      PROVE  EnoughTakers'
  <2>1. /\ pc[t] = "in" /\ Calling(t, "Remove", l) /\ list[l] # <<>>
        /\ list' = [list EXCEPT ![l] = Tail(list[l])] /\ waitList' = waitList
        /\ pc' = [pc EXCEPT ![t] = "out"] /\ todo' = [todo EXCEPT ![t] = Tail(todo[t])]
    BY <1>11 DEF RemoveItem, Release, Goto, Return
  <2>2. ASSUME NEW k \in Lists, k # l
        PROVE  Enough(k)'
    <3>1. list'[k] = list[k] /\ waitList'[k] = waitList[k]
      BY <2>1, <2>2 DEF ControlOK, MailsOK
    <3>2. Takers(k) \subseteq Takers(k)'
      BY <2>1, <2>2, <3>1 DEF ControlOK, Takers, Calling
    <3>3. QED
      BY <3>1, <3>2, EnoughStays, MailsLength DEF EnoughTakers
  <2>3. Enough(l)'
    <3>1. t \in Takers(l) /\ Takers(l) \ {t} \subseteq Takers(l)'
      BY <2>1 DEF ControlOK, Takers, Calling
    <3>2. Cardinality(Takers(l)) - 1 <= Cardinality(Takers(l)')
      <4>1. /\ IsFiniteSet(Takers(l)) /\ IsFiniteSet(Takers(l)')
            /\ Takers(l) \ {t} \in SUBSET (Takers(l)')
        BY <3>1, TakersAreFinite
      <4>2. Cardinality(Takers(l) \ {t}) = Cardinality(Takers(l)) - 1
        BY <3>1, <4>1, FS_RemoveElement
      <4>3. Cardinality(Takers(l) \ {t}) <= Cardinality(Takers(l)')
        BY <4>1, FS_Subset
      <4>4. QED
        BY <4>2, <4>3
    <3>3. Len(list'[l]) = Len(list[l]) - 1 /\ Len(list[l]) \in Nat
      <4>1. list[l] \in Seq(Range(list[l])) /\ list'[l] = Tail(list[l])
        BY <2>1, MailsLength DEF Sequence, MailsOK
      <4>2. QED
        BY <4>1, <2>1, HeadTailProperties, LenProperties
    <3>4. waitList'[l] = waitList[l]
      BY <2>1
    <3>5. QED
      BY <3>2, <3>3, <3>4, TakersAreFinite DEF EnoughTakers, Enough
  <2>4. QED
    BY <2>2, <2>3 DEF EnoughTakers
<1>12. ASSUME NEW t \in Threads, WorkerWaits(t)
      PROVE  EnoughTakers'
  <2>1. ASSUME NEW k \in Lists
        PROVE  /\ list'[k] = list[k] /\ waitList'[k] = waitList[k]
               /\ Takers(k) \subseteq Takers(k)'
    BY <1>12 DEF WorkerWaits, Goto, At, listVars, ControlOK, ClientsDoNot, Takers, Calling
  <2>2. QED
    BY <2>1, EnoughStays, MailsLength DEF EnoughTakers
<1>13. ASSUME NEW t \in Threads, WorkerCollects(t)
      PROVE  EnoughTakers'
  <2>1. ASSUME NEW k \in Lists
        PROVE  /\ list'[k] = list[k] /\ waitList'[k] = waitList[k]
               /\ Takers(k) \subseteq Takers(k)'
    BY <1>13 DEF WorkerCollects, Goto, At, listVars, ControlOK, ClientsDoNot, Takers, Calling
  <2>2. QED
    BY <2>1, EnoughStays, MailsLength DEF EnoughTakers
<1>14. ASSUME NEW m \in Machines, CheckPktAvail(m)
      PROVE  EnoughTakers'
  <2>1. ASSUME NEW k \in Lists
        PROVE  /\ list'[k] = list[k] /\ waitList'[k] = waitList[k]
               /\ Takers(k) \subseteq Takers(k)'
    BY <1>14
    DEF CheckPktAvail, PollSocket, ReadFromSocket, At, listVars, ControlOK, ClientsDoNot,
        Takers, Calling
  <2>2. QED
    BY <2>1, EnoughStays, MailsLength DEF EnoughTakers
<1>15. ASSUME NEW m \in Machines, SendDone(m)
      PROVE  EnoughTakers'
  <2>1. ASSUME NEW k \in Lists
        PROVE  /\ list'[k] = list[k] /\ waitList'[k] = waitList[k]
               /\ Takers(k) \subseteq Takers(k)'
    BY <1>15 DEF SendDone, At, listVars, ControlOK, ClientsDoNot, Takers, Calling
  <2>2. QED
    BY <2>1, EnoughStays, MailsLength DEF EnoughTakers
<1>16. ASSUME UNCHANGED vars
      PROVE  EnoughTakers'
  BY <1>16
  DEF vars, listVars, parameters, deviceVars, semaphores, EnoughTakers, Enough, Takers,
      Calling
<1>17. QED
  BY <1>1, <1>2, <1>3, <1>4, <1>5, <1>6, <1>7, <1>8, <1>9, <1>10, <1>11, <1>12, <1>13,
     <1>14, <1>15, <1>16
  DEF Next, Step, Interrupts, UseBox, ListStep, BoxesAlone

\* Mails stay mails with one more or one less.
LEMMA MailsAppend ==
  ASSUME NEW s, NEW x, Mails(s), x # NULL
  PROVE  Mails(Append(s, x))
  BY AppendSequence DEF Mails

LEMMA MailsTail ==
  ASSUME NEW s, Mails(s), s # <<>>
  PROVE  Mails(Tail(s)) /\ Head(s) # NULL
  BY TailSequence DEF Mails

\* What Send puts together is a mail from its own machine.
LEMMA MailIsMail ==
  ASSUME NEW t
  PROVE  Outgoing(t) # NULL /\ Outgoing(t).from = Host[t]
<1>1. \A from, to, box, replyBox, data :
        /\ Mail(from, to, box, replyBox, data) # NULL
        /\ Mail(from, to, box, replyBox, data).from = from
  <2>1. ASSUME NEW from, NEW to, NEW box, NEW replyBox, NEW data
        PROVE  /\ Mail(from, to, box, replyBox, data) # NULL
               /\ Mail(from, to, box, replyBox, data).from = from
    <3>1. "none" \in DOMAIN NULL
      BY DEF NULL
    <3>2. "none" \notin DOMAIN Mail(from, to, box, replyBox, data)
      BY DEF Mail
    <3>3. QED
      BY <3>1, <3>2 DEF Mail
  <2>2. QED
    BY <2>1
<1>2. QED
  BY <1>1 DEF Outgoing

\* What is appended is a mail; what a client appends came from no machine.
LEMMA ItemAppended ==
  ASSUME ControlOK, WorkersDeliver, NEW t \in Threads, NEW l \in Lists,
         Calling(t, "Append", l)
  PROVE  /\ Head(todo[t]).item # NULL
         /\ t \in Clients => Head(todo[t]).item.from \notin Machines
<1>1. CASE t \in Clients
  <2>1. Head(todo[t]) \in Calls /\ Head(todo[t]).op = "Append"
    BY <1>1, CallsLeft DEF Calling
  <2>2. QED
    BY <2>1, SystemsAssumption
<1>2. CASE t \notin Clients
  <2>1. PICK m \in Machines : t = Worker[m]
    BY <1>2, ThreadsAndMachines
  <2>2. Carries(m)
    BY <2>1 DEF WorkersDeliver, Calling
  <2>3. QED
    BY <1>2, <2>1, <2>2, CarrierCalls
<1>3. QED
  BY <1>1, <1>2

\* Each step puts only mails where mails belong.
LEMMA MailsOKStep ==
  ASSUME ControlOK, MailsOK, WorkersDeliver, [Next]_vars
  PROVE  MailsOK'
<1>1. ASSUME NEW t \in Threads, SendAcquires(t)
      PROVE  MailsOK'
  BY <1>1, ThreadsAndMachines, LockNames
  DEF SendAcquires, Acquire, Goto, At, BoxesAlone, listVars, parameters, deviceVars,
      semaphores, ControlOK, MailsOK
<1>2. ASSUME NEW t \in Threads, NetworkSend(t)
      PROVE  MailsOK'
  <2> DEFINE m == Host[t]
             mail == Outgoing(t)
  <2>1. /\ UNCHANGED <<list, removed, got, inbox>>
        /\ \/ UNCHANGED <<socket, sent>>
           \/ /\ mail.to \in up
              /\ socket' = [socket EXCEPT ![mail.to] = Append(@, mail)]
              /\ sent' = [sent EXCEPT ![m] = Append(@, mail)]
    BY <1>2 DEF NetworkSend, SendToSocket, listVars
  <2>2. mail # NULL
    BY MailIsMail
  <2> HIDE DEF mail
  <2>3. CASE UNCHANGED <<socket, sent>>
    BY <2>1, <2>3 DEF MailsOK
  <2>4. CASE /\ mail.to \in up
             /\ socket' = [socket EXCEPT ![mail.to] = Append(@, mail)]
             /\ sent' = [sent EXCEPT ![m] = Append(@, mail)]
    <3>1. m \in Machines /\ mail.to \in Machines
      BY <2>4, ThreadsAndMachines DEF ControlOK
    <3>2. Mails(Append(socket[mail.to], mail)) /\ Mails(Append(sent[m], mail))
      BY <2>2, <3>1, MailsAppend DEF MailsOK
    <3> HIDE DEF m
    <3>3. QED
      BY <2>1, <2>4, <3>1, <3>2 DEF MailsOK
  <2>5. QED
    BY <2>1, <2>3, <2>4
<1>3. ASSUME NEW t \in Threads, SendWaits(t)
      PROVE  MailsOK'
  BY <1>3, ThreadsAndMachines, LockNames
  DEF SendWaits, Goto, At, BoxesAlone, listVars, parameters, deviceVars, semaphores,
      ControlOK, MailsOK
<1>4. ASSUME NEW t \in Threads, SendReleases(t)
      PROVE  MailsOK'
  BY <1>4, ThreadsAndMachines, LockNames
  DEF SendReleases, Release, Goto, Return, Holds, At, BoxesAlone, listVars, parameters,
      deviceVars, semaphores, ControlOK, MailsOK
<1>5. ASSUME NEW t \in Threads, HaltMachine(t)
      PROVE  MailsOK'
  BY <1>5, ThreadsAndMachines, LockNames
  DEF HaltMachine, At, BoxesAlone, listVars, parameters, deviceVars, semaphores, ControlOK,
      MailsOK
<1>6. ASSUME NEW t \in Threads, NEW l \in Lists, BoxesAlone, Enter(t, l)
      PROVE  MailsOK'
  BY <1>6, ThreadsAndMachines, LockNames
  DEF Enter, Acquire, Goto, At, BoxesAlone, listVars, parameters, deviceVars, semaphores,
      ControlOK, MailsOK
<1>7. ASSUME NEW t \in Threads, NEW l \in Lists, BoxesAlone, AppendItemAndSignal(t, l)
      PROVE  MailsOK'
  <2> DEFINE item == Head(todo[t]).item
  <2>1. /\ list' = [list EXCEPT ![l] = Append(@, item)]
        /\ UNCHANGED <<removed, got, inbox, socket, sent>>
    BY <1>7 DEF AppendItemAndSignal, BoxesAlone, deviceVars
  <2>2. item # NULL
    BY <1>7, ItemAppended DEF AppendItemAndSignal
  <2> HIDE DEF item
  <2>3. QED
    BY <2>1, <2>2, MailsAppend DEF MailsOK
<1>8. ASSUME NEW t \in Threads, NEW l \in Lists, BoxesAlone, Leave(t, l)
      PROVE  MailsOK'
  BY <1>8, ThreadsAndMachines, LockNames
  DEF Leave, Release, Goto, Return, At, BoxesAlone, listVars, parameters, deviceVars,
      semaphores, ControlOK, MailsOK
<1>9. ASSUME NEW t \in Threads, NEW l \in Lists, BoxesAlone, WaitForItem(t, l)
      PROVE  MailsOK'
  BY <1>9, ThreadsAndMachines, LockNames
  DEF WaitForItem, Wait, Goto, At, BoxesAlone, listVars, parameters, deviceVars,
      semaphores, ControlOK, MailsOK
<1>10. ASSUME NEW t \in Threads, NEW l \in Lists, BoxesAlone, WaitReturns(t, l)
      PROVE  MailsOK'
  BY <1>10, ThreadsAndMachines, LockNames
  DEF WaitReturns, ReturnFromWait, Acquire, Goto, At, BoxesAlone, listVars, parameters,
      deviceVars, semaphores, ControlOK, MailsOK
<1>11. ASSUME NEW t \in Threads, NEW l \in Lists, BoxesAlone, RemoveItem(t, l)
      PROVE  MailsOK'
  <2> DEFINE item == Head(list[l])
  <2>1. /\ got' = [got EXCEPT ![t] = Append(@, item)]
        /\ removed' = [removed EXCEPT ![l] = Append(@, item)]
        /\ list' = [list EXCEPT ![l] = Tail(@)]
        /\ UNCHANGED <<inbox, socket, sent>>
    BY <1>11 DEF RemoveItem, BoxesAlone, deviceVars
  <2>2. item # NULL /\ Mails(Tail(list[l]))
    BY <1>11, MailsTail DEF RemoveItem, MailsOK
  <2> HIDE DEF item
  <2>3. QED
    BY <2>1, <2>2, MailsAppend DEF MailsOK
<1>12. ASSUME NEW t \in Threads, WorkerWaits(t)
      PROVE  MailsOK'
  BY <1>12, ThreadsAndMachines, LockNames
  DEF WorkerWaits, Goto, At, BoxesAlone, listVars, parameters, deviceVars, semaphores,
      ControlOK, MailsOK
<1>13. ASSUME NEW t \in Threads, WorkerCollects(t)
      PROVE  MailsOK'
  BY <1>13, ThreadsAndMachines, LockNames
  DEF WorkerCollects, Goto, At, BoxesAlone, listVars, parameters, deviceVars, semaphores,
      ControlOK, MailsOK
<1>14. ASSUME NEW m \in Machines, CheckPktAvail(m)
      PROVE  MailsOK'
  <2>1. /\ inbox' = [inbox EXCEPT ![m] = Head(socket[m])]
        /\ socket' = [socket EXCEPT ![m] = Tail(@)]
        /\ socket[m] # <<>>
        /\ UNCHANGED <<list, removed, got, sent>>
    BY <1>14 DEF CheckPktAvail, PollSocket, ReadFromSocket, listVars
  <2>2. Mails(Tail(socket[m]))
    BY <2>1, MailsTail DEF MailsOK
  <2>3. QED
    BY <2>1, <2>2 DEF MailsOK
<1>15. ASSUME NEW m \in Machines, SendDone(m)
      PROVE  MailsOK'
  BY <1>15, ThreadsAndMachines, LockNames
  DEF SendDone, At, BoxesAlone, listVars, parameters, deviceVars, semaphores, ControlOK,
      MailsOK
<1>16. ASSUME UNCHANGED vars
      PROVE  MailsOK'
  BY <1>16 DEF vars, listVars, parameters, deviceVars, semaphores, MailsOK
<1>17. QED
  BY <1>1, <1>2, <1>3, <1>4, <1>5, <1>6, <1>7, <1>8, <1>9, <1>10, <1>11, <1>12, <1>13,
     <1>14, <1>15, <1>16
  DEF Next, Step, Interrupts, UseBox, ListStep, BoxesAlone

-------------------------------------------------------------------------------
\* OneAtATime, with its two sets of threads read as conditions.
Counted(m) ==
  /\ (\E t \in Threads : Host[t] = m /\ pc[t] = "sent") => sending[m] + messageSent[m] = 1
  /\ (\A t \in Threads : ~(Host[t] = m /\ pc[t] = "sent")) => sending[m] + messageSent[m] = 0
  /\ messageAvailable[m] + (IF pc[Worker[m]] = "collect" THEN 1 ELSE 0) =
       IF inbox[m] = NULL THEN 0 ELSE 1

Counts == \A m \in Machines \ aborted : Counted(m)

\* Read as cardinalities, the counts are OneAtATime.
LEMMA CountsSuffice ==
  ASSUME ControlOK, ClientsDoNot, SendersHoldLock, Counts
  PROVE  OneAtATime
<1> SUFFICES ASSUME NEW m \in Machines \ aborted
             PROVE  LET at(place) == {t \in Threads : Host[t] = m /\ pc[t] = place}
                    IN  /\ sending[m] + messageSent[m] = Cardinality(at("sent"))
                        /\ Cardinality(at("sent")) <= 1
                        /\ messageAvailable[m] + Cardinality(at("collect")) = Len(Buffered(m))
  BY DEF OneAtATime
<1> DEFINE sentAt == {t \in Threads : Host[t] = m /\ pc[t] = "sent"}
           collectAt == {t \in Threads : Host[t] = m /\ pc[t] = "collect"}
<1>1. Counted(m)
  BY DEF Counts
<1>2. sending[m] + messageSent[m] = Cardinality(sentAt) /\ Cardinality(sentAt) <= 1
  <2>1. CASE \E t \in Threads : Host[t] = m /\ pc[t] = "sent"
    <3>1. PICK t \in Threads : Host[t] = m /\ pc[t] = "sent"
      BY <2>1
    <3>2. sentAt = {t}
      BY <3>1 DEF SendersHoldLock, Sending
    <3>3. Cardinality(sentAt) = 1
      BY <3>2, FS_Singleton
    <3>4. QED
      BY <1>1, <2>1, <3>3 DEF Counted
  <2>2. CASE \A t \in Threads : ~(Host[t] = m /\ pc[t] = "sent")
    <3>1. sentAt = {}
      BY <2>2
    <3>2. Cardinality(sentAt) = 0
      BY <3>1, FS_EmptySet
    <3>3. QED
      BY <1>1, <2>2, <3>2 DEF Counted
  <2>3. QED
    BY <2>1, <2>2
<1>3. messageAvailable[m] + Cardinality(collectAt) = Len(Buffered(m))
  <2>1. Cardinality(collectAt) = IF pc[Worker[m]] = "collect" THEN 1 ELSE 0
    <3>1. \A t \in Threads : Host[t] = m /\ pc[t] = "collect" => t = Worker[m]
      BY ThreadsAndMachines DEF ClientsDoNot
    <3>2. CASE pc[Worker[m]] = "collect"
      <4>1. collectAt = {Worker[m]}
        BY <3>1, <3>2, ThreadsAndMachines
      <4>2. QED
        BY <3>2, <4>1, FS_Singleton
    <3>3. CASE pc[Worker[m]] # "collect"
      <4>1. collectAt = {}
        BY <3>1, <3>3
      <4>2. QED
        BY <3>3, <4>1, FS_EmptySet
    <3>4. QED
      BY <3>2, <3>3
  <2>2. Len(Buffered(m)) = IF inbox[m] = NULL THEN 0 ELSE 1
    BY DEF Buffered, NoPacket
  <2>3. QED
    BY <1>1, <2>1, <2>2 DEF Counted
<1>4. QED
  BY <1>2, <1>3

\* A step that touches neither the counters nor the threads of a machine.
LEMMA CountedStays ==
  ASSUME NEW m \in Machines, Counted(m),
         sending'[m] = sending[m], messageSent'[m] = messageSent[m],
         messageAvailable'[m] = messageAvailable[m], inbox'[m] = inbox[m],
         \A t \in Threads : Host[t] = m => pc'[t] = pc[t]
  PROVE  Counted(m)'
  BY ThreadsAndMachines DEF Counted

\* Each step keeps the counters of the machines that run.
LEMMA CountsStep ==
  ASSUME ControlOK, MailsOK, WorkersDeliver, ClientsDoNot, SendersHoldLock, Counts, [Next]_vars
  PROVE  Counts'
<1>1. ASSUME NEW t \in Threads, SendAcquires(t)
      PROVE  Counts'
  BY <1>1, ThreadsAndMachines, LockNames
  DEF SendAcquires, Acquire, Goto, At, BoxesAlone, listVars, parameters, deviceVars,
      semaphores, ControlOK, Counts, Counted, NoPacket
<1>2. ASSUME NEW t \in Threads, NetworkSend(t)
      PROVE  Counts'
  <2> DEFINE m == Host[t]
  <2>1. /\ pc[t] = "locked" /\ m \notin aborted /\ pc' = [pc EXCEPT ![t] = "sent"]
        /\ sending' = [sending EXCEPT ![m] = @ + 1]
        /\ UNCHANGED <<messageSent, messageAvailable, inbox>>
        /\ aborted \subseteq aborted'
    BY <1>2 DEF NetworkSend, SendToSocket, Goto, At, Runs, semaphores
  <2>2. m \in Machines /\ m = Host[t]
    BY ThreadsAndMachines
  <2> HIDE DEF m
  <2>3. ASSUME NEW n \in Machines \ aborted', n # m
        PROVE  Counted(n)'
    <3>1. n \in Machines \ aborted
      BY <2>1
    <3>2. Counted(n)
      BY <3>1 DEF Counts
    <3>3. /\ sending'[n] = sending[n] /\ messageSent'[n] = messageSent[n]
          /\ messageAvailable'[n] = messageAvailable[n] /\ inbox'[n] = inbox[n]
          /\ \A u \in Threads : Host[u] = n => pc'[u] = pc[u]
      BY <2>1, <2>2, <2>3 DEF ControlOK, MailsOK
    <3>4. QED
      BY <3>2, <3>3, CountedStays
  <2>4. Counted(m)'
    <3>1. \A u \in Threads : ~(Host[u] = m /\ pc[u] = "sent")
      BY <2>1, <2>2 DEF SendersHoldLock, Sending
    <3>2. Counted(m)
      BY <2>1, <2>2 DEF Counts
    <3>3. sending[m] + messageSent[m] = 0 /\ sending[m] \in Nat /\ messageSent[m] \in Nat
      BY <3>1, <3>2, <2>2 DEF Counted, ControlOK
    <3>4. sending'[m] + messageSent'[m] = 1
      BY <3>3, <2>1, <2>2 DEF ControlOK
    <3>5. pc'[t] = "sent" /\ (pc'[Worker[m]] = "collect" <=> pc[Worker[m]] = "collect")
      BY <2>1, <2>2, ThreadsAndMachines DEF ControlOK
    <3>6. QED
      BY <3>2, <3>4, <3>5, <2>1, <2>2 DEF Counted
  <2>5. QED
    BY <2>2, <2>3, <2>4 DEF Counts
<1>3. ASSUME NEW t \in Threads, SendWaits(t)
      PROVE  Counts'
  <2> DEFINE m == Host[t]
  <2>1. /\ pc[t] = "sent" /\ m \notin aborted /\ pc' = [pc EXCEPT ![t] = "unlock"]
        /\ messageSent' = [messageSent EXCEPT ![m] = @ - 1]
        /\ UNCHANGED <<sending, messageAvailable, inbox, aborted>>
    BY <1>3 DEF SendWaits, Goto, At, Runs, deviceVars
  <2>2. m \in Machines /\ m = Host[t]
    BY ThreadsAndMachines
  <2> HIDE DEF m
  <2>3. ASSUME NEW n \in Machines \ aborted', n # m
        PROVE  Counted(n)'
    <3>1. n \in Machines \ aborted
      BY <2>1
    <3>2. Counted(n)
      BY <3>1 DEF Counts
    <3>3. /\ sending'[n] = sending[n] /\ messageSent'[n] = messageSent[n]
          /\ messageAvailable'[n] = messageAvailable[n] /\ inbox'[n] = inbox[n]
          /\ \A u \in Threads : Host[u] = n => pc'[u] = pc[u]
      BY <2>1, <2>2, <2>3 DEF ControlOK, MailsOK
    <3>4. QED
      BY <3>2, <3>3, CountedStays
  <2>4. Counted(m)'
    <3>1. \A u \in Threads \ {t} : ~(Host[u] = m /\ pc[u] = "sent")
      BY <2>1, <2>2 DEF SendersHoldLock, Sending
    <3>2. Counted(m)
      BY <2>1, <2>2 DEF Counts
    <3>3. sending[m] + messageSent[m] = 1 /\ sending[m] \in Nat /\ messageSent[m] \in Nat
      BY <3>2, <2>1, <2>2 DEF Counted, ControlOK
    <3>4. sending'[m] + messageSent'[m] = 0
      BY <3>3, <2>1, <2>2 DEF ControlOK
    <3>5. /\ pc'[t] = "unlock" /\ \A u \in Threads \ {t} : pc'[u] = pc[u]
          /\ pc'[Worker[m]] = "collect" <=> pc[Worker[m]] = "collect"
      BY <2>1, <2>2, ThreadsAndMachines DEF ControlOK
    <3>6. \A u \in Threads : ~(Host[u] = m /\ pc'[u] = "sent")
      BY <3>1, <3>5
    <3>7. QED
      BY <3>2, <3>4, <3>5, <3>6, <2>1, <2>2 DEF Counted
  <2>5. QED
    BY <2>2, <2>3, <2>4 DEF Counts
<1>4. ASSUME NEW t \in Threads, SendReleases(t)
      PROVE  Counts'
  BY <1>4, ThreadsAndMachines, LockNames
  DEF SendReleases, Release, Goto, Return, Holds, At, BoxesAlone, listVars, parameters,
      deviceVars, semaphores, ControlOK, Counts, Counted, NoPacket
<1>5. ASSUME NEW t \in Threads, HaltMachine(t)
      PROVE  Counts'
  BY <1>5, ThreadsAndMachines, LockNames
  DEF HaltMachine, At, BoxesAlone, listVars, parameters, deviceVars, semaphores, ControlOK,
      Counts, Counted, NoPacket
<1>6. ASSUME NEW t \in Threads, NEW l \in Lists, BoxesAlone, Enter(t, l)
      PROVE  Counts'
  BY <1>6, ThreadsAndMachines, LockNames
  DEF Enter, Acquire, Goto, At, BoxesAlone, listVars, parameters, deviceVars, semaphores,
      ControlOK, Counts, Counted, NoPacket
<1>7. ASSUME NEW t \in Threads, NEW l \in Lists, BoxesAlone, AppendItemAndSignal(t, l)
      PROVE  Counts'
  BY <1>7, ThreadsAndMachines, LockNames
  DEF AppendItemAndSignal, Signal, Goto, At, BoxesAlone, listVars, parameters, deviceVars,
      semaphores, ControlOK, Counts, Counted, NoPacket
<1>8. ASSUME NEW t \in Threads, NEW l \in Lists, BoxesAlone, Leave(t, l)
      PROVE  Counts'
  BY <1>8, ThreadsAndMachines, LockNames
  DEF Leave, Release, Goto, Return, At, BoxesAlone, listVars, parameters, deviceVars,
      semaphores, ControlOK, Counts, Counted, NoPacket
<1>9. ASSUME NEW t \in Threads, NEW l \in Lists, BoxesAlone, WaitForItem(t, l)
      PROVE  Counts'
  BY <1>9, ThreadsAndMachines, LockNames
  DEF WaitForItem, Wait, Goto, At, BoxesAlone, listVars, parameters, deviceVars,
      semaphores, ControlOK, Counts, Counted, NoPacket
<1>10. ASSUME NEW t \in Threads, NEW l \in Lists, BoxesAlone, WaitReturns(t, l)
      PROVE  Counts'
  BY <1>10, ThreadsAndMachines, LockNames
  DEF WaitReturns, ReturnFromWait, Acquire, Goto, At, BoxesAlone, listVars, parameters,
      deviceVars, semaphores, ControlOK, Counts, Counted, NoPacket
<1>11. ASSUME NEW t \in Threads, NEW l \in Lists, BoxesAlone, RemoveItem(t, l)
      PROVE  Counts'
  BY <1>11, ThreadsAndMachines, LockNames
  DEF RemoveItem, Release, Goto, Return, At, BoxesAlone, listVars, parameters, deviceVars,
      semaphores, ControlOK, Counts, Counted, NoPacket
<1>12. ASSUME NEW t \in Threads, WorkerWaits(t)
      PROVE  Counts'
  BY <1>12, ThreadsAndMachines, LockNames
  DEF WorkerWaits, Goto, At, BoxesAlone, listVars, parameters, deviceVars, semaphores,
      ControlOK, Counts, Counted, NoPacket
<1>13. ASSUME NEW t \in Threads, WorkerCollects(t)
      PROVE  Counts'
  <2> DEFINE m == Host[t]
  <2>1. /\ pc[t] = "collect" /\ m \notin aborted /\ pc' = [pc EXCEPT ![t] = "out"]
        /\ inbox[m] # NULL /\ inbox' = [inbox EXCEPT ![m] = NULL]
        /\ UNCHANGED <<sending, messageSent, messageAvailable, aborted>>
    BY <1>13 DEF WorkerCollects, Goto, At, Runs, semaphores, NoPacket
  <2>2. m \in Machines /\ m = Host[t] /\ t = Worker[m]
    BY <2>1, ThreadsAndMachines DEF ClientsDoNot
  <2> HIDE DEF m
  <2>3. ASSUME NEW n \in Machines \ aborted', n # m
        PROVE  Counted(n)'
    <3>1. n \in Machines \ aborted
      BY <2>1
    <3>2. Counted(n)
      BY <3>1 DEF Counts
    <3>3. /\ sending'[n] = sending[n] /\ messageSent'[n] = messageSent[n]
          /\ messageAvailable'[n] = messageAvailable[n] /\ inbox'[n] = inbox[n]
          /\ \A u \in Threads : Host[u] = n => pc'[u] = pc[u]
      BY <2>1, <2>2, <2>3 DEF ControlOK, MailsOK
    <3>4. QED
      BY <3>2, <3>3, CountedStays
  <2>4. Counted(m)'
    <3>1. Counted(m) /\ messageAvailable[m] \in Nat
      BY <2>1, <2>2 DEF Counts, ControlOK
    <3>2. messageAvailable[m] = 0
      BY <3>1, <2>1, <2>2 DEF Counted
    <3>3. /\ pc'[t] = "out" /\ \A u \in Threads \ {t} : pc'[u] = pc[u]
          /\ inbox'[m] = NULL
      BY <2>1, <2>2 DEF ControlOK, MailsOK
    <3>4. \A u \in Threads : pc'[u] = "sent" <=> pc[u] = "sent"
      BY <3>3, <2>1
    <3>5. QED
      BY <3>1, <3>2, <3>3, <3>4, <2>1, <2>2 DEF Counted
  <2>5. QED
    BY <2>2, <2>3, <2>4 DEF Counts
<1>14. ASSUME NEW m \in Machines, CheckPktAvail(m)
      PROVE  Counts'
  <2>1. /\ m \notin aborted /\ inbox[m] = NULL /\ socket[m] # <<>>
        /\ inbox' = [inbox EXCEPT ![m] = Head(socket[m])]
        /\ messageAvailable' = [messageAvailable EXCEPT ![m] = @ + 1]
        /\ UNCHANGED <<pc, sending, messageSent, aborted>>
    BY <1>14 DEF CheckPktAvail, Runs, PollSocket, ReadFromSocket, NoPacket
  <2>2. m \in Machines
    OBVIOUS
  <2>3. ASSUME NEW n \in Machines \ aborted', n # m
        PROVE  Counted(n)'
    <3>1. n \in Machines \ aborted
      BY <2>1
    <3>2. Counted(n)
      BY <3>1 DEF Counts
    <3>3. /\ sending'[n] = sending[n] /\ messageSent'[n] = messageSent[n]
          /\ messageAvailable'[n] = messageAvailable[n] /\ inbox'[n] = inbox[n]
          /\ \A u \in Threads : Host[u] = n => pc'[u] = pc[u]
      BY <2>1, <2>2, <2>3 DEF ControlOK, MailsOK
    <3>4. QED
      BY <3>2, <3>3, CountedStays
  <2>4. Counted(m)'
    <3>1. Counted(m) /\ messageAvailable[m] \in Nat
      BY <2>1, <2>2 DEF Counts, ControlOK
    <3>2. inbox'[m] # NULL
      BY <2>1, MailsTail DEF MailsOK
    <3>3. messageAvailable[m] = 0 /\ pc[Worker[m]] # "collect"
      BY <3>1, <2>1 DEF Counted
    <3>4. messageAvailable'[m] = 1
      BY <3>3, <2>1 DEF ControlOK
    <3>5. QED
      BY <3>1, <3>2, <3>3, <3>4, <2>1 DEF Counted
  <2>5. QED
    BY <2>2, <2>3, <2>4 DEF Counts
<1>15. ASSUME NEW m \in Machines, SendDone(m)
      PROVE  Counts'
  BY <1>15, ThreadsAndMachines, LockNames
  DEF SendDone, At, BoxesAlone, listVars, parameters, deviceVars, semaphores, ControlOK,
      Counts, Counted, NoPacket
<1>16. ASSUME UNCHANGED vars
      PROVE  Counts'
  BY <1>16 DEF vars, listVars, parameters, deviceVars, semaphores, Counts, Counted, NoPacket
<1>17. QED
  BY <1>1, <1>2, <1>3, <1>4, <1>5, <1>6, <1>7, <1>8, <1>9, <1>10, <1>11, <1>12, <1>13,
     <1>14, <1>15, <1>16
  DEF Next, Step, Interrupts, UseBox, ListStep, BoxesAlone

-------------------------------------------------------------------------------
\* Between of one mail.
LEMMA BetweenOne ==
  ASSUME NEW m, NEW l, NEW x
  PROVE  Between(m, l, <<x>>) = IF Matches(m, l, x) THEN <<x>> ELSE <<>>
<1>1. <<x>> = Append(<<>>, x)
  OBVIOUS
<1>2. Between(m, l, Append(<<>>, x)) =
        IF Matches(m, l, x) THEN Append(Between(m, l, <<>>), x) ELSE Between(m, l, <<>>)
  BY EmptySequence, BetweenAppend
<1>3. QED
  BY <1>1, <1>2, BetweenEmpty

\* A mail at the end, or at the front, of a sequence.
LEMMA BetweenLast ==
  ASSUME NEW m, NEW l, NEW s, NEW x, Sequence(s)
  PROVE  Between(m, l, Append(s, x)) = Between(m, l, s) \o Between(m, l, <<x>>)
<1>1. Append(s, x) = s \o <<x>> /\ Sequence(<<x>>)
  BY AppendConcat, OneSequence
<1>2. Between(m, l, s \o <<x>>) = Between(m, l, s) \o Between(m, l, <<x>>)
  BY <1>1, BetweenConcat
<1>3. QED
  BY <1>1, <1>2

LEMMA BetweenFirst ==
  ASSUME NEW m, NEW l, NEW s, Sequence(s), s # <<>>
  PROVE  Between(m, l, s) = Between(m, l, <<Head(s)>>) \o Between(m, l, Tail(s))
<1> DEFINE one == <<Head(s)>>
           rest == Tail(s)
<1>1. s = one \o rest /\ Sequence(one) /\ Sequence(rest)
  BY TailSequence, OneSequence
<1> HIDE DEF one, rest
<1>2. Between(m, l, one \o rest) = Between(m, l, one) \o Between(m, l, rest)
  BY <1>1, BetweenConcat
<1>3. QED
  BY <1>1, <1>2 DEF one, rest

\* The parts of the path of a mail, and how a mail x goes from one to the next.
Joined(a, b, c, d, e) == a \o b \o c \o d \o e

\* What a mail that goes from one part to the next does not change.
LEMMA Moves ==
  ASSUME NEW a, NEW b, NEW c, NEW d, NEW e, NEW x,
         Sequence(a), Sequence(b), Sequence(c), Sequence(d), Sequence(e), Sequence(x)
  PROVE  /\ Joined(a, b, c, d, e \o x) = Joined(a, b, c, d, e) \o x
         /\ Joined(a, b, c, x, e) = Joined(a, b, c, <<>>, x \o e)
         /\ Joined(a, b, x, <<>>, e) = Joined(a, b, <<>>, x, e)
         /\ Joined(a, b \o x, <<>>, d, e) = Joined(a, b, x, d, e)
         /\ Joined(a \o x, b, c, d, e) = Joined(a, x \o b, c, d, e)
<1> DEFINE S == Range(a) \cup Range(b) \cup Range(c) \cup Range(d) \cup Range(e) \cup Range(x)
           Cat(p, q) == p \o q
<1>1. /\ a \in Seq(S) /\ b \in Seq(S) /\ c \in Seq(S)
      /\ d \in Seq(S) /\ e \in Seq(S) /\ x \in Seq(S)
  BY SeqMonotonic DEF Sequence
<1> HIDE DEF S
<1>2. \A s, t \in Seq(S) : Cat(s, t) \in Seq(S)
  BY ConcatProperties
<1>3. \A s, t, u \in Seq(S) : Cat(Cat(s, t), u) = Cat(s, Cat(t, u))
  BY ConcatAssociative
<1>4. \A s \in Seq(S) : Cat(s, <<>>) = s
  BY ConcatEmptySeq
<1>5. \A p, q, r, s, t : Joined(p, q, r, s, t) = Cat(Cat(Cat(Cat(p, q), r), s), t)
  BY DEF Joined
<1> SUFFICES /\ Joined(a, b, c, d, Cat(e, x)) = Cat(Joined(a, b, c, d, e), x)
             /\ Joined(a, b, c, x, e) = Joined(a, b, c, <<>>, Cat(x, e))
             /\ Joined(a, b, x, <<>>, e) = Joined(a, b, <<>>, x, e)
             /\ Joined(a, Cat(b, x), <<>>, d, e) = Joined(a, b, x, d, e)
             /\ Joined(Cat(a, x), b, c, d, e) = Joined(a, Cat(x, b), c, d, e)
  OBVIOUS
<1> HIDE DEF Cat
<1>6. /\ Cat(a, b) \in Seq(S)
      /\ Cat(Cat(a, b), c) \in Seq(S) /\ Cat(Cat(a, b), x) \in Seq(S)
      /\ Cat(Cat(Cat(a, b), c), d) \in Seq(S)
  BY <1>1, <1>2
<1>7. Joined(a, b, c, d, Cat(e, x)) = Cat(Joined(a, b, c, d, e), x)
  BY <1>1, <1>3, <1>5, <1>6
<1>8. Joined(a, b, c, x, e) = Joined(a, b, c, <<>>, Cat(x, e))
  BY <1>1, <1>3, <1>4, <1>5, <1>6
<1>9. Joined(a, b, x, <<>>, e) = Joined(a, b, <<>>, x, e)
  BY <1>4, <1>5, <1>6
<1>10. Joined(a, Cat(b, x), <<>>, d, e) = Joined(a, b, x, d, e)
  BY <1>1, <1>3, <1>4, <1>5, <1>6
<1>11. Joined(Cat(a, x), b, c, d, e) = Joined(a, Cat(x, b), c, d, e)
  BY <1>1, <1>3, <1>5
<1>12. QED
  BY <1>7, <1>8, <1>9, <1>10, <1>11

\* What MailConserved says of one sender and one box, part by part.
Conserved(m, n, b) ==
  LET l == <<n, b>>
  IN  Between(m, l, sent[m]) =
        Joined(Between(m, l, removed[l]), Between(m, l, list[l]), Between(m, l, InHand(n)),
               Between(m, l, Buffered(n)), Between(m, l, socket[n]))

AllConserved == \A m, n \in Machines, b \in Boxes : Conserved(m, n, b)

\* The moves that leave one part of the path out of sight.
LEMMA FromSocket ==
  ASSUME NEW a, NEW b, NEW c, NEW e, NEW x,
         Sequence(a), Sequence(b), Sequence(c), Sequence(e), Sequence(x)
  PROVE  Joined(a, b, c, x, e) = Joined(a, b, c, <<>>, x \o e)
<1>1. Sequence(<<>>)
  BY EmptySequence
<1>2. /\ Joined(a, b, c, <<>>, e \o x) = Joined(a, b, c, <<>>, e) \o x
      /\ Joined(a, b, c, x, e) = Joined(a, b, c, <<>>, x \o e)
  BY <1>1, Moves
<1>3. QED
  BY <1>2

LEMMA FromBuffer ==
  ASSUME NEW a, NEW b, NEW e, NEW x,
         Sequence(a), Sequence(b), Sequence(e), Sequence(x)
  PROVE  Joined(a, b, x, <<>>, e) = Joined(a, b, <<>>, x, e)
<1>1. Sequence(<<>>)
  BY EmptySequence
<1>2. /\ Joined(a, b, <<>>, <<>>, e \o x) = Joined(a, b, <<>>, <<>>, e) \o x
      /\ Joined(a, b, x, <<>>, e) = Joined(a, b, <<>>, x, e)
  BY <1>1, Moves
<1>3. QED
  BY <1>2

LEMMA FromHand ==
  ASSUME NEW a, NEW b, NEW d, NEW e, NEW x,
         Sequence(a), Sequence(b), Sequence(d), Sequence(e), Sequence(x)
  PROVE  Joined(a, b \o x, <<>>, d, e) = Joined(a, b, x, d, e)
<1>1. Sequence(<<>>)
  BY EmptySequence
<1>2. /\ Joined(a, b, <<>>, d, e \o x) = Joined(a, b, <<>>, d, e) \o x
      /\ Joined(a, b \o x, <<>>, d, e) = Joined(a, b, x, d, e)
  BY <1>1, Moves
<1>3. QED
  BY <1>2

\* What the postal worker carries and the network buffers are sequences.
LEMMA HandSequence ==
  ASSUME NEW n
  PROVE  Sequence(InHand(n)) /\ Sequence(Buffered(n))
  BY EmptySequence, OneSequence DEF InHand, Buffered

\* Part by part, the path is the path of MailConserved.
LEMMA ConservedSuffices ==
  ASSUME MailsOK, AllConserved
  PROVE  MailConserved
<1> SUFFICES ASSUME NEW m \in Machines, NEW n \in Machines, NEW b \in Boxes
             PROVE  LET l == <<n, b>>
                        path == removed[l] \o list[l] \o InHand(n) \o Buffered(n) \o socket[n]
                    IN  Between(m, l, sent[m]) = Between(m, l, path)
  BY DEF MailConserved
<1> DEFINE l == <<n, b>>
           B(s) == Between(m, l, s)
           r == removed[l]
           i == list[l]
           h == InHand(n)
           k == Buffered(n)
           s == socket[n]
<1>1. Sequence(r) /\ Sequence(i) /\ Sequence(h) /\ Sequence(k) /\ Sequence(s)
  BY LockNames, HandSequence DEF MailsOK, Mails
<1>2. B(sent[m]) = Joined(B(r), B(i), B(h), B(k), B(s))
  BY DEF AllConserved, Conserved
<1> HIDE DEF r, i, h, k, s
<1>3. /\ Sequence(r \o i) /\ B(r \o i) = B(r) \o B(i)
  BY <1>1, ConcatSequence, BetweenConcat
<1> DEFINE ri == r \o i
<1> HIDE DEF ri
<1>4. Sequence(ri \o h) /\ B(ri \o h) = B(ri) \o B(h)
  BY <1>1, <1>3, ConcatSequence, BetweenConcat DEF ri
<1> DEFINE rih == ri \o h
<1> HIDE DEF rih
<1>5. Sequence(rih \o k) /\ B(rih \o k) = B(rih) \o B(k)
  BY <1>1, <1>4, ConcatSequence, BetweenConcat DEF rih
<1> DEFINE rihk == rih \o k
<1> HIDE DEF rihk
<1>6. B(rihk \o s) = B(rihk) \o B(s)
  BY <1>1, <1>5, BetweenConcat DEF rihk
<1>7. B(rihk \o s) = Joined(B(r), B(i), B(h), B(k), B(s))
  BY <1>3, <1>4, <1>5, <1>6 DEF ri, rih, rihk, Joined
<1>8. QED
  BY <1>2, <1>7 DEF ri, rih, rihk, r, i, h, k, s

\* A step that moves no mail.
LEMMA HandStays ==
  ASSUME NEW n, todo'[Worker[n]] = todo[Worker[n]],
         pc'[Worker[n]] = "leaving" <=> pc[Worker[n]] = "leaving"
  PROVE  InHand(n)' = InHand(n)
  BY DEF InHand

\* A step that touches no part of the path to a box.
LEMMA ConservedStays ==
  ASSUME NEW m, NEW n, NEW b, Conserved(m, n, b), sent'[m] = sent[m],
         removed'[<<n, b>>] = removed[<<n, b>>], list'[<<n, b>>] = list[<<n, b>>],
         InHand(n)' = InHand(n), inbox'[n] = inbox[n], socket'[n] = socket[n]
  PROVE  Conserved(m, n, b)'
  BY DEF Conserved, Buffered

\* A step that touches no mail at all.
LEMMA NothingMoves ==
  ASSUME AllConserved, UNCHANGED <<sent, removed, list, inbox, socket>>,
         \A n \in Machines :
           /\ todo'[Worker[n]] = todo[Worker[n]]
           /\ pc'[Worker[n]] = "leaving" <=> pc[Worker[n]] = "leaving"
  PROVE  AllConserved'
<1>1. ASSUME NEW m \in Machines, NEW n \in Machines, NEW b \in Boxes
      PROVE  Conserved(m, n, b)'
  <2>1. InHand(n)' = InHand(n)
    <3>1. /\ todo'[Worker[n]] = todo[Worker[n]]
          /\ pc'[Worker[n]] = "leaving" <=> pc[Worker[n]] = "leaving"
      OBVIOUS
    <3>2. QED
      BY <3>1, HandStays
  <2>2. Conserved(m, n, b)
    BY DEF AllConserved
  <2>3. /\ sent'[m] = sent[m] /\ inbox'[n] = inbox[n] /\ socket'[n] = socket[n]
        /\ removed'[<<n, b>>] = removed[<<n, b>>] /\ list'[<<n, b>>] = list[<<n, b>>]
    OBVIOUS
  <2>4. QED
    BY <2>1, <2>2, <2>3, ConservedStays
<1>2. QED
  BY <1>1 DEF AllConserved

\* All parts of the path to a box are sequences of mails.
LEMMA PartsAreSequences ==
  ASSUME MailsOK, NEW m \in Machines, NEW n \in Machines, NEW b \in Boxes
  PROVE  LET l == <<n, b>>
         IN  /\ l \in Lists
             /\ Sequence(removed[l]) /\ Sequence(list[l]) /\ Sequence(socket[n]) /\ Sequence(sent[m])
             /\ Sequence(Between(m, l, removed[l]))
             /\ Sequence(Between(m, l, list[l]))
             /\ Sequence(Between(m, l, InHand(n)))
             /\ Sequence(Between(m, l, Buffered(n)))
             /\ Sequence(Between(m, l, socket[n]))
             /\ \A x : Sequence(Between(m, l, <<x>>))
<1> DEFINE l == <<n, b>>
<1>1. l \in Lists
  BY LockNames
<1>2. /\ Sequence(removed[l]) /\ Sequence(list[l]) /\ Sequence(socket[n]) /\ Sequence(sent[m])
      /\ Sequence(InHand(n)) /\ Sequence(Buffered(n))
  BY <1>1, HandSequence DEF MailsOK, Mails
<1>3. \A x : Sequence(<<x>>)
  BY OneSequence
<1> HIDE DEF l
<1>4. QED
  BY <1>1, <1>2, <1>3, BetweenSequence DEF l

\* Each step moves a mail at most one place along its path.
LEMMA AllConservedStep ==
  ASSUME ControlOK, MailsOK, WorkersDeliver, ClientsDoNot, SendersHoldLock, AllConserved,
         [Next]_vars
  PROVE  AllConserved'
<1>1. ASSUME NEW t \in Threads, SendAcquires(t)
      PROVE  AllConserved'
  <2>1. UNCHANGED <<sent, removed, list, inbox, socket>>
    BY <1>1 DEF SendAcquires, Acquire, Goto, At, BoxesAlone, listVars, deviceVars, ControlOK
  <2>2. \A n \in Machines :
          /\ todo'[Worker[n]] = todo[Worker[n]]
          /\ pc'[Worker[n]] = "leaving" <=> pc[Worker[n]] = "leaving"
    BY <1>1, ThreadsAndMachines
    DEF SendAcquires, Acquire, Goto, At, BoxesAlone, listVars, deviceVars, ControlOK
  <2>3. QED
    BY <2>1, <2>2, NothingMoves
<1>2. ASSUME NEW t \in Threads, NetworkSend(t)
      PROVE  AllConserved'
  <2> DEFINE src == Host[t]
             mail == Outgoing(t)
             one == <<mail>>
  <2>1. /\ UNCHANGED <<removed, list, inbox, todo>>
        /\ pc[t] = "locked" /\ pc' = [pc EXCEPT ![t] = "sent"]
        /\ \/ UNCHANGED <<socket, sent>>
           \/ /\ mail.to \in up
              /\ socket' = [socket EXCEPT ![mail.to] = Append(@, mail)]
              /\ sent' = [sent EXCEPT ![src] = Append(@, mail)]
    BY <1>2 DEF NetworkSend, SendToSocket, Goto, At, listVars
  <2>2. \A n \in Machines :
          /\ todo'[Worker[n]] = todo[Worker[n]]
          /\ pc'[Worker[n]] = "leaving" <=> pc[Worker[n]] = "leaving"
    BY <2>1, ThreadsAndMachines DEF ControlOK
  <2>3. CASE UNCHANGED <<socket, sent>>
    BY <2>1, <2>2, <2>3, NothingMoves
  <2>4. CASE /\ mail.to \in up
             /\ socket' = [socket EXCEPT ![mail.to] = Append(@, mail)]
             /\ sent' = [sent EXCEPT ![src] = Append(@, mail)]
  <3>1. SUFFICES ASSUME NEW m \in Machines, NEW n \in Machines, NEW b \in Boxes
                 PROVE  Conserved(m, n, b)'
    BY DEF AllConserved
  <3> DEFINE box == <<n, b>>
             B(s) == Between(m, box, s)
             a == B(removed[box])
             c == B(list[box])
             h == B(InHand(n))
             k == B(Buffered(n))
             s == B(socket[n])
             x == B(one)
  <3>2. B(sent[m]) = Joined(a, c, h, k, s)
    BY DEF AllConserved, Conserved
  <3>3. /\ Sequence(a) /\ Sequence(c) /\ Sequence(h) /\ Sequence(k) /\ Sequence(s)
        /\ Sequence(x) /\ Sequence(socket[n]) /\ Sequence(sent[m]) /\ Sequence(B(sent[m]))
    BY PartsAreSequences, BetweenSequence
  <3>4. InHand(n)' = InHand(n) /\ Buffered(n)' = Buffered(n)
    <4>1. /\ todo'[Worker[n]] = todo[Worker[n]]
          /\ pc'[Worker[n]] = "leaving" <=> pc[Worker[n]] = "leaving"
      BY <2>2
    <4>2. QED
      BY <4>1, <2>1, HandStays DEF Buffered
  <3>5. x = IF src = m /\ <<mail.to, mail.box>> = box THEN one ELSE <<>>
    BY BetweenOne, MailIsMail DEF Matches
  <3>6. /\ B(Append(socket[n], mail)) = s \o x
        /\ B(Append(sent[m], mail)) = B(sent[m]) \o x
    BY <3>3, BetweenLast
  <3>7. /\ s \o <<>> = s /\ B(sent[m]) \o <<>> = B(sent[m])
        /\ Joined(a, c, h, k, s \o x) = Joined(a, c, h, k, s) \o x
    <4>1. s \o <<>> = s
      <5> HIDE DEF s
      <5>1. QED
        BY <3>3, AppendConcat
    <4>2. B(sent[m]) \o <<>> = B(sent[m])
      <5> HIDE DEF B
      <5>1. QED
        BY <3>3, AppendConcat
    <4>3. Joined(a, c, h, k, s \o x) = Joined(a, c, h, k, s) \o x
      <5> HIDE DEF a, c, h, k, s, x
      <5>1. QED
        BY <3>3, Moves
    <4>4. QED
      BY <4>1, <4>2, <4>3
  <3>8. socket'[n] = (IF mail.to = n THEN Append(socket[n], mail) ELSE socket[n])
    BY <2>4 DEF MailsOK
  <3>9. sent'[m] = (IF src = m THEN Append(sent[m], mail) ELSE sent[m])
    BY <2>4 DEF MailsOK
  <3>10. mail.to # n \/ src # m => x = <<>>
    BY <3>5
  <3> HIDE DEF x
  <3>11. B(socket'[n]) = s \o x
    <4>1. CASE mail.to = n
      BY <4>1, <3>6, <3>8
    <4>2. CASE mail.to # n
      BY <4>2, <3>7, <3>8, <3>10
    <4>3. QED
      BY <4>1, <4>2
  <3>12. B(sent'[m]) = B(sent[m]) \o x
    <4>1. CASE src = m
      BY <4>1, <3>6, <3>9
    <4>2. CASE src # m
      BY <4>2, <3>7, <3>9, <3>10
    <4>3. QED
      BY <4>1, <4>2
  <3>13. B(sent'[m]) = Joined(a, c, h, k, B(socket'[n]))
    BY <3>2, <3>7, <3>11, <3>12
  <3>14. QED
    BY <3>13, <3>4, <2>1 DEF Conserved
  <2>5. QED
    BY <2>1, <2>3, <2>4
<1>3. ASSUME NEW t \in Threads, SendWaits(t)
      PROVE  AllConserved'
  <2>1. UNCHANGED <<sent, removed, list, inbox, socket>>
    BY <1>3 DEF SendWaits, Goto, At, BoxesAlone, listVars, deviceVars, ControlOK
  <2>2. \A n \in Machines :
          /\ todo'[Worker[n]] = todo[Worker[n]]
          /\ pc'[Worker[n]] = "leaving" <=> pc[Worker[n]] = "leaving"
    BY <1>3, ThreadsAndMachines
    DEF SendWaits, Goto, At, BoxesAlone, listVars, deviceVars, ControlOK
  <2>3. QED
    BY <2>1, <2>2, NothingMoves
<1>4. ASSUME NEW t \in Threads, SendReleases(t)
      PROVE  AllConserved'
  <2>1. UNCHANGED <<sent, removed, list, inbox, socket>>
    BY <1>4
    DEF SendReleases, Release, Goto, Return, Holds, At, BoxesAlone, listVars, deviceVars,
        ControlOK
  <2>2. \A n \in Machines :
          /\ todo'[Worker[n]] = todo[Worker[n]]
          /\ pc'[Worker[n]] = "leaving" <=> pc[Worker[n]] = "leaving"
    <3>1. t \in Clients
      BY <1>4, SendersAreClients DEF SendReleases, At, Sending
    <3>2. QED
      BY <1>4, <3>1, ThreadsAndMachines
      DEF SendReleases, Release, Goto, Return, Holds, At, BoxesAlone, listVars, deviceVars,
          ControlOK
  <2>3. QED
    BY <2>1, <2>2, NothingMoves
<1>5. ASSUME NEW t \in Threads, HaltMachine(t)
      PROVE  AllConserved'
  <2>1. UNCHANGED <<sent, removed, list, inbox, socket>>
    BY <1>5 DEF HaltMachine, At, BoxesAlone, listVars, deviceVars, ControlOK
  <2>2. \A n \in Machines :
          /\ todo'[Worker[n]] = todo[Worker[n]]
          /\ pc'[Worker[n]] = "leaving" <=> pc[Worker[n]] = "leaving"
    BY <1>5, ThreadsAndMachines DEF HaltMachine, At, BoxesAlone, listVars, deviceVars, ControlOK
  <2>3. QED
    BY <2>1, <2>2, NothingMoves
<1>6. ASSUME NEW t \in Threads, NEW l \in Lists, BoxesAlone, Enter(t, l)
      PROVE  AllConserved'
  <2>1. UNCHANGED <<sent, removed, list, inbox, socket>>
    BY <1>6 DEF Enter, Acquire, Goto, At, BoxesAlone, listVars, deviceVars, ControlOK
  <2>2. \A n \in Machines :
          /\ todo'[Worker[n]] = todo[Worker[n]]
          /\ pc'[Worker[n]] = "leaving" <=> pc[Worker[n]] = "leaving"
    BY <1>6, ThreadsAndMachines
    DEF Enter, Acquire, Goto, At, BoxesAlone, listVars, deviceVars, ControlOK
  <2>3. QED
    BY <2>1, <2>2, NothingMoves
<1>7. ASSUME NEW t \in Threads, NEW l \in Lists, BoxesAlone, AppendItemAndSignal(t, l)
      PROVE  AllConserved'
  <2> DEFINE item == Head(todo[t]).item
             one == <<item>>
  <2>1. /\ pc[t] = "in" /\ Calling(t, "Append", l)
        /\ pc' = [pc EXCEPT ![t] = "leaving"] /\ todo' = todo
        /\ list' = [list EXCEPT ![l] = Append(@, item)]
    BY <1>7 DEF AppendItemAndSignal, Goto
  <2>2. UNCHANGED <<removed, inbox, socket, sent>>
    BY <1>7 DEF AppendItemAndSignal, BoxesAlone, deviceVars
  <2>3. \A n \in Machines : Worker[n] # t => InHand(n)' = InHand(n)
    <3>1. ASSUME NEW n \in Machines, Worker[n] # t
          PROVE  /\ todo'[Worker[n]] = todo[Worker[n]]
                 /\ pc'[Worker[n]] = pc[Worker[n]]
      BY <2>1, <3>1, ThreadsAndMachines DEF ControlOK
    <3>2. QED
      BY <3>1, HandStays
  <2>4. ASSUME NEW n \in Machines, Worker[n] = t
        PROVE  /\ InHand(n) = one /\ InHand(n)' = <<>>
               /\ l = <<n, item.box>>
    <3>1. Carries(n)
      BY <2>1, <2>4 DEF WorkersDeliver, Calling
    <3>2. Head(todo[t]).list = <<n, item.box>> /\ todo[t] # <<>>
      BY <2>4, <3>1, CarrierCalls
    <3>3. pc'[t] = "leaving"
      BY <2>1 DEF ControlOK
    <3>4. InHand(n) = one /\ InHand(n)' = <<>>
      BY <2>1, <2>4, <3>2, <3>3 DEF InHand
    <3>5. QED
      BY <2>1, <3>2, <3>4 DEF Calling
  <2>5. t \in Clients => item.from \notin Machines
    BY <2>1, ItemAppended
  <2> HIDE DEF item
  <2>6. SUFFICES ASSUME NEW m \in Machines, NEW n \in Machines, NEW b \in Boxes
                 PROVE  Conserved(m, n, b)'
    BY DEF AllConserved
  <2> DEFINE box == <<n, b>>
             B(s) == Between(m, box, s)
  <2>7. Conserved(m, n, b) /\ box \in Lists
    BY LockNames DEF AllConserved
  <2> DEFINE a == B(removed[box])
             c == B(list[box])
             h == B(InHand(n))
             k == B(Buffered(n))
             s == B(socket[n])
             x == B(one)
  <2>8. /\ Sequence(a) /\ Sequence(c) /\ Sequence(h) /\ Sequence(k) /\ Sequence(s)
        /\ Sequence(x) /\ Sequence(list[box])
    BY PartsAreSequences
  <2>9. B(sent[m]) = Joined(a, c, h, k, s)
    BY <2>7 DEF Conserved
  <2>10. x = IF item.from = m /\ <<item.to, item.box>> = box THEN one ELSE <<>>
    BY BetweenOne DEF Matches
  <2>11. list'[box] = (IF box = l THEN Append(list[box], item) ELSE list[box])
    BY <2>1, <2>7 DEF MailsOK
  <2>12. B(Append(list[box], item)) = c \o x
    BY <2>8, BetweenLast
  <2>13. c \o <<>> = c /\ Joined(a, c \o x, <<>>, k, s) = Joined(a, c, x, k, s)
    <3> HIDE DEF a, c, k, s, x
    <3>1. c \o <<>> = c
      BY <2>8, AppendConcat
    <3>2. Joined(a, c \o x, <<>>, k, s) = Joined(a, c, x, k, s)
      BY <2>8, FromHand
    <3>3. QED
      BY <3>1, <3>2
  <2>14. Buffered(n)' = Buffered(n)
    BY <2>2 DEF Buffered
  <2>15. CASE Worker[n] = t
    <3>1. h = x /\ B(InHand(n)') = <<>> /\ l = <<n, item.box>>
      BY <2>4, <2>15, BetweenEmpty
    <3>2. B(list'[box]) = c \o x
      <4>1. CASE box = l
        BY <4>1, <2>11, <2>12
      <4>2. CASE box # l
        <5>1. x = <<>>
          BY <4>2, <3>1, <2>10
        <5> HIDE DEF x
        <5>2. QED
          BY <4>2, <5>1, <2>11, <2>13
      <4>3. QED
        BY <4>1, <4>2
    <3>3. B(sent[m]) = Joined(a, B(list'[box]), B(InHand(n)'), k, s)
      <4>1. B(sent[m]) = Joined(a, c, x, k, s)
        BY <2>9, <3>1
      <4>2. QED
        BY <4>1, <2>13, <3>1, <3>2
    <3>4. QED
      BY <3>3, <2>2, <2>14 DEF Conserved
  <2>16. CASE Worker[n] # t
    <3>1. InHand(n)' = InHand(n)
      BY <2>3, <2>16
    <3>2. B(list'[box]) = c
      <4>1. CASE box # l
        BY <4>1, <2>11
      <4>2. CASE box = l
        <5>1. x = <<>>
          <6>1. CASE t \in Clients
            BY <6>1, <2>5, <2>10
          <6>2. CASE t \notin Clients
            <7>1. PICK p \in Machines : t = Worker[p]
              BY <6>2, ThreadsAndMachines
            <7>2. l = <<p, item.box>> /\ p # n
              BY <7>1, <2>4, <2>16
            <7>3. QED
              BY <7>2, <4>2
          <6>3. QED
            BY <6>1, <6>2
        <5> HIDE DEF x
        <5>2. QED
          BY <4>2, <5>1, <2>11, <2>12, <2>13
      <4>3. QED
        BY <4>1, <4>2
    <3>3. B(sent[m]) = Joined(a, B(list'[box]), h, k, s)
      BY <2>9, <3>2
    <3>4. QED
      BY <3>1, <3>3, <2>2, <2>14 DEF Conserved
  <2>17. QED
    BY <2>15, <2>16
<1>8. ASSUME NEW t \in Threads, NEW l \in Lists, BoxesAlone, Leave(t, l)
      PROVE  AllConserved'
  <2>1. /\ todo[t] # <<>>
        /\ pc' = [pc EXCEPT ![t] = "out"]
        /\ todo' = [todo EXCEPT ![t] = Tail(todo[t])]
        /\ pc[t] = "leaving" \/ (pc[t] = "in" /\ Head(todo[t]).op = "Mapcar")
    BY <1>8 DEF Leave, Goto, Return, Calling
  <2>2. UNCHANGED <<removed, list, inbox, socket, sent>>
    BY <1>8 DEF Leave, BoxesAlone, deviceVars
  <2>3. ASSUME NEW n \in Machines
        PROVE  InHand(n)' = InHand(n)
    <3>1. CASE Worker[n] # t
      <4>1. /\ todo'[Worker[n]] = todo[Worker[n]]
            /\ pc'[Worker[n]] = pc[Worker[n]]
        BY <2>1, <3>1, ThreadsAndMachines DEF ControlOK
      <4>2. QED
        BY <4>1, HandStays
    <3>2. CASE Worker[n] = t
      <4>1. Carries(n)
        BY <2>1, <3>2 DEF WorkersDeliver
      <4>2. Head(todo[t]).op = "Append" /\ Tail(todo[t]) = <<>>
        BY <3>2, <4>1, CarrierCalls
      <4>3. pc[t] = "leaving" /\ todo'[t] = <<>>
        BY <2>1, <4>2 DEF ControlOK
      <4>4. QED
        BY <3>2, <4>3 DEF InHand
    <3>3. QED
      BY <3>1, <3>2
  <2>4. SUFFICES ASSUME NEW m \in Machines, NEW n \in Machines, NEW b \in Boxes
                 PROVE  Conserved(m, n, b)'
    BY DEF AllConserved
  <2> DEFINE box == <<n, b>>
             B(s) == Between(m, box, s)
  <2>5. Conserved(m, n, b) /\ box \in Lists
    BY LockNames DEF AllConserved
  <2>6. InHand(n)' = InHand(n)
    BY <2>3
  <2>7. QED
    BY <2>2, <2>5, <2>6, ConservedStays
<1>9. ASSUME NEW t \in Threads, NEW l \in Lists, BoxesAlone, WaitForItem(t, l)
      PROVE  AllConserved'
  <2>1. UNCHANGED <<sent, removed, list, inbox, socket>>
    BY <1>9 DEF WaitForItem, Wait, Goto, At, BoxesAlone, listVars, deviceVars, ControlOK
  <2>2. \A n \in Machines :
          /\ todo'[Worker[n]] = todo[Worker[n]]
          /\ pc'[Worker[n]] = "leaving" <=> pc[Worker[n]] = "leaving"
    BY <1>9, ThreadsAndMachines
    DEF WaitForItem, Wait, Goto, At, BoxesAlone, listVars, deviceVars, ControlOK
  <2>3. QED
    BY <2>1, <2>2, NothingMoves
<1>10. ASSUME NEW t \in Threads, NEW l \in Lists, BoxesAlone, WaitReturns(t, l)
      PROVE  AllConserved'
  <2>1. UNCHANGED <<sent, removed, list, inbox, socket>>
    BY <1>10
    DEF WaitReturns, ReturnFromWait, Acquire, Goto, At, BoxesAlone, listVars, deviceVars,
        ControlOK
  <2>2. \A n \in Machines :
          /\ todo'[Worker[n]] = todo[Worker[n]]
          /\ pc'[Worker[n]] = "leaving" <=> pc[Worker[n]] = "leaving"
    BY <1>10, ThreadsAndMachines
    DEF WaitReturns, ReturnFromWait, Acquire, Goto, At, BoxesAlone, listVars, deviceVars,
        ControlOK
  <2>3. QED
    BY <2>1, <2>2, NothingMoves
<1>11. ASSUME NEW t \in Threads, NEW l \in Lists, BoxesAlone, RemoveItem(t, l)
      PROVE  AllConserved'
  <2>1. /\ list[l] # <<>>
        /\ removed' = [removed EXCEPT ![l] = Append(@, Head(list[l]))]
        /\ list' = [list EXCEPT ![l] = Tail(@)]
        /\ UNCHANGED <<inbox, socket, sent>>
    BY <1>11 DEF RemoveItem, BoxesAlone, deviceVars
  <2>2. \A n \in Machines : InHand(n)' = InHand(n)
    <3>1. t \in Clients
      <4>1. todo[t] # <<>> /\ Head(todo[t]).op # "Append"
        BY <1>11 DEF RemoveItem, Calling
      <4>2. QED
        BY <4>1, OthersAreClients
    <3>2. \A n \in Machines :
            /\ todo'[Worker[n]] = todo[Worker[n]]
            /\ pc'[Worker[n]] = pc[Worker[n]]
      BY <1>11, <3>1, ThreadsAndMachines DEF RemoveItem, Goto, Return, ControlOK
    <3>3. QED
      BY <3>2, HandStays
  <2>3. SUFFICES ASSUME NEW m \in Machines, NEW n \in Machines, NEW b \in Boxes
                 PROVE  Conserved(m, n, b)'
    BY DEF AllConserved
  <2> DEFINE box == <<n, b>>
             B(s) == Between(m, box, s)
  <2>4. Conserved(m, n, b) /\ box \in Lists
    BY LockNames DEF AllConserved
  <2>5. Buffered(n)' = Buffered(n)
    BY <2>1 DEF Buffered
  <2>6. CASE box # l
    <3>1. removed'[box] = removed[box] /\ list'[box] = list[box]
      BY <2>1, <2>4, <2>6 DEF MailsOK
    <3>2. QED
      BY <3>1, <2>1, <2>2, <2>4, ConservedStays
  <2>7. CASE box = l
    <3> DEFINE one == <<Head(list[box])>>
    <3>1. /\ B(removed'[box]) = B(removed[box]) \o B(one)
          /\ B(list[box]) = B(one) \o B(list'[box])
          /\ Sequence(list'[box])
      <4>1. Sequence(removed[box]) /\ Sequence(list[box])
        BY PartsAreSequences
      <4>2. removed'[box] = Append(removed[box], Head(list[box])) /\ list'[box] = Tail(list[box])
        BY <2>1, <2>4, <2>7 DEF MailsOK
      <4>3. list[box] # <<>>
        BY <2>1, <2>7
      <4>4. B(Append(removed[box], Head(list[box]))) = B(removed[box]) \o B(one)
        BY <4>1, BetweenLast
      <4>5. B(list[box]) = B(one) \o B(Tail(list[box])) /\ Sequence(Tail(list[box]))
        BY <4>1, <4>3, BetweenFirst, TailSequence
      <4>6. QED
        BY <4>2, <4>4, <4>5
    <3> DEFINE a == B(removed[box])
               x == B(one)
               c == B(list'[box])
               h == B(InHand(n))
               k == B(Buffered(n))
               s == B(socket[n])
    <3>2. Sequence(a) /\ Sequence(x) /\ Sequence(c) /\ Sequence(h) /\ Sequence(k) /\ Sequence(s)
      BY <3>1, PartsAreSequences, BetweenSequence
    <3>3. B(sent[m]) = Joined(a, x \o c, h, k, s)
      BY <2>4, <3>1 DEF Conserved
    <3>4. Joined(a \o x, c, h, k, s) = Joined(a, x \o c, h, k, s)
      <4> HIDE DEF a, x, c, h, k, s
      <4>1. QED
        BY <3>2, Moves
    <3>5. B(sent[m]) = Joined(B(removed'[box]), c, h, k, s)
      BY <3>1, <3>3, <3>4
    <3>6. QED
      BY <3>5, <2>1, <2>2, <2>5 DEF Conserved
  <2>8. QED
    BY <2>6, <2>7
<1>12. ASSUME NEW t \in Threads, WorkerWaits(t)
      PROVE  AllConserved'
  <2>1. UNCHANGED <<sent, removed, list, inbox, socket>>
    BY <1>12 DEF WorkerWaits, Goto, At, BoxesAlone, listVars, deviceVars, ControlOK
  <2>2. \A n \in Machines :
          /\ todo'[Worker[n]] = todo[Worker[n]]
          /\ pc'[Worker[n]] = "leaving" <=> pc[Worker[n]] = "leaving"
    BY <1>12, ThreadsAndMachines
    DEF WorkerWaits, Goto, At, BoxesAlone, listVars, deviceVars, ControlOK
  <2>3. QED
    BY <2>1, <2>2, NothingMoves
<1>13. ASSUME NEW t \in Threads, WorkerCollects(t)
      PROVE  AllConserved'
  <2> DEFINE w == Host[t]
             mail == inbox[w]
             one == <<mail>>
             call == AppendTo(<<w, mail.box>>, mail)
  <2>1. /\ mail # NULL /\ pc[t] = "collect"
        /\ inbox' = [inbox EXCEPT ![w] = NULL]
        /\ todo' = [todo EXCEPT ![t] = <<call>>]
        /\ pc' = [pc EXCEPT ![t] = "out"]
        /\ UNCHANGED <<removed, list, sent, socket>>
    BY <1>13 DEF WorkerCollects, Goto, At, NoPacket, listVars
  <2>2. w \in Machines /\ t = Worker[w]
    BY <2>1, ThreadsAndMachines DEF ClientsDoNot
  <2>3. \A n \in Machines \ {w} : InHand(n)' = InHand(n)
    <3>1. ASSUME NEW n \in Machines \ {w}
          PROVE  /\ todo'[Worker[n]] = todo[Worker[n]]
                 /\ pc'[Worker[n]] = pc[Worker[n]]
      <4>1. Worker[n] \in Threads /\ Worker[n] # t
        BY <2>2, ThreadsAndMachines
      <4>2. QED
        BY <2>1, <4>1 DEF ControlOK
    <3>2. QED
      BY <3>1, HandStays
  <2>4. InHand(w) = <<>> /\ InHand(w)' = one
    <3>1. todo[t] = <<>>
      BY <2>1, <2>2 DEF WorkersDeliver
    <3>2. todo'[t] = <<call>> /\ pc'[t] = "out"
      BY <2>1 DEF ControlOK
    <3>3. Head(<<call>>) = call /\ call.item = mail
      BY DEF AppendTo
    <3> HIDE DEF call, mail
    <3>4. QED
      BY <3>1, <3>2, <3>3, <2>2 DEF InHand
  <2>5. Buffered(w) = one /\ Buffered(w)' = <<>>
    BY <2>1, <2>2 DEF Buffered, NoPacket, MailsOK
  <2> HIDE DEF w, mail
  <2>6. SUFFICES ASSUME NEW m \in Machines, NEW n \in Machines, NEW b \in Boxes
                 PROVE  Conserved(m, n, b)'
    BY DEF AllConserved
  <2> DEFINE box == <<n, b>>
             B(s) == Between(m, box, s)
  <2>7. Conserved(m, n, b) /\ box \in Lists
    BY LockNames DEF AllConserved
  <2>8. CASE n # w
    <3>1. inbox'[n] = inbox[n] /\ InHand(n)' = InHand(n)
      BY <2>1, <2>3, <2>8 DEF MailsOK
    <3>2. QED
      BY <3>1, <2>1, <2>7, ConservedStays
  <2>9. CASE n = w
    <3> DEFINE a == B(removed[box])
               c == B(list[box])
               x == B(one)
               s == B(socket[n])
    <3>1. Sequence(a) /\ Sequence(c) /\ Sequence(x) /\ Sequence(s)
      BY PartsAreSequences
    <3>2. B(sent[m]) = Joined(a, c, <<>>, x, s)
      BY <2>7, <2>9, <2>4, <2>5, BetweenEmpty DEF Conserved
    <3>3. Joined(a, c, x, <<>>, s) = Joined(a, c, <<>>, x, s)
      <4> HIDE DEF a, c, x, s
      <4>1. QED
        BY <3>1, FromBuffer
    <3>4. /\ B(InHand(n)') = x /\ B(Buffered(n)') = <<>>
      BY <2>9, <2>4, <2>5, BetweenEmpty
    <3>5. QED
      BY <3>2, <3>3, <3>4, <2>1 DEF Conserved
  <2>10. QED
    BY <2>8, <2>9
<1>14. ASSUME NEW m \in Machines, CheckPktAvail(m)
      PROVE  AllConserved'
  <2> DEFINE l == m
  <2>1. /\ socket[l] # <<>> /\ inbox[l] = NULL
        /\ inbox' = [inbox EXCEPT ![l] = Head(socket[l])]
        /\ socket' = [socket EXCEPT ![l] = Tail(@)]
        /\ UNCHANGED <<removed, list, sent, todo, pc>>
    BY <1>14 DEF CheckPktAvail, PollSocket, ReadFromSocket, NoPacket, listVars
  <2>2. \A n \in Machines : InHand(n)' = InHand(n)
    BY <2>1, HandStays
  <2>3. l \in Machines
    OBVIOUS
  <2> HIDE DEF l
  <2>4. SUFFICES ASSUME NEW p \in Machines, NEW n \in Machines, NEW b \in Boxes
                 PROVE  Conserved(p, n, b)'
    BY DEF AllConserved
  <2> DEFINE box == <<n, b>>
             B(s) == Between(p, box, s)
  <2>5. Conserved(p, n, b) /\ box \in Lists
    BY LockNames DEF AllConserved
  <2>6. CASE n # l
    <3>1. inbox'[n] = inbox[n] /\ socket'[n] = socket[n]
      BY <2>1, <2>6 DEF MailsOK
    <3>2. QED
      BY <3>1, <2>1, <2>2, <2>5, ConservedStays
  <2>7. CASE n = l
    <3> DEFINE one == <<Head(socket[n])>>
    <3>1. /\ socket[n] # <<>> /\ Head(socket[n]) # NULL
          /\ inbox[n] = NULL /\ inbox'[n] = Head(socket[n])
          /\ socket'[n] = Tail(socket[n])
          /\ Sequence(socket[n])
      <4>1. socket[n] # <<>> /\ Mails(socket[n])
        BY <2>1, <2>7 DEF MailsOK
      <4>2. Head(socket[n]) # NULL /\ Sequence(socket[n])
        BY <4>1, MailsTail DEF Mails
      <4>3. QED
        BY <4>1, <4>2, <2>1, <2>7 DEF MailsOK
    <3>2. Buffered(n) = <<>> /\ Buffered(n)' = one
      BY <3>1 DEF Buffered, NoPacket
    <3>3. /\ B(socket[n]) = B(one) \o B(socket'[n])
          /\ Sequence(socket'[n])
      <4>1. B(socket[n]) = B(one) \o B(Tail(socket[n])) /\ Sequence(Tail(socket[n]))
        BY <3>1, BetweenFirst, TailSequence
      <4>2. QED
        BY <3>1, <4>1
    <3> DEFINE a == B(removed[box])
               c == B(list[box])
               h == B(InHand(n))
               x == B(one)
               s == B(socket'[n])
    <3>4. Sequence(a) /\ Sequence(c) /\ Sequence(h) /\ Sequence(x) /\ Sequence(s)
      BY <3>3, PartsAreSequences, BetweenSequence
    <3>5. B(sent[p]) = Joined(a, c, h, <<>>, x \o s)
      BY <2>5, <3>2, <3>3, BetweenEmpty DEF Conserved
    <3>6. Joined(a, c, h, x, s) = Joined(a, c, h, <<>>, x \o s)
      <4> HIDE DEF a, c, h, x, s
      <4>1. QED
        BY <3>4, FromSocket
    <3>7. QED
      BY <3>2, <3>5, <3>6, <2>1, <2>2 DEF Conserved
  <2>8. QED
    BY <2>6, <2>7
<1>15. ASSUME NEW m \in Machines, SendDone(m)
      PROVE  AllConserved'
  <2>1. UNCHANGED <<sent, removed, list, inbox, socket>>
    BY <1>15 DEF SendDone, At, BoxesAlone, listVars, deviceVars, ControlOK
  <2>2. \A n \in Machines :
          /\ todo'[Worker[n]] = todo[Worker[n]]
          /\ pc'[Worker[n]] = "leaving" <=> pc[Worker[n]] = "leaving"
    BY <1>15, ThreadsAndMachines DEF SendDone, At, BoxesAlone, listVars, deviceVars, ControlOK
  <2>3. QED
    BY <2>1, <2>2, NothingMoves
<1>16. ASSUME UNCHANGED vars
      PROVE  AllConserved'
  <2>1. UNCHANGED <<sent, removed, list, inbox, socket>> /\ todo' = todo /\ pc' = pc
    BY <1>16 DEF vars, listVars, deviceVars
  <2>2. \A n \in Machines :
          /\ todo'[Worker[n]] = todo[Worker[n]]
          /\ pc'[Worker[n]] = "leaving" <=> pc[Worker[n]] = "leaving"
    BY <2>1
  <2>3. QED
    BY <2>1, <2>2, NothingMoves
<1>17. QED
  BY <1>1, <1>2, <1>3, <1>4, <1>5, <1>6, <1>7, <1>8, <1>9, <1>10, <1>11, <1>12, <1>13,
     <1>14, <1>15, <1>16
  DEF Next, Step, Interrupts, UseBox, ListStep, BoxesAlone

-------------------------------------------------------------------------------
\* The inductive invariant.
Inv ==
  /\ ControlOK
  /\ MailsOK
  /\ WorkersDeliver
  /\ ClientsDoNot
  /\ SendersHoldLock
  /\ WaitersWait
  /\ EnoughTakers
  /\ Counts
  /\ AllConserved

\* At the start nothing has been sent.
LEMMA InitInv ==
  ASSUME Init
  PROVE  Inv
<1>1. /\ \A t \in Clients : todo[t] \in Seq(Calls)
      /\ \A m \in Machines : todo[Worker[m]] = <<>>
      /\ DOMAIN todo = Threads
  <2>1. /\ todo = [t \in Threads |-> IF t \in Clients THEN system[t] ELSE <<>>]
        /\ system \in [Clients -> Seq(Calls)]
    BY SystemsAssumption DEF Init
  <2>2. QED
    BY <2>1, ThreadsAndMachines
<1>2. ControlOK
  <2>1. /\ pc \in [Threads -> Places]
        /\ up \subseteq Machines
        /\ sending \in [Machines -> Nat]
        /\ messageSent \in [Machines -> Nat]
        /\ messageAvailable \in [Machines -> Nat]
        /\ owner \in [Locks -> Threads \cup {NoThread}]
    BY DEF Init, Places, Locks
  <2>2. waitList \in [Lists -> Seq(Elements(Threads))]
    BY DEF Init
  <2>3. QED
    BY <2>1, <2>2, <1>1 DEF ControlOK
<1>3. Mails(<<>>)
  BY EmptySequence DEF Mails
<1>4. MailsOK
  BY <1>3 DEF Init, SynchListInit, MailsOK
<1>5. WorkersDeliver /\ ClientsDoNot /\ SendersHoldLock
  BY <1>1, ThreadsAndMachines DEF Init, WorkersDeliver, ClientsDoNot, SendersHoldLock, Sending
<1>6. WaitersWait /\ EnoughTakers
  <2>1. \A l \in Lists : waitList[l] = <<>>
    BY DEF Init
  <2>2. Distinct(<<>>) /\ Items(<<>>) = {}
    BY DEF Distinct, Items
  <2>3. QED
    BY <2>1, <2>2 DEF WaitersWait, EnoughTakers, Enough
<1>7. Counts
  BY ThreadsAndMachines DEF Init, Counts, Counted, NoPacket
<1>8. AllConserved
  <2> SUFFICES ASSUME NEW m \in Machines, NEW n \in Machines, NEW b \in Boxes
               PROVE  Conserved(m, n, b)
    BY DEF AllConserved
  <2>1. /\ sent[m] = <<>> /\ socket[n] = <<>> /\ inbox[n] = NoPacket
        /\ removed[<<n, b>>] = <<>> /\ list[<<n, b>>] = <<>>
    BY LockNames DEF Init, SynchListInit
  <2>2. InHand(n) = <<>> /\ Buffered(n) = <<>>
    BY <1>1, <2>1 DEF InHand, Buffered
  <2>3. Joined(<<>>, <<>>, <<>>, <<>>, <<>>) = <<>>
    BY DEF Joined
  <2>4. QED
    BY <2>1, <2>2, <2>3, BetweenEmpty DEF Conserved
<1>9. QED
  BY <1>2, <1>4, <1>5, <1>6, <1>7, <1>8 DEF Inv

\* Each step preserves the invariant.
LEMMA InvStep ==
  ASSUME Inv, [Next]_vars
  PROVE  Inv'
<1>1. ControlOK' /\ MailsOK' /\ WorkersDeliver' /\ ClientsDoNot' /\ SendersHoldLock'
  BY ControlStep, MailsOKStep, WorkersDeliverStep, ClientsDoNotStep, SendersHoldLockStep DEF Inv
<1>2. WaitersWait' /\ EnoughTakers' /\ Counts' /\ AllConserved'
  BY WaitersWaitStep, EnoughTakersStep, CountsStep, AllConservedStep DEF Inv
<1>3. QED
  BY <1>1, <1>2 DEF Inv

\* The invariant holds in every state that is reached.
LEMMA Invariant == Spec => []Inv
<1>1. Init => Inv
  BY InitInv
<1>2. Inv /\ [Next]_vars => Inv'
  BY InvStep
<1>3. QED
  BY <1>1, <1>2, PTL DEF Spec

\* No mail is lost, doubled or overtaken between the socket of a machine and the
\* client that receives it, for every number of machines, boxes and threads and
\* whatever the clients call: the check of inHdr.length in CheckPktAvail, the
\* semaphore messageAvailable and the lock of the mailbox do their work.
THEOREM MailIsConserved == Spec => []MailConserved
<1>1. Inv => MailConserved
  BY ConservedSuffices DEF Inv
<1>2. QED
  BY <1>1, Invariant, PTL

\* A machine has at most one packet on its way out, its NetworkSendDone wakes the
\* sender of that packet, and messageAvailable counts the packet in inbox: what
\* ASSERT(sendBusy == FALSE) of Network::Send relies on.
THEOREM OnePacketAtATime == Spec => []OneAtATime
<1>1. Inv => OneAtATime
  BY CountsSuffice DEF Inv
<1>2. QED
  BY <1>1, Invariant, PTL

\* A thread that waits in Remove leaves no item lying: as many threads as there
\* are items are signalled or inside, although SynchList::Append signals one
\* thread and any other thread may take the item first; and no Remove returns
\* without an item.
THEOREM ItemsFindTakers == Spec => []ItemsHaveTakers
<1>1. Inv => ItemsHaveTakers
  <2> SUFFICES ASSUME Inv
               PROVE  ItemsHaveTakers
    OBVIOUS
  <2>1. \A l \in Lists : waitList[l] # <<>> => Len(list[l]) <= Cardinality(Takers(l))
    BY DEF Inv, EnoughTakers, Enough
  <2>2. \A t \in Threads : NULL \notin Range(got[t])
    BY DEF Inv, MailsOK, Mails
  <2>3. QED
    BY <2>1, <2>2 DEF ItemsHaveTakers
<1>2. QED
  BY <1>1, Invariant, PTL

-------------------------------------------------------------------------------
\* The other device a thread waits for is the disk.  The synchronous disk is
\* proved for two clients: threads that, whenever they have no request left, ask
\* for any sequence of sectors, and the file system with its boots and stops.
CONSTANTS NumSectors, SectorSize,
          Cells,       \* what a cell of a sector can hold
          NumDirEntries, TransferSize, Names, Main, Programs, MaxCrashes, Blank

VARIABLES disk, active, lock, semaphore, request, read, turn,
          power, opened, commands, at, stage, table, header, file,
          io, phase, result, crashes, formatted, damaged, kept

Files == INSTANCE FileSystem WITH got <- read, todo <- commands

Contents == [1..SectorSize -> Cells]

Requests ==
  {Files!Reading(s) : s \in Files!SectorNumbers}
  \cup {Files!Writing(s, data) : s \in Files!SectorNumbers, data \in Contents}

AskFor(t) ==
  /\ turn[t] = "out"
  /\ request[t] = <<>>
  /\ \E q \in Seq(Requests) : request' = [request EXCEPT ![t] = q]
  /\ read' = [read EXCEPT ![t] = <<>>]
  /\ UNCHANGED <<disk, active, lock, semaphore, turn>>

DiskInit ==
  /\ disk \in [Files!SectorNumbers -> Contents]
  /\ active = FALSE
  /\ lock = NoThread
  /\ semaphore = 0
  /\ request = [t \in Threads |-> <<>>]
  /\ read = [t \in Threads |-> <<>>]
  /\ turn = [t \in Threads |-> "out"]

DiskNext ==
  \/ \E t \in Threads : AskFor(t) \/ Files!SynchDiskStep(t)
  \/ Files!HandleInterrupt

DiskSpec == DiskInit /\ [][DiskNext]_(Files!diskVars)

-------------------------------------------------------------------------------
DiskTyped ==
  /\ active \in BOOLEAN
  /\ lock \in Threads \cup {NoThread}
  /\ semaphore \in {0, 1}
  /\ DOMAIN request = Threads
  /\ turn \in [Threads -> {"out", "locked", "waiting", "woken"}]

\* The holder of the lock is the one thread that is inside, and it has a
\* request to make.
HolderInside ==
  \A t \in Threads : turn[t] # "out" => lock = t /\ request[t] # <<>>

\* The holder waits exactly as long as its request is under way or its
\* interrupt has come unnoticed: never both, never neither.
Awaited ==
  /\ active => semaphore = 0
  /\ active \/ semaphore = 1 => \E t \in Threads : turn[t] = "waiting"
  /\ \A t \in Threads : turn[t] = "waiting" => active \/ semaphore = 1

Protocol == DiskTyped /\ HolderInside /\ Awaited

\* With sectors and data of the right kind.
Transfers ==
  /\ disk \in [Files!SectorNumbers -> Contents]
  /\ request \in [Threads -> Seq(Requests)]

\* No request is made while another is under way: the first assertion of
\* ReadRequest and WriteRequest holds.
OneRequest == \A t \in Threads : turn[t] = "locked" => ~active

\* And none for a sector the disk does not have: the second one holds.
RequestsAllowed == \A t \in Threads : turn[t] = "locked" => Files!RequestAllowed(t)

\* A thread that waits in P has its unit or will get it from the interrupt
\* under way: no interrupt of the disk is lost or taken by another thread.
InterruptReachesWaiter ==
  \A t \in Threads : turn[t] = "waiting" =>
    /\ active \/ semaphore = 1
    /\ \A u \in Threads \ {t} : turn[u] = "out"

-------------------------------------------------------------------------------
LEMMA Nobody == NoThread \notin Threads
  BY SynchListAssumption

\* Each step of ReadSector and WriteSector keeps the protocol.
LEMMA ProtocolStep ==
  ASSUME Protocol, NEW t \in Threads, Files!SynchDiskStep(t)
  PROVE  Protocol'
<1> USE Nobody DEF Protocol
<1>1. CASE Files!Acquire(t)
  BY <1>1 DEF Files!Acquire, DiskTyped, HolderInside, Awaited
<1>2. ASSUME Files!Request(t) PROVE Protocol'
  <2>1. /\ lock' = lock /\ semaphore' = semaphore
        /\ request' = request /\ active' = TRUE /\ ~active
        /\ turn[t] = "locked" /\ turn' = [turn EXCEPT ![t] = "waiting"]
    BY <1>2 DEF Files!Request, Files!RequestAllowed
  <2>2. semaphore = 0
    BY <2>1 DEF DiskTyped, HolderInside, Awaited
  <2>3. QED
    BY <2>1, <2>2 DEF DiskTyped, HolderInside, Awaited
<1>3. CASE Files!WaitForInterrupt(t)
  <2>1. semaphore = 1 /\ semaphore' = 0 /\ ~active
    BY <1>3 DEF Files!WaitForInterrupt, DiskTyped, Awaited
  <2>2. QED
    BY <1>3, <2>1 DEF Files!WaitForInterrupt, DiskTyped, HolderInside, Awaited
<1>4. CASE Files!Release(t)
  <2>1. DiskTyped'
    BY <1>4 DEF Files!Release, DiskTyped
  <2>2. HolderInside'
    BY <1>4 DEF Files!Release, DiskTyped, HolderInside
  <2>3. Awaited'
    BY <1>4 DEF Files!Release, DiskTyped, HolderInside, Awaited
  <2>4. QED
    BY <2>1, <2>2, <2>3
<1>5. QED
  BY <1>1, <1>2, <1>3, <1>4 DEF Files!SynchDiskStep, Files!ReadRequest, Files!WriteRequest

\* So does the interrupt.
LEMMA ProtocolInterrupt ==
  ASSUME Protocol, Files!HandleInterrupt
  PROVE  Protocol'
<1>1. semaphore = 0 /\ semaphore' = 1 /\ active /\ active' = FALSE
  BY DEF Files!HandleInterrupt, Protocol, DiskTyped, Awaited
<1>2. DiskTyped' /\ HolderInside'
  BY <1>1 DEF Files!HandleInterrupt, Protocol, DiskTyped, HolderInside
<1>3. Awaited'
  BY <1>1 DEF Files!HandleInterrupt, Protocol, Awaited
<1>4. QED
  BY <1>2, <1>3 DEF Protocol

\* A thread outside may ask for what it likes.
LEMMA ProtocolAsk ==
  ASSUME Protocol, UNCHANGED <<active, lock, semaphore, turn>>, DOMAIN request' = Threads,
         \A t \in Threads : request'[t] = request[t] \/ request[t] = <<>>
  PROVE  Protocol'
  BY DEF Protocol, DiskTyped, HolderInside, Awaited

\* A SynchDisk is born with nothing to do, also after a stop of the machine.
Idle ==
  /\ active = FALSE
  /\ lock = NoThread
  /\ semaphore = 0
  /\ request = [t \in Threads |-> <<>>]
  /\ turn = [t \in Threads |-> "out"]

LEMMA IdleIsAllowed == Idle => Protocol
<1> SUFFICES ASSUME Idle PROVE Protocol
  OBVIOUS
<1>1. \A t \in Threads : turn[t] = "out"
  BY DEF Idle
<1>2. DOMAIN request = Threads
  BY DEF Idle
<1>3. turn \in [Threads -> {"out", "locked", "waiting", "woken"}]
  BY DEF Idle
<1>4. DiskTyped
  BY <1>2, <1>3 DEF Idle, DiskTyped
<1>5. HolderInside /\ Awaited
  BY <1>1 DEF Idle, HolderInside, Awaited
<1>6. QED
  BY <1>4, <1>5 DEF Protocol

\* What the protocol is for.
LEMMA ProtocolSuffices ==
  ASSUME Protocol
  PROVE  OneRequest /\ InterruptReachesWaiter
<1>1. OneRequest
  BY Nobody DEF Protocol, DiskTyped, HolderInside, Awaited, OneRequest
<1>2. InterruptReachesWaiter
  BY DEF Protocol, DiskTyped, HolderInside, Awaited, InterruptReachesWaiter
<1>3. QED
  BY <1>1, <1>2

-------------------------------------------------------------------------------
\* The first request of a sequence of requests names a sector of the disk,
\* and the data of a write fills a sector.
LEMMA HeadIsRequest ==
  ASSUME NEW q \in Seq(Requests), q # <<>>
  PROVE  /\ Head(q) \in Requests
         /\ Tail(q) \in Seq(Requests)
         /\ Head(q).sector \in Files!SectorNumbers
         /\ Head(q).write => Head(q).data \in Contents
<1>1. Head(q) \in Requests /\ Tail(q) \in Seq(Requests)
  OBVIOUS
<1>2. CASE Head(q) \in {Files!Reading(s) : s \in Files!SectorNumbers}
  <2>1. PICK s \in Files!SectorNumbers : Head(q) = Files!Reading(s)
    BY <1>2
  <2>2. Head(q).sector = s /\ Head(q).write = FALSE
    BY <2>1 DEF Files!Reading
  <2>3. QED
    BY <1>1, <2>1, <2>2
<1>3. CASE Head(q) \in {Files!Writing(s, data) : s \in Files!SectorNumbers, data \in Contents}
  <2>1. PICK s \in Files!SectorNumbers, data \in Contents : Head(q) = Files!Writing(s, data)
    BY <1>3
  <2>2. Head(q).sector = s /\ Head(q).data = data
    BY <2>1 DEF Files!Writing
  <2>3. QED
    BY <1>1, <2>1, <2>2
<1>4. QED
  BY <1>1, <1>2, <1>3 DEF Requests

\* The sectors keep their shape.
LEMMA TransfersStep ==
  ASSUME Protocol, Transfers, [DiskNext]_(Files!diskVars)
  PROVE  Transfers'
<1>1. ASSUME NEW t \in Threads, AskFor(t)
      PROVE  Transfers'
  BY <1>1 DEF AskFor, Transfers
<1>2. ASSUME NEW t \in Threads, Files!WriteRequest(t)
      PROVE  Transfers'
  <2>1. /\ disk' = [disk EXCEPT ![Head(request[t]).sector] = Head(request[t]).data]
        /\ request' = request /\ turn[t] = "locked" /\ Head(request[t]).write
    BY <1>2 DEF Files!WriteRequest, Files!Request
  <2>2. request[t] \in Seq(Requests) /\ request[t] # <<>>
    BY <2>1 DEF Transfers, Protocol, HolderInside
  <2>3. Head(request[t]).data \in Contents
    BY <2>1, <2>2, HeadIsRequest
  <2>4. QED
    BY <2>1, <2>3 DEF Transfers
<1>3. ASSUME NEW t \in Threads, Files!Release(t)
      PROVE  Transfers'
  <2>1. request[t] \in Seq(Requests) /\ request[t] # <<>>
    BY <1>3 DEF Files!Release, Transfers, Protocol, HolderInside
  <2>2. Tail(request[t]) \in Seq(Requests)
    BY <2>1, HeadIsRequest
  <2>3. QED
    BY <1>3, <2>2 DEF Files!Release, Transfers
<1>4. ASSUME NEW t \in Threads,
             Files!Acquire(t) \/ Files!ReadRequest(t) \/ Files!WaitForInterrupt(t)
      PROVE  Transfers'
  BY <1>4 DEF Files!Acquire, Files!ReadRequest, Files!Request, Files!WaitForInterrupt, Transfers
<1>5. CASE Files!HandleInterrupt
  BY <1>5 DEF Files!HandleInterrupt, Transfers
<1>6. CASE UNCHANGED Files!diskVars
  BY <1>6 DEF Files!diskVars, Transfers
<1>7. QED
  BY <1>1, <1>2, <1>3, <1>4, <1>5, <1>6 DEF DiskNext, Files!SynchDiskStep

\* Both parts of the invariant hold for any clients.
LEMMA DiskInvariant == DiskSpec => [](Protocol /\ Transfers)
<1>1. DiskInit => Protocol /\ Transfers
  <2> SUFFICES ASSUME DiskInit
               PROVE  Protocol /\ Transfers
    OBVIOUS
  <2>1. request \in [Threads -> Seq(Requests)] /\ disk \in [Files!SectorNumbers -> Contents]
    BY DEF DiskInit
  <2>2. Idle
    BY DEF DiskInit, Idle
  <2>3. QED
    BY <2>1, <2>2, IdleIsAllowed DEF Transfers
<1>2. Protocol /\ Transfers /\ [DiskNext]_(Files!diskVars) => (Protocol /\ Transfers)'
  <2> SUFFICES ASSUME Protocol, Transfers, [DiskNext]_(Files!diskVars)
               PROVE  Protocol'
    BY TransfersStep
  <2>1. ASSUME NEW t \in Threads, AskFor(t)
        PROVE  Protocol'
    <3>1. /\ UNCHANGED <<active, lock, semaphore, turn>> /\ DOMAIN request' = Threads
          /\ \A u \in Threads : request'[u] = request[u] \/ request[u] = <<>>
      BY <2>1 DEF AskFor, Protocol, DiskTyped
    <3>2. QED
      BY <3>1, ProtocolAsk
  <2>2. ASSUME NEW t \in Threads, Files!SynchDiskStep(t)
        PROVE  Protocol'
    BY <2>2, ProtocolStep
  <2>3. CASE Files!HandleInterrupt
    BY <2>3, ProtocolInterrupt
  <2>4. CASE UNCHANGED Files!diskVars
    BY <2>4 DEF Files!diskVars, Protocol, DiskTyped, HolderInside, Awaited
  <2>5. QED
    BY <2>1, <2>2, <2>3, <2>4 DEF DiskNext
<1>3. QED
  BY <1>1, <1>2, PTL DEF DiskSpec

\* The assertions of Disk hold, whatever sectors of the disk the threads ask
\* for, with any number of threads and sectors.
THEOREM DiskAssertionsHold == DiskSpec => []RequestsAllowed
<1>1. Protocol /\ Transfers => RequestsAllowed
  <2> SUFFICES ASSUME Protocol, Transfers, NEW t \in Threads, turn[t] = "locked"
               PROVE  Files!RequestAllowed(t)
    BY DEF RequestsAllowed
  <2>1. ~active
    BY ProtocolSuffices DEF OneRequest
  <2>2. Head(request[t]).sector \in Files!SectorNumbers
    <3>1. request[t] \in Seq(Requests) /\ request[t] # <<>>
      BY DEF Transfers, Protocol, HolderInside
    <3>2. QED
      BY <3>1, HeadIsRequest
  <2>3. QED
    BY <2>1, <2>2 DEF Files!RequestAllowed
<1>2. QED
  BY <1>1, DiskInvariant, PTL

\* Every thread that waits for the disk has an interrupt to wait for, and is
\* the only thread inside.
THEOREM DiskInterruptsArrive == DiskSpec => []InterruptReachesWaiter
<1>1. Protocol => InterruptReachesWaiter
  BY ProtocolSuffices
<1>2. QED
  BY <1>1, DiskInvariant, PTL

-------------------------------------------------------------------------------
\* The file system.  A thread prepares its requests when it has none.
FilesInv ==
  /\ Protocol
  /\ DOMAIN phase = Threads
  /\ \A t \in Threads : phase[t] = "begin" => request[t] = <<>>

LEMMA FilesInit ==
  ASSUME Files!Init
  PROVE  FilesInv
<1>1. Idle
  BY DEF Files!Init, Idle
<1>2. Protocol
  BY <1>1, IdleIsAllowed
<1>3. DOMAIN phase = Threads /\ \A t \in Threads : request[t] = <<>>
  BY DEF Files!Init
<1>4. QED
  BY <1>2, <1>3 DEF FilesInv

\* The calls of the file system work in memory, on what was transferred.
LEMMA CallsLeaveDisk ==
  ASSUME NEW t, Files!CallStep(t)
  PROVE  UNCHANGED <<Files!diskVars, phase>>
  BY DEF Files!CallStep, Files!FetchDirectory, Files!CreateExisting, Files!CreateFetchMap,
         Files!CreateNoSpace, Files!CreateFlush, Files!EndFlush, Files!OpenMissing,
         Files!OpenHeader, Files!OpenEnd, Files!RemoveMissing, Files!RemoveFetchHeader,
         Files!RemoveFetchMap, Files!RemoveFlush, Files!StartReadOrWrite, Files!ReadSome,
         Files!ReadNoMore, Files!EndWrite, Files!Quiet

\* ReadAt and WriteAt hand over a new list of requests when the last is done.
LEMMA TransferKeepsProtocol ==
  ASSUME FilesInv, NEW t \in Threads, Files!TransferStep(t)
  PROVE  FilesInv'
<1>1. CASE Files!SynchDiskStep(t) /\ UNCHANGED Files!ioVars
  <2>1. Protocol'
    BY <1>1, ProtocolStep DEF FilesInv
  <2>2. request[t] # <<>>
    BY <1>1 DEF Files!SynchDiskStep, Files!Acquire, Files!ReadRequest, Files!WriteRequest,
                Files!Request, Files!WaitForInterrupt, Files!Release,
                FilesInv, Protocol, HolderInside
  <2>3. phase' = phase /\ \A u \in Threads \ {t} : request'[u] = request[u]
    BY <1>1 DEF Files!SynchDiskStep, Files!Acquire, Files!ReadRequest, Files!WriteRequest,
                Files!Request, Files!WaitForInterrupt, Files!Release, Files!ioVars,
                FilesInv, Protocol, DiskTyped
  <2>4. QED
    BY <2>1, <2>2, <2>3 DEF FilesInv
<1>2. ASSUME Files!BeginTransfer(t) \/ Files!EndReadAt(t) \/ Files!WriteBuffer(t)
             \/ Files!EndWriteAt(t)
      PROVE  FilesInv'
  <2>1. /\ UNCHANGED <<active, lock, semaphore, turn>>
        /\ request[t] = <<>>
        /\ \/ /\ request' = request
              /\ phase' = [phase EXCEPT ![t] = "begin"]
           \/ /\ \E q : request' = [request EXCEPT ![t] = q]
              /\ \E p \in {"reading", "writing"} : phase' = [phase EXCEPT ![t] = p]
    BY <1>2 DEF Files!BeginTransfer, Files!EndReadAt, Files!WriteBuffer, Files!EndWriteAt,
                Files!diskVars, FilesInv
  <2>2. /\ DOMAIN request' = Threads /\ DOMAIN phase' = Threads
        /\ \A u \in Threads : request'[u] = request[u] \/ request[u] = <<>>
        /\ \A u \in Threads : phase'[u] = "begin" => request'[u] = <<>>
    BY <2>1 DEF FilesInv, Protocol, DiskTyped
  <2>3. Protocol'
    BY <2>1, <2>2, ProtocolAsk DEF FilesInv
  <2>4. QED
    BY <2>2, <2>3 DEF FilesInv
<1>3. QED
  BY <1>1, <1>2 DEF Files!TransferStep

LEMMA NewSynchDiskIsAllowed ==
  ASSUME Files!NewSynchDisk
  PROVE  Protocol' /\ \A t \in Threads : request'[t] = <<>>
<1>1. Idle'
  BY DEF Files!NewSynchDisk, Idle
<1>2. Idle' => Protocol'
  BY IdleIsAllowed, PTL
<1>3. QED
  BY <1>1, <1>2 DEF Idle

LEMMA FilesInvStep ==
  ASSUME FilesInv, [Files!Next]_(Files!vars)
  PROVE  FilesInv'
<1>1. ASSUME NEW t \in Threads, Files!TransferStep(t)
      PROVE  FilesInv'
  BY <1>1, TransferKeepsProtocol
<1>2. ASSUME UNCHANGED <<Files!diskVars, phase>>
      PROVE  FilesInv'
  BY <1>2 DEF Files!diskVars, FilesInv, Protocol, DiskTyped, HolderInside, Awaited
<1>3. ASSUME NEW t \in Threads, Files!CallStep(t)
      PROVE  FilesInv'
  BY <1>2, <1>3, CallsLeaveDisk
<1>4. CASE Files!Interrupted
  <2>1. Protocol' /\ UNCHANGED <<request, phase>>
    BY <1>4, ProtocolInterrupt DEF Files!Interrupted, Files!HandleInterrupt, Files!ioVars, FilesInv
  <2>2. QED
    BY <2>1 DEF FilesInv
<1>5. CASE Files!OpenFreeMap \/ Files!OpenDirectory \/ Files!Booted
  <2>1. UNCHANGED <<Files!diskVars, phase>>
    BY <1>5 DEF Files!OpenFreeMap, Files!OpenDirectory, Files!Booted, Files!BootReady
  <2>2. QED
    BY <1>2, <2>1
<1>6. ASSUME NEW format \in BOOLEAN, Files!Boot(format)
      PROVE  FilesInv'
  <2>1. Files!NewSynchDisk /\ phase' = phase
    BY <1>6 DEF Files!Boot
  <2>2. QED
    BY <2>1, NewSynchDiskIsAllowed DEF FilesInv
<1>7. CASE Files!Crash
  <2>1. Files!NewSynchDisk /\ DOMAIN phase' = Threads
    BY <1>7 DEF Files!Crash
  <2>2. QED
    BY <2>1, NewSynchDiskIsAllowed DEF FilesInv
<1>8. CASE UNCHANGED Files!vars
  BY <1>2, <1>8 DEF Files!vars, Files!ioVars
<1>9. QED
  BY <1>1, <1>3, <1>4, <1>5, <1>6, <1>7, <1>8 DEF Files!Next, Files!Running

\* Whatever the commands, the file system makes one request at a time and each
\* waiting thread gets the interrupt of its own request, across stops and boots.
THEOREM FilesWaitForTheirInterrupts == Files!Spec => [](OneRequest /\ InterruptReachesWaiter)
<1>1. Files!Init => FilesInv
  BY FilesInit
<1>2. FilesInv /\ [Files!Next]_(Files!vars) => FilesInv'
  BY FilesInvStep
<1>3. FilesInv => OneRequest /\ InterruptReachesWaiter
  BY ProtocolSuffices DEF FilesInv
<1>4. QED
  BY <1>1, <1>2, <1>3, PTL DEF Files!Spec
===============================================================================
