----------------------------- MODULE MachineProof -----------------------------
(***************************************************************************)
(* What TLAPS proves of the simulated machine and of the console.          *)
(***************************************************************************)
EXTENDS Machine, ListProof, FiniteSetTheorems

(* Powers of two.  That 2 ^ n counts the subsets of a set of n elements is *)
(* what is known of the operator.                                          *)

\* A power of two is a natural number greater than zero, and the next one is
\* its double.
LEMMA Powers ==
  ASSUME NEW n \in Nat
  PROVE  2 ^ n \in Nat \ {0} /\ 2 ^ (n + 1) = 2 * 2 ^ n
<1> DEFINE S == 1 .. n
           T == 1 .. n + 1
           New == {s \cup {n + 1} : s \in SUBSET S}
           f == [s \in SUBSET S |-> s \cup {n + 1}]
<1>1. IsFiniteSet(S) /\ Cardinality(S) = n
  <2>1. IsFiniteSet(S) /\ Cardinality(S) = IF 1 > n THEN 0 ELSE n - 1 + 1
    BY FS_Interval
  <2>2. QED
    BY <2>1
<1>2. IsFiniteSet(T) /\ Cardinality(T) = n + 1
  <2>1. IsFiniteSet(T) /\ Cardinality(T) = IF 1 > n + 1 THEN 0 ELSE n + 1 - 1 + 1
    BY FS_Interval
  <2>2. QED
    BY <2>1
<1>3. /\ IsFiniteSet(SUBSET S) /\ Cardinality(SUBSET S) = 2 ^ n
      /\ IsFiniteSet(SUBSET T) /\ Cardinality(SUBSET T) = 2 ^ (n + 1)
  <2>1. IsFiniteSet(SUBSET S) /\ Cardinality(SUBSET S) = 2 ^ Cardinality(S)
    BY <1>1, FS_SUBSET
  <2>2. IsFiniteSet(SUBSET T) /\ Cardinality(SUBSET T) = 2 ^ Cardinality(T)
    BY <1>2, FS_SUBSET
  <2>3. QED
    BY <2>1, <2>2, <1>1, <1>2
<1>4. IsFiniteSet(New) /\ Cardinality(New) = 2 ^ n
  <2>1. f \in Bijection(SUBSET S, New)
    <3>1. f \in [SUBSET S -> New]
      OBVIOUS
    <3>2. \A s, t \in SUBSET S : f[s] = f[t] => s = t
      <4>1. ASSUME NEW s \in SUBSET S, NEW t \in SUBSET S, f[s] = f[t]
            PROVE  s = t
        <5>1. n + 1 \notin s /\ n + 1 \notin t
          OBVIOUS
        <5>2. s \cup {n + 1} = t \cup {n + 1}
          BY <4>1
        <5>3. QED
          BY <5>1, <5>2
      <4>2. QED
        BY <4>1
    <3>3. \A x \in New : \E s \in SUBSET S : f[s] = x
      OBVIOUS
    <3>4. f \in Injection(SUBSET S, New)
      BY <3>1, <3>2 DEF Injection, IsInjective
    <3>5. f \in Surjection(SUBSET S, New)
      BY <3>1, <3>3 DEF Surjection
    <3>6. QED
      BY <3>4, <3>5 DEF Bijection
  <2>2. ExistsBijection(SUBSET S, New)
    BY <2>1 DEF ExistsBijection
  <2>3. QED
    BY <2>2, <1>3, FS_Bijection
<1>5. SUBSET T = (SUBSET S) \cup New /\ (SUBSET S) \cap New = {}
  <2>1. ASSUME NEW x \in SUBSET T
        PROVE  x \in (SUBSET S) \cup New
    <3>1. CASE n + 1 \in x
      <4>1. x \ {n + 1} \in SUBSET S /\ x = (x \ {n + 1}) \cup {n + 1}
        BY <3>1
      <4>2. QED
        BY <4>1
    <3>2. CASE n + 1 \notin x
      BY <3>2
    <3>3. QED
      BY <3>1, <3>2
  <2>2. (SUBSET S) \cup New \subseteq SUBSET T
    <3>1. S \subseteq T /\ n + 1 \in T
      OBVIOUS
    <3>2. QED
      BY <3>1
  <2>3. \A x \in New : n + 1 \in x
    OBVIOUS
  <2>4. \A x \in SUBSET S : n + 1 \notin x
    OBVIOUS
  <2>5. QED
    BY <2>1, <2>2, <2>3, <2>4
<1>6. Cardinality(SUBSET T) = Cardinality(SUBSET S) + Cardinality(New)
  <2>1. Cardinality((SUBSET S) \cup New) =
          Cardinality(SUBSET S) + Cardinality(New) - Cardinality((SUBSET S) \cap New)
    BY <1>3, <1>4, FS_Union
  <2>2. Cardinality((SUBSET S) \cap New) = 0
    BY <1>5, FS_EmptySet
  <2>3. Cardinality(SUBSET S) \in Nat /\ Cardinality(New) \in Nat
    BY <1>3, <1>4, FS_CardinalityType
  <2>4. Cardinality(SUBSET T) = Cardinality((SUBSET S) \cup New)
    BY <1>5
  <2> DEFINE a == Cardinality(SUBSET S)
             b == Cardinality(New)
             c == Cardinality((SUBSET S) \cap New)
  <2>5. Cardinality(SUBSET T) = a + b - c
    BY <2>1, <2>4
  <2>6. a \in Nat /\ b \in Nat /\ c = 0
    BY <2>2, <2>3
  <2> HIDE DEF a, b, c
  <2>7. Cardinality(SUBSET T) = a + b
    BY <2>5, <2>6
  <2>8. QED
    BY <2>7 DEF a, b
<1>7. 2 ^ n \in Nat /\ 2 ^ n # 0
  <2>1. Cardinality(SUBSET S) \in Nat
    BY <1>3, FS_CardinalityType
  <2>2. SUBSET S # {}
    OBVIOUS
  <2>3. Cardinality(SUBSET S) # 0
    BY <1>3, <2>2, FS_EmptySet
  <2>4. QED
    BY <2>1, <2>3, <1>3
<1>8. QED
  BY <1>3, <1>4, <1>6, <1>7

\* The powers multiply.
LEMMA PowerSum ==
  ASSUME NEW m \in Nat, NEW n \in Nat
  PROVE  2 ^ (m + n) = 2 ^ m * 2 ^ n
<1> DEFINE Wrong == {k \in Nat : 2 ^ (m + k) # 2 ^ m * 2 ^ k}
<1>1. SUFFICES Wrong = {}
  OBVIOUS
<1>2. SUFFICES ASSUME Wrong # {}
               PROVE  FALSE
  OBVIOUS
<1>3. PICK k \in Wrong : \A i \in Wrong : k <= i
  <2>1. Wrong \in SUBSET Nat
    OBVIOUS
  <2> HIDE DEF Wrong
  <2>2. QED
    BY <1>2, <2>1, LeastNatural
<1>4. 2 ^ m \in Nat
  BY Powers
<1>5. CASE k = 0
  <2>1. 2 ^ (m + k) = 2 ^ m /\ 2 ^ k = 1
    BY <1>5
  <2>2. QED
    BY <2>1, <1>3, <1>4
<1>6. CASE k # 0
  <2>1. k - 1 \in Nat /\ k - 1 \notin Wrong
    BY <1>3, <1>6
  <2>2. 2 ^ (m + (k - 1)) = 2 ^ m * 2 ^ (k - 1)
    BY <2>1
  <2>3. 2 ^ k = 2 * 2 ^ (k - 1)
    <3>1. 2 ^ (k - 1 + 1) = 2 * 2 ^ (k - 1)
      BY <2>1, Powers
    <3>2. k - 1 + 1 = k
      BY <1>3
    <3>3. QED
      BY <3>1, <3>2
  <2>4. 2 ^ (m + k) = 2 * 2 ^ (m + (k - 1))
    <3>1. m + (k - 1) \in Nat /\ m + (k - 1) + 1 = m + k
      BY <2>1
    <3>2. 2 ^ (m + (k - 1) + 1) = 2 * 2 ^ (m + (k - 1))
      BY <3>1, Powers
    <3>3. QED
      BY <3>1, <3>2
  <2>5. 2 ^ (k - 1) \in Nat
    BY <2>1, Powers
  <2> DEFINE a == 2 ^ m
             b == 2 ^ (k - 1)
  <2>6. a \in Nat /\ b \in Nat
    BY <1>4, <2>5
  <2>7. 2 * (a * b) = a * (2 * b)
    <3> HIDE DEF a, b
    <3> QED  BY <2>6
  <2>8. 2 ^ (m + k) = 2 ^ m * 2 ^ k
    BY <2>2, <2>3, <2>4, <2>7
  <2>9. QED
    BY <2>8, <1>3
<1>7. QED
  BY <1>5, <1>6

-------------------------------------------------------------------------------
(* Functions defined by recursion: iterating a step.                       *)

\* F steps from S to S, and g goes N steps from start.
Steps(F, N, S) == F \in [S \X (1 .. N) -> S]

Iterates(g, N, S, start, F) == /\ g \in [0 .. N -> S]
                               /\ g[0] = start
                               /\ \A n \in 1 .. N : g[n] = F[<<g[n - 1], n>>]

\* A step can be iterated from any start.
LEMMA IterationExists ==
  ASSUME NEW N \in Nat, NEW S, NEW start \in S, NEW F, Steps(F, N, S)
  PROVE  \E g : Iterates(g, N, S, start, F)
<1> USE DEF Steps, Iterates
<1> DEFINE Upto(k, g) == /\ g \in [0 .. k -> S]
                         /\ g[0] = start
                         /\ \A n \in 1 .. k : g[n] = F[<<g[n - 1], n>>]
           Wrong == {k \in 0 .. N : ~\E g : Upto(k, g)}
<1>1. SUFFICES Wrong = {}
  <2>1. N \in 0 .. N
    OBVIOUS
  <2>2. QED
    BY <2>1
<1>2. SUFFICES ASSUME Wrong # {}
               PROVE  FALSE
  OBVIOUS
<1>3. PICK k \in Wrong : \A i \in Wrong : k <= i
  <2>1. Wrong \in SUBSET Nat
    OBVIOUS
  <2> HIDE DEF Wrong
  <2>2. QED
    BY <1>2, <2>1, LeastNatural
<1>4. CASE k = 0
  <2>1. Upto(0, [n \in 0 .. 0 |-> start])
    OBVIOUS
  <2>2. QED
    BY <2>1, <1>3, <1>4
<1>5. CASE k # 0
  <2>1. k - 1 \in 0 .. N /\ k - 1 \notin Wrong /\ k \in 1 .. N
    BY <1>3, <1>5
  <2>2. PICK g : Upto(k - 1, g)
    BY <2>1
  <2> DEFINE h == [n \in 0 .. k |-> IF n = k THEN F[<<g[k - 1], k>>] ELSE g[n]]
  <2>3. \A n \in 0 .. k - 1 : n \in 0 .. k /\ n # k /\ g[n] \in S
    BY <2>1, <2>2
  <2>4. F[<<g[k - 1], k>>] \in S
    BY <2>1, <2>3
  <2>5. h \in [0 .. k -> S]
    BY <2>3, <2>4
  <2>6. h[0] = start
    BY <2>1, <2>2
  <2>7. \A n \in 1 .. k : h[n] = F[<<h[n - 1], n>>]
    <3>1. \A n \in 1 .. k - 1 : n - 1 \in 0 .. k /\ n - 1 # k /\ n # k
      BY <2>1
    <3>2. h[k] = F[<<h[k - 1], k>>]
      <4>1. h[k] = F[<<g[k - 1], k>>]
        BY <2>1
      <4>2. h[k - 1] = g[k - 1]
        BY <2>3, <2>1
      <4> HIDE DEF h
      <4>3. QED
        BY <4>1, <4>2
    <3>3. \A n \in 1 .. k - 1 : h[n] = F[<<h[n - 1], n>>]
      BY <3>1, <2>2, <2>3
    <3>4. \A n \in 1 .. k : n = k \/ n \in 1 .. k - 1
      BY <2>1
    <3>5. QED
      BY <3>2, <3>3, <3>4
  <2>8. Upto(k, h)
    BY <2>5, <2>6, <2>7
  <2>9. QED
    BY <2>8, <1>3
<1>6. QED
  BY <1>4, <1>5

\* Two iterations that start alike and step alike are the same.
LEMMA IterationUnique ==
  ASSUME NEW N \in Nat, NEW g, NEW h, g[0] = h[0],
         \A n \in 1 .. N : g[n - 1] = h[n - 1] => g[n] = h[n]
  PROVE  \A n \in 0 .. N : g[n] = h[n]
<1> DEFINE Wrong == {n \in 0 .. N : g[n] # h[n]}
<1>1. SUFFICES ASSUME Wrong # {}
               PROVE  FALSE
  OBVIOUS
<1>2. PICK m \in Wrong : \A i \in Wrong : m <= i
  <2>1. Wrong \in SUBSET Nat
    OBVIOUS
  <2> HIDE DEF Wrong
  <2>2. QED
    BY <1>1, <2>1, LeastNatural
<1>3. m # 0 /\ m \in 1 .. N
  BY <1>2
<1>4. m - 1 \in 0 .. N /\ m - 1 \notin Wrong
  BY <1>2, <1>3
<1>5. QED
  BY <1>2, <1>3, <1>4

\* What holds of the start and is kept by each step holds throughout.
LEMMA IterationKeeps ==
  ASSUME NEW N \in Nat, NEW Good \in SUBSET (0 .. N), 0 \in Good,
         \A n \in 1 .. N : n - 1 \in Good => n \in Good
  PROVE  Good = 0 .. N
<1> DEFINE Wrong == (0 .. N) \ Good
<1>1. SUFFICES ASSUME Wrong # {}
               PROVE  FALSE
  OBVIOUS
<1>2. PICK m \in Wrong : \A i \in Wrong : m <= i
  <2>1. Wrong \in SUBSET Nat
    OBVIOUS
  <2> HIDE DEF Wrong
  <2>2. QED
    BY <1>1, <2>1, LeastNatural
<1>3. m \in 1 .. N
  BY <1>2
<1>4. m - 1 \in 0 .. N /\ m - 1 \notin Wrong
  BY <1>2, <1>3
<1>5. QED
  BY <1>2, <1>3, <1>4

-------------------------------------------------------------------------------
(* Words.                                                                  *)

Words == -(Word \div 2) .. Word \div 2 - 1

\* A byte has two values at least; halves and words are what their names say.
LEMMA Sizes ==
  /\ Byte \in Nat /\ Byte >= 2 /\ Byte % 2 = 0
  /\ Half \in Nat /\ Half >= 2 * Byte /\ Half % 2 = 0
  /\ Word \in Nat /\ Word >= 2 * Half /\ Word = 2 * (Word \div 2)
  /\ Word \div 2 \in Nat /\ Word \div 2 >= 2 /\ Word % 4 = 0
  /\ WordBits \in Nat /\ WordBits >= 4
<1>1. ByteBits \in Nat /\ ByteBits >= 1
  BY MipsAssumption
<1> DEFINE b == 2 ^ (ByteBits - 1)
<1>2. Byte = 2 * b /\ b \in Nat /\ b >= 1
  <2>1. ByteBits - 1 \in Nat /\ ByteBits - 1 + 1 = ByteBits
    BY <1>1
  <2>2. 2 ^ (ByteBits - 1 + 1) = 2 * b /\ b \in Nat \ {0}
    BY <2>1, Powers
  <2>3. QED
    BY <2>1, <2>2 DEF Byte
<1> HIDE DEF b
<1>3. Half = 4 * (b * b) /\ b * b \in Nat /\ b * b >= b
  <2>1. Half = (2 * b) * (2 * b)
    BY <1>2 DEF Half
  <2>2. QED
    BY <2>1, <1>2
<1> DEFINE c == b * b
<1>4. Half = 4 * c /\ c \in Nat /\ c >= b
  BY <1>3
<1> HIDE DEF c
<1>5. Word = 16 * (c * c) /\ c * c \in Nat /\ c * c >= c
  <2>1. Word = (4 * c) * (4 * c)
    BY <1>4 DEF Word
  <2>2. c >= 1
    BY <1>4, <1>2
  <2>3. QED
    BY <2>1, <2>2, <1>4
<1> DEFINE d == c * c
<1>6. Word = 16 * d /\ d \in Nat /\ d >= c
  BY <1>5
<1> HIDE DEF d
<1>7. Word \div 2 = 8 * d
  BY <1>6
<1>8. QED
  BY <1>1, <1>2, <1>4, <1>6, <1>7 DEF WordBits

\* Quotient and remainder.
LEMMA Division ==
  ASSUME NEW n \in Int, NEW d \in Nat \ {0}
  PROVE  \E q \in Int, r \in 0 .. d - 1 : q = n \div d /\ r = n % d /\ n = d * q + r
<1>1. n \div d \in Int
  OBVIOUS
<1>2. n % d \in 0 .. d - 1
  OBVIOUS
<1>3. ASSUME NEW q \in Int, q = n \div d, NEW r \in Int, r = n % d
      PROVE  n = d * q + r
  BY <1>3
<1>4. \A q, r \in Int : q = n \div d /\ r = n % d => n = d * q + r
  BY <1>3
<1>5. n % d \in Int
  OBVIOUS
<1>6. PICK q \in Int : q = n \div d
  BY <1>1
<1>7. PICK r \in 0 .. d - 1 : r = n % d
  BY <1>2
<1>8. n = d * q + r
  BY <1>4, <1>6, <1>7
<1>9. QED
  BY <1>6, <1>7, <1>8

\* \div and % are determined by what they satisfy.
LEMMA DivisionIs ==
  ASSUME NEW d \in Nat \ {0}, NEW q \in Int, NEW r \in 0 .. d - 1
  PROVE  (d * q + r) \div d = q /\ (d * q + r) % d = r
<1> DEFINE n == d * q + r
           p == n \div d
           x == n % d
<1>1. n \in Int
  OBVIOUS
<1>2. p \in Int /\ x \in 0 .. d - 1 /\ n = d * p + x
  <2> HIDE DEF n
  <2>1. PICK p0 \in Int, x0 \in 0 .. d - 1 :
          p0 = n \div d /\ x0 = n % d /\ n = d * p0 + x0
    BY <1>1, Division
  <2>2. p = p0 /\ x = x0
    BY <2>1
  <2> HIDE DEF p, x
  <2>3. QED
    BY <2>1, <2>2
<1>3. d * (p - q) = r - x
  <2> HIDE DEF p, x
  <2>1. d * q + r = d * p + x
    BY <1>2
  <2>2. d * (p - q) = d * p - d * q
    BY <1>2
  <2>3. d * p \in Int /\ d * q \in Int
    BY <1>2
  <2>4. QED
    BY <2>1, <2>2, <2>3, <1>2
<1>4. p = q
  <2> DEFINE k == p - q
  <2>1. k \in Int /\ d * k = r - x /\ r - x < d /\ r - x > -d
    <3> HIDE DEF p, x
    <3> QED  BY <1>2, <1>3
  <2> HIDE DEF k
  <2>2. CASE k >= 1
    <3>1. d * k >= d
      BY <2>2, <2>1
    <3>2. QED
      BY <3>1, <2>1, <1>2
  <2>3. CASE k <= -1
    <3>1. d * k <= -d
      BY <2>3, <2>1
    <3>2. QED
      BY <3>1, <2>1, <1>2
  <2>4. k = 0
    BY <2>1, <2>2, <2>3
  <2>5. QED
    <3> HIDE DEF p, x
    <3> QED  BY <2>4, <1>2 DEF k
<1>5. QED
  <2> HIDE DEF p, x
  <2>1. x = r
    BY <1>2, <1>3, <1>4
  <2>2. QED
    BY <2>1, <1>4 DEF p, x

\* Signed makes an int a word, and leaves words as they are.
LEMMA SignedWord ==
  ASSUME NEW n \in Int
  PROVE  /\ Unsigned(n) \in 0 .. Word - 1
         /\ Signed(n) \in Words /\ Signed(n) \in Int
         /\ Signed(n) = Unsigned(n) \/ Signed(n) = Unsigned(n) - Word
         /\ Unsigned(Signed(n)) = Unsigned(n)
         /\ Signed(n) % 4 = n % 4
         /\ Unsigned(n) % 4 = n % 4
<1> DEFINE w == Word
           q == n \div w
           u == n % w
           h == w \div 2
<1>1. w \in Nat \ {0} /\ h \in Nat /\ h >= 2 /\ w = 2 * h /\ w % 4 = 0
  BY Sizes
<1>2. q \in Int /\ u \in 0 .. w - 1 /\ n = w * q + u
  <2> HIDE DEF w
  <2>1. PICK q0 \in Int, u0 \in 0 .. w - 1 :
          q0 = n \div w /\ u0 = n % w /\ n = w * q0 + u0
    BY <1>1, Division
  <2>2. q = q0 /\ u = u0
    BY <2>1
  <2> HIDE DEF q, u
  <2>3. QED
    BY <2>1, <2>2
<1>3. Unsigned(n) = u /\ Signed(n) = IF u >= h THEN u - w ELSE u
  BY DEF Unsigned, Signed, SignExtend
<1>4. PICK f \in Int : w = 4 * f
  <2> HIDE DEF w
  <2>1. w \div 4 \in Int /\ w = 4 * (w \div 4)
    BY <1>1
  <2>2. QED
    BY <2>1
<1>5. n = 4 * (f * q) + u /\ f * q \in Int
  <2> HIDE DEF w, u, q
  <2>1. (4 * f) * q = 4 * (f * q)
    BY <1>4, <1>2
  <2>2. QED
    BY <2>1, <1>2, <1>4
<1>6. u % w = u /\ (u - w) % w = u
  <2> HIDE DEF w, u
  <2>1. (w * 0 + u) % w = u /\ (w * (-1) + u) % w = u
    BY DivisionIs, <1>1, <1>2
  <2>2. w * 0 + u = u /\ w * (-1) + u = u - w
    BY <1>1, <1>2
  <2>3. QED
    BY <2>1, <2>2
<1>7. Unsigned(Signed(n)) = u
  <2>1. Unsigned(Signed(n)) = Signed(n) % w
    BY DEF Unsigned
  <2> HIDE DEF w, u, h
  <2>2. QED
    BY <1>3, <1>6, <2>1
<1>8. u % 4 = n % 4 /\ (u - w) % 4 = n % 4
  <2> DEFINE g == f * q
  <2>1. g \in Int /\ n = 4 * g + u
    BY <1>5
  <2> HIDE DEF g, w, u
  <2>2. QED
    BY <2>1, <1>2, <1>4
<1>9. Signed(n) \in -h .. h - 1
  <2> HIDE DEF w, u, h
  <2> QED  BY <1>1, <1>2, <1>3
<1>10. Words = -h .. h - 1
  BY DEF Words
<1> HIDE DEF w, u, h
<1>11. Signed(n) \in Int /\ (Signed(n) = u \/ Signed(n) = u - w)
  BY <1>1, <1>2, <1>3
<1>12. QED
  BY <1>2, <1>3, <1>7, <1>8, <1>9, <1>10, <1>11 DEF w

\* A word is its own signed value.
LEMMA WordSigned ==
  ASSUME NEW n \in Words
  PROVE  Signed(n) = n /\ n \in Int
<1> DEFINE w == Word
           h == w \div 2
<1>1. w \in Nat \ {0} /\ h \in Nat /\ h >= 2 /\ w = 2 * h
  BY Sizes
<1>2. n \in -h .. h - 1
  BY DEF Words
<1>3. Signed(n) = IF n % w >= h THEN (n % w) - w ELSE n % w
  BY DEF Signed, Unsigned, SignExtend
<1> HIDE DEF w, h
<1>4. CASE n >= 0
  <2>1. (w * 0 + n) % w = n
    BY DivisionIs, <1>1, <1>2, <1>4
  <2>2. w * 0 + n = n
    BY <1>1, <1>2
  <2>3. QED
    BY <2>1, <2>2, <1>1, <1>2, <1>3, <1>4
<1>5. CASE n < 0
  <2> DEFINE m == n + w
  <2>1. m \in 0 .. w - 1 /\ m >= h /\ w * (-1) + m = n
    BY <1>1, <1>2, <1>5
  <2> HIDE DEF m
  <2>2. (w * (-1) + m) % w = m
    BY DivisionIs, <1>1, <2>1
  <2>3. n % w = m
    BY <2>1, <2>2
  <2>4. m - w = n
    BY <1>1, <1>2 DEF m
  <2>5. QED
    BY <2>1, <2>3, <2>4, <1>2, <1>3
<1>6. QED
  BY <1>2, <1>4, <1>5

\* What is put together bit by bit is a word.
LEMMA BitsWord ==
  ASSUME NEW m, NEW n, NEW ones
  PROVE  BitByBit(m, n, ones) \in Words
<1> DEFINE Value(k) == IF Bit(m, k - 1) + Bit(n, k - 1) \in ones THEN 2 ^ (k - 1) ELSE 0
           Stage(g, k) == IF k = 0 THEN 0 ELSE g[k - 1] + Value(k)
           low == CHOOSE g : g = [k \in 0 .. WordBits |-> Stage(g, k)]
           F == [p \in Int \X (1 .. WordBits) |-> p[1] + Value(p[2])]
<1>1. WordBits \in Nat
  BY Sizes
<1>2. \A k \in 1 .. WordBits : Value(k) \in Int
  <2>1. ASSUME NEW k \in 1 .. WordBits
        PROVE  2 ^ (k - 1) \in Int
    <3>1. k - 1 \in Nat
      BY <1>1
    <3>2. QED
      BY <3>1, Powers
  <2>2. QED
    BY <2>1
<1> HIDE DEF Value
<1>3. Steps(F, WordBits, Int)
  BY <1>2 DEF Steps
<1>4. \A x \in Int, k \in 1 .. WordBits : F[<<x, k>>] = x + Value(k)
  OBVIOUS
<1> HIDE DEF F
<1>5. PICK g : Iterates(g, WordBits, Int, 0, F)
  BY <1>1, <1>3, IterationExists, 0 \in Int, Zenon
<1>6. \A k \in 1 .. WordBits : g[k - 1] \in Int /\ g[k] = g[k - 1] + Value(k)
  <2>1. \A k \in 1 .. WordBits : k - 1 \in 0 .. WordBits
    BY <1>1
  <2>2. QED
    BY <2>1, <1>4, <1>5 DEF Iterates
<1>7. g = [k \in 0 .. WordBits |-> Stage(g, k)]
  <2>1. ASSUME NEW k \in 0 .. WordBits
        PROVE  g[k] = Stage(g, k)
    <3>1. k = 0 \/ k \in 1 .. WordBits
      BY <1>1
    <3>2. QED
      BY <3>1, <1>5, <1>6 DEF Iterates
  <2>2. QED
    BY <2>1, <1>5 DEF Iterates
<1>8. low = [k \in 0 .. WordBits |-> Stage(low, k)]
  BY <1>7
<1> HIDE DEF low
<1>9. \A k \in 0 .. WordBits : low[k] = g[k]
  <2>1. low[0] = g[0]
    BY <1>1, <1>5, <1>8 DEF Iterates
  <2>2. ASSUME NEW k \in 1 .. WordBits, low[k - 1] = g[k - 1]
        PROVE  low[k] = g[k]
    <3>1. k \in 0 .. WordBits /\ k # 0
      BY <1>1
    <3>2. low[k] = low[k - 1] + Value(k)
      BY <3>1, <1>4, <1>8
    <3>3. QED
      BY <3>2, <2>2, <1>6
  <2>3. QED
    BY <2>1, <2>2, <1>1, IterationUnique
<1>10. low[WordBits] \in Int
  BY <1>1, <1>5, <1>9 DEF Iterates
<1>11. BitByBit(m, n, ones) = Signed(low[WordBits])
  BY DEF BitByBit, low, Value
<1>12. QED
  BY <1>10, <1>11, SignedWord

-------------------------------------------------------------------------------
(* Multiplication.                                                         *)

MultStates == [a : Int, bLo : 0 .. Word - 1, bHi : 0 .. Word - 1,
               lo : 0 .. Word - 1, hi : 0 .. Word - 1, more : BOOLEAN]

\* One turn of the loop of Mult.
LEMMA MultTurnType ==
  ASSUME NEW m \in MultStates
  PROVE  MultTurn(m) \in MultStates
<1> DEFINE w == Word
<1>1. w \in Nat \ {0}
  BY Sizes
<1>2. /\ m.a \in Int /\ m.bLo \in 0 .. w - 1 /\ m.bHi \in 0 .. w - 1
      /\ m.lo \in 0 .. w - 1 /\ m.hi \in 0 .. w - 1
      /\ m = [a |-> m.a, bLo |-> m.bLo, bHi |-> m.bHi, lo |-> m.lo, hi |-> m.hi,
              more |-> m.more]
  BY DEF MultStates
<1> HIDE DEF w
<1>3. \A x \in Int : x % w \in 0 .. w - 1
  BY <1>1
<1>4. ASSUME NEW x \in Int
      PROVE  ShiftRight(x, 1) \in Int
  <2>1. 2 ^ 1 = 2
    OBVIOUS
  <2>2. QED
    BY <2>1 DEF ShiftRight
<1> DEFINE odd == m.a % 2 = 1
           lo == IF odd THEN (m.lo + m.bLo) % w ELSE m.lo
           carry == IF lo < m.bLo THEN 1 ELSE 0
           hi == IF odd THEN (m.hi + carry + m.bHi) % w ELSE m.hi
           bHi == (2 * m.bHi + (2 * m.bLo) \div w) % w
           bLo == (2 * m.bLo) % w
<1>5. lo \in 0 .. w - 1 /\ hi \in 0 .. w - 1
  BY <1>1, <1>2, <1>3
<1>6. bHi \in 0 .. w - 1 /\ bLo \in 0 .. w - 1
  <2>1. (2 * m.bLo) \div w \in Int
    BY <1>1, <1>2
  <2>2. QED
    BY <1>1, <1>2, <1>3, <2>1
<1>7. MultTurn(m) = IF odd /\ m.a - (m.a % 2) = 0
                    THEN [m EXCEPT !.lo = lo, !.hi = hi, !.more = FALSE]
                    ELSE [m EXCEPT !.lo = lo, !.hi = hi, !.a = ShiftRight(m.a, 1),
                                   !.bHi = bHi, !.bLo = bLo]
  BY DEF MultTurn, w
<1> HIDE DEF odd, lo, hi, bHi, bLo
<1>8. QED
  BY <1>2, <1>4, <1>5, <1>6, <1>7 DEF MultStates, w

\* The states Mult goes through, and what it makes of the last.
LEMMA MultRuns ==
  ASSUME NEW a \in Words, NEW b \in Words, NEW signedArith \in BOOLEAN
  PROVE  LET positive(n) == IF signedArith /\ n < 0 THEN Signed(-n) ELSE n
             negative == signedArith /\ (a < 0) # (b < 0)
         IN \E g \in [0 .. WordBits -> MultStates] :
              LET m == g[WordBits]
                  lo == IF negative THEN (Word - m.lo) % Word ELSE m.lo
                  hi == IF negative
                        THEN ((Word - 1 - m.hi) + (IF lo = 0 THEN 1 ELSE 0)) % Word ELSE m.hi
              IN /\ g[0] = [a |-> positive(a), bLo |-> Unsigned(positive(b)), bHi |-> 0,
                            lo |-> 0, hi |-> 0, more |-> TRUE]
                 /\ \A k \in 1 .. WordBits :
                      g[k] = IF g[k - 1].more THEN MultTurn(g[k - 1]) ELSE g[k - 1]
                 /\ Mult(a, b, signedArith) =
                      IF a = 0 \/ b = 0 THEN [hi |-> 0, lo |-> 0]
                      ELSE [hi |-> Signed(hi), lo |-> Signed(lo)]
<1> DEFINE positive(n) == IF signedArith /\ n < 0 THEN Signed(-n) ELSE n
           negative == signedArith /\ (a < 0) # (b < 0)
           start == [a |-> positive(a), bLo |-> Unsigned(positive(b)), bHi |-> 0,
                     lo |-> 0, hi |-> 0, more |-> TRUE]
           Turn(m) == IF m.more THEN MultTurn(m) ELSE m
           Stage(g, k) == IF k = 0 THEN start ELSE Turn(g[k - 1])
           after == CHOOSE g : g = [k \in 0 .. WordBits |-> Stage(g, k)]
           F == [p \in MultStates \X (1 .. WordBits) |-> Turn(p[1])]
<1>1. WordBits \in Nat
  BY Sizes
<1>2. start \in MultStates
  <2>1. \A n \in Words : n \in Int /\ -n \in Int
    BY WordSigned
  <2>2. \A n \in Words : positive(n) \in Int
    BY <2>1, SignedWord
  <2>3. positive(a) \in Int /\ Unsigned(positive(b)) \in 0 .. Word - 1
    BY <2>2, SignedWord
  <2>4. 0 \in 0 .. Word - 1
    BY Sizes
  <2> HIDE DEF positive
  <2>5. QED
    BY <2>3, <2>4 DEF MultStates
<1> HIDE DEF start
<1>3. \A m \in MultStates : Turn(m) \in MultStates
  BY MultTurnType
<1> HIDE DEF Turn
<1>4. Steps(F, WordBits, MultStates)
  BY <1>3 DEF Steps
<1>5. \A x \in MultStates, k \in 1 .. WordBits : F[<<x, k>>] = Turn(x)
  OBVIOUS
<1> HIDE DEF F
<1>6. PICK g : Iterates(g, WordBits, MultStates, start, F)
  BY <1>1, <1>2, <1>4, IterationExists, Zenon
<1>7. \A k \in 1 .. WordBits : g[k] = Turn(g[k - 1])
  <2>1. \A k \in 1 .. WordBits : k - 1 \in 0 .. WordBits
    BY <1>1
  <2>2. QED
    BY <2>1, <1>5, <1>6 DEF Iterates
<1>8. g = [k \in 0 .. WordBits |-> Stage(g, k)]
  <2>1. ASSUME NEW k \in 0 .. WordBits
        PROVE  g[k] = Stage(g, k)
    <3>1. k = 0 \/ k \in 1 .. WordBits
      BY <1>1
    <3>2. QED
      BY <3>1, <1>6, <1>7 DEF Iterates
  <2>2. QED
    BY <2>1, <1>6 DEF Iterates
<1>9. after = [k \in 0 .. WordBits |-> Stage(after, k)]
  BY <1>8
<1> HIDE DEF after
<1>10. \A k \in 0 .. WordBits : after[k] = g[k]
  <2>1. after[0] = g[0]
    BY <1>1, <1>6, <1>9 DEF Iterates
  <2>2. ASSUME NEW k \in 1 .. WordBits, after[k - 1] = g[k - 1]
        PROVE  after[k] = g[k]
    <3>1. k \in 0 .. WordBits /\ k # 0
      BY <1>1
    <3>2. after[k] = Turn(after[k - 1])
      BY <3>1, <1>9
    <3>3. QED
      BY <3>2, <2>2, <1>7
  <2>3. QED
    BY <2>1, <2>2, <1>1, IterationUnique
<1> DEFINE Low(m) == IF negative THEN (Word - m.lo) % Word ELSE m.lo
           High(m) == IF negative
                      THEN ((Word - 1 - m.hi) + (IF Low(m) = 0 THEN 1 ELSE 0)) % Word ELSE m.hi
           Out(m) == IF a = 0 \/ b = 0 THEN [hi |-> 0, lo |-> 0]
                     ELSE [hi |-> Signed(High(m)), lo |-> Signed(Low(m))]
<1>11. Mult(a, b, signedArith) = Out(after[WordBits])
  BY DEF Mult, after, Turn, start
<1>12. after[WordBits] = g[WordBits]
  BY <1>10, <1>1
<1>13. Mult(a, b, signedArith) = Out(g[WordBits])
  BY <1>11, <1>12
<1>14. QED
  BY <1>6, <1>7, <1>13 DEF start, Turn, Iterates

\* A product is two words.
LEMMA MultWords ==
  ASSUME NEW a \in Words, NEW b \in Words, NEW signedArith \in BOOLEAN
  PROVE  Mult(a, b, signedArith).hi \in Words /\ Mult(a, b, signedArith).lo \in Words
<1>1. WordBits \in 0 .. WordBits
  BY Sizes
<1>2. PICK x \in Int, y \in Int :
        Mult(a, b, signedArith) = IF a = 0 \/ b = 0 THEN [hi |-> 0, lo |-> 0]
                                  ELSE [hi |-> Signed(x), lo |-> Signed(y)]
  <2>1. PICK m \in MultStates :
          LET negative == signedArith /\ (a < 0) # (b < 0)
              lo == IF negative THEN (Word - m.lo) % Word ELSE m.lo
              hi == IF negative
                    THEN ((Word - 1 - m.hi) + (IF lo = 0 THEN 1 ELSE 0)) % Word ELSE m.hi
          IN Mult(a, b, signedArith) =
               IF a = 0 \/ b = 0 THEN [hi |-> 0, lo |-> 0]
               ELSE [hi |-> Signed(hi), lo |-> Signed(lo)]
    <3> DEFINE positive(n) == IF signedArith /\ n < 0 THEN Signed(-n) ELSE n
               negative == signedArith /\ (a < 0) # (b < 0)
               Low(m) == IF negative THEN (Word - m.lo) % Word ELSE m.lo
               High(m) == IF negative
                          THEN ((Word - 1 - m.hi) + (IF Low(m) = 0 THEN 1 ELSE 0)) % Word
                          ELSE m.hi
               Out(m) == IF a = 0 \/ b = 0 THEN [hi |-> 0, lo |-> 0]
                         ELSE [hi |-> Signed(High(m)), lo |-> Signed(Low(m))]
    <3>1. PICK g \in [0 .. WordBits -> MultStates] :
            /\ g[0] = [a |-> positive(a), bLo |-> Unsigned(positive(b)), bHi |-> 0,
                       lo |-> 0, hi |-> 0, more |-> TRUE]
            /\ \A k \in 1 .. WordBits :
                 g[k] = IF g[k - 1].more THEN MultTurn(g[k - 1]) ELSE g[k - 1]
            /\ Mult(a, b, signedArith) = Out(g[WordBits])
      BY MultRuns
    <3>2. g[WordBits] \in MultStates
      BY <1>1, <3>1
    <3> HIDE DEF Out
    <3>3. \E m \in MultStates : Mult(a, b, signedArith) = Out(m)
      BY <3>1, <3>2
    <3>4. QED
      BY <3>3 DEF Out
  <2>2. m.lo \in Int /\ m.hi \in Int
    BY Sizes DEF MultStates
  <2>3. Word \in Nat \ {0}
    BY Sizes
  <2> DEFINE w == Word
             negative == signedArith /\ (a < 0) # (b < 0)
             lo == IF negative THEN (w - m.lo) % w ELSE m.lo
             hi == IF negative
                    THEN ((w - 1 - m.hi) + (IF lo = 0 THEN 1 ELSE 0)) % w ELSE m.hi
  <2>4. lo \in Int /\ hi \in Int
    <3>1. w \in Nat \ {0}
      BY <2>3
    <3> HIDE DEF w, negative
    <3>2. QED
      BY <2>2, <3>1
  <2>5. QED
    BY <2>1, <2>4
<1>3. 0 \in Words
  <2>1. Word \div 2 \in Nat /\ Word \div 2 >= 2
    BY Sizes
  <2>2. QED
    BY <2>1 DEF Words
<1>4. QED
  BY <1>2, <1>3, SignedWord

-------------------------------------------------------------------------------
(* Types of instructions, registers and memory.                            *)

Cpus == [r : [Registers -> Words], hi : Words, lo : Words, pc : Words, nextPC : Words,
         load : Registers, loadValue : Words]

\* The memories of n bytes.
Memories(n) == [0 .. n - 1 -> 0 .. Byte - 1]

Outcomes ==
  {"done", "Overflow", "abort", "Syscall", "IllegalInstr", "AddressError", "PageFault"}

\* What OneInstruction works out, on a memory of n bytes.
Results(n) == [outcome : Outcomes, addr : Int, cpu : Cpus, bytes : Memories(n), pcAfter : Words,
               load : Registers, loadValue : Words]

MemorySize(n) == n \in 0 .. Word /\ n % 4 = 0

\* The fields an instruction uses have the range its opcode needs.
FieldsFit(i) ==
  /\ i.rs \in Registers /\ i.rd \in Registers /\ i.extra \in Int
  /\ i.opCode \notin {"BLTZ", "BGEZ", "BLTZAL", "BGEZAL", "UNIMP"} => i.rt \in Registers
  /\ i.opCode \in {"SLL", "SRL", "SRA"} => i.extra \in Nat

DirectNames ==
  {"J", "JAL", "BEQ", "BNE", "BLEZ", "BGTZ", "ADDI", "ADDIU", "SLTI", "SLTIU", "ANDI", "ORI",
   "XORI", "LUI", "UNIMP", "RES", "LB", "LH", "LWL", "LW", "LBU", "LHU", "LWR", "SB", "SH",
   "SWL", "SW", "SWR"}

SpecialNames ==
  {"SLL", "RES", "SRL", "SRA", "SLLV", "SRLV", "SRAV", "JR", "JALR", "SYSCALL", "UNIMP",
   "MFHI", "MTHI", "MFLO", "MTLO", "MULT", "MULTU", "DIV", "DIVU", "ADD", "ADDU", "SUB", "SUBU",
   "AND", "OR", "XOR", "NOR", "SLT", "SLTU"}

BranchNames == {"BLTZ", "BGEZ", "BLTZAL", "BGEZAL", "UNIMP"}

\* The tables are total.
LEMMA Tables ==
  /\ opTable[1] = "SPECIAL" /\ opTable[2] = "BCOND"
  /\ \A k \in 2 .. 63 : opTable[k + 1] \in DirectNames
  /\ \A k \in 0 .. 63 : specialTable[k + 1] \in SpecialNames
  /\ \A k \in 0 .. 31 : branchTable[k] \in BranchNames
<1>1. opTable[1] = "SPECIAL" /\ opTable[2] = "BCOND"
  BY DEF opTable
<1>2. ASSUME NEW k \in 2 .. 63
      PROVE  opTable[k + 1] \in DirectNames
  <2>1. \A j \in 3 .. 64 : opTable[j] \in DirectNames
    BY DEF opTable, DirectNames
  <2>2. QED
    BY <2>1
<1>3. ASSUME NEW k \in 0 .. 63
      PROVE  specialTable[k + 1] \in SpecialNames
  <2>1. \A j \in 1 .. 64 : specialTable[j] \in SpecialNames
    BY DEF specialTable, SpecialNames
  <2>2. QED
    BY <2>1
<1>4. ASSUME NEW k \in 0 .. 31
      PROVE  branchTable[k] \in BranchNames
  BY DEF branchTable, BranchNames
<1>5. QED
  BY <1>1, <1>2, <1>3, <1>4

\* Decode yields an opcode OneInstruction knows, with the fields it needs.
LEMMA DecodeType ==
  ASSUME NEW w \in Instructions
  PROVE  /\ FieldsFit(Decode(w))
         /\ Decode(w).opCode \in DirectNames \cup SpecialNames \cup BranchNames
<1> DEFINE op == opTable[w.op + 1]
<1>1. /\ w.op \in 0 .. 63 /\ w.funct \in 0 .. 63 /\ w.rt \in 0 .. 31
      /\ w.rs \in Registers /\ w.rd \in Registers /\ (w.op = 1 \/ w.rt \in Registers)
      /\ w.shamt \in 0 .. 31 /\ w.imm \in 0 .. Half - 1 /\ w.target \in Nat
  BY DEF Instructions
<1>2. SignExtend(w.imm, Half) \in Int
  BY <1>1, Sizes DEF SignExtend
<1> DEFINE i == Decode(w)
<1>11. i.rs \in Registers /\ i.rd \in Registers /\ i.rt = w.rt
  <2>1. i.rs = w.rs /\ i.rd = w.rd /\ i.rt = w.rt
    BY DEF Decode
  <2> HIDE DEF i
  <2>2. QED
    BY <2>1, <1>1
<1>3. /\ Decode(w).opCode = CASE op = "SPECIAL" -> specialTable[w.funct + 1]
                              [] op = "BCOND" -> branchTable[w.rt]
                              [] OTHER -> op
      /\ Decode(w).extra = CASE op = "SPECIAL" -> w.shamt
                             [] op \in {"J", "JAL"} -> w.target
                             [] OTHER -> SignExtend(w.imm, Half)
  BY DEF Decode
<1>8. w.op = 0 => op = "SPECIAL"
  BY Tables
<1>9. w.op = 1 => op = "BCOND"
  BY Tables
<1>10. w.op \in 2 .. 63 => op \in DirectNames
  BY Tables
<1> HIDE DEF op, i
<1>4. CASE w.op = 0
  <2>1. op = "SPECIAL"
    BY <1>4, <1>8
  <2>4. specialTable[w.funct + 1] \in SpecialNames
    BY <1>1, Tables
  <2>2. i.opCode \in SpecialNames /\ i.extra = w.shamt
    BY <2>1, <2>4, <1>3 DEF i
  <2>3. i.rt \in Registers /\ i.extra \in Nat
    BY <2>2, <1>1, <1>4, <1>11
  <2>5. i.opCode \in SpecialNames
    BY <2>2
  <2>6. QED
    BY <2>3, <2>5, <1>11 DEF FieldsFit, i
<1>5. CASE w.op = 1
  <2>1. op = "BCOND"
    BY <1>5, <1>9
  <2>4. branchTable[w.rt] \in BranchNames
    BY <1>1, Tables
  <2>2. i.opCode \in BranchNames /\ i.extra \in Int
    BY <2>1, <2>4, <1>2, <1>3 DEF i
  <2>3. QED
    BY <2>2, <1>11 DEF FieldsFit, BranchNames, i
<1>6. CASE w.op \in 2 .. 63
  <2>1. op \in DirectNames
    BY <1>6, <1>10
  <2>2. op # "SPECIAL" /\ op # "BCOND"
    BY <2>1 DEF DirectNames
  <2>3. i.opCode = op /\ i.extra \in Int
    BY <2>2, <1>1, <1>2, <1>3 DEF i
  <2>4. QED
    <3>1. i.rt \in Registers
      BY <1>1, <1>6, <1>11
    <3>2. i.opCode \notin {"SLL", "SRL", "SRA"}
      BY <2>1, <2>3 DEF DirectNames
    <3>3. FieldsFit(i)
      BY <3>1, <3>2, <2>3, <1>11 DEF FieldsFit
    <3>4. QED
      BY <3>3, <2>1, <2>3 DEF i
<1>7. QED
  BY <1>1, <1>4, <1>5, <1>6

\* Numbers of a byte or a half are words.
LEMMA SmallWords ==
  /\ 0 \in Words
  /\ 0 .. Half - 1 \subseteq Words /\ 0 .. Byte - 1 \subseteq Words
  /\ \A x \in 0 .. Byte - 1 : SignExtend(x, Byte) \in Words
  /\ \A x \in 0 .. Half - 1 : SignExtend(x, Half) \in Words
  /\ Words \subseteq Int
<1> DEFINE b == Byte
           h == Half
           v == Word \div 2
<1>1. b \in Nat /\ h \in Nat /\ v \in Nat /\ b >= 2 /\ h >= 2 * b /\ v >= h
  BY Sizes
<1>2. Words = -v .. v - 1
  BY DEF Words
<1>3. b \div 2 \in Nat /\ h \div 2 \in Nat /\ b \div 2 <= b /\ h \div 2 <= h
  BY <1>1
<1> HIDE DEF b, h, v
<1>4. 0 .. h - 1 \subseteq Words /\ 0 .. b - 1 \subseteq Words /\ 0 \in Words
  BY <1>1, <1>2
<1>5. \A x \in 0 .. b - 1 : SignExtend(x, b) \in Words
  BY <1>1, <1>2, <1>3 DEF SignExtend
<1>6. \A x \in 0 .. h - 1 : SignExtend(x, h) \in Words
  BY <1>1, <1>2, <1>3 DEF SignExtend
<1>7. QED
  BY <1>1, <1>2, <1>4, <1>5, <1>6 DEF b, h, v

\* What is read from an address Translate accepts.
LEMMA ReadType ==
  ASSUME NEW n, MemorySize(n), NEW space, space.bytes \in Memories(n),
         NEW addr \in Int, NEW size \in {1, 2, 4}, Translate(space, addr, size) = "NoException"
  PROVE  /\ ReadMem(space, addr, size) \in Int
         /\ size = 4 => ReadMem(space, addr, size) \in Words
<1> DEFINE a == Unsigned(addr)
           b == space.bytes
<1>1. addr % size = 0 /\ a \in 0 .. n - 1
  <2>1. DOMAIN space.bytes = 0 .. n - 1
    BY DEF Memories
  <2>2. addr % size = 0 /\ Unsigned(addr) \in DOMAIN space.bytes
    <3>1. "AddressError" # "NoException"
      OBVIOUS
    <3>2. QED
      BY <3>1, Zenon DEF Translate
  <2>3. QED
    BY <2>1, <2>2
<1>2. n \in Nat /\ n % 4 = 0
  BY Sizes DEF MemorySize
<1>3. \A k \in 0 .. n - 1 : b[k] \in Int
  <2>1. \A k \in 0 .. n - 1 : b[k] \in 0 .. Byte - 1
    BY DEF Memories
  <2>2. 0 .. Byte - 1 \subseteq Int
    BY Sizes
  <2>3. QED
    BY <2>1, <2>2
<1>4. Byte \in Int /\ Half \in Int
  BY Sizes
<1> HIDE DEF b
<1>5. CASE size = 1
  <2>1. ReadMem(space, addr, size) = SignExtend(b[a], Byte)
    BY <1>5 DEF ReadMem, b
  <2>2. QED
    BY <2>1, <1>1, <1>3, <1>4, <1>5 DEF SignExtend
<1>6. a % 4 = addr % 4
  BY SignedWord
<1> HIDE DEF a
<1>7. CASE size = 2
  <2>1. a + 1 \in 0 .. n - 1
    BY <1>1, <1>2, <1>6, <1>7
  <2>2. ReadMem(space, addr, size) = b[a] + Byte * b[a + 1]
    BY <1>7 DEF ReadMem, a, b
  <2>3. b[a] \in Int /\ b[a + 1] \in Int
    BY <1>1, <1>3, <2>1
  <2>4. Byte * b[a + 1] \in Int
    BY <2>3, <1>4
  <2>5. QED
    BY <2>2, <2>3, <2>4, <1>7
<1>8. CASE size = 4
  <2>1. a + 1 \in 0 .. n - 1 /\ a + 2 \in 0 .. n - 1 /\ a + 3 \in 0 .. n - 1
    BY <1>1, <1>2, <1>6, <1>8
  <2> DEFINE total == b[a] + Byte * b[a + 1] + Half * (b[a + 2] + Byte * b[a + 3])
  <2>2. ReadMem(space, addr, size) = Signed(total)
    BY <1>8 DEF ReadMem, a, b
  <2>3. b[a] \in Int /\ b[a + 1] \in Int /\ b[a + 2] \in Int /\ b[a + 3] \in Int
    BY <1>1, <1>3, <2>1
  <2>4. Byte * b[a + 1] \in Int /\ Byte * b[a + 3] \in Int
    BY <2>3, <1>4
  <2>5. b[a + 2] + Byte * b[a + 3] \in Int
    BY <2>3, <2>4
  <2>6. Half * (b[a + 2] + Byte * b[a + 3]) \in Int
    BY <2>5, <1>4
  <2>7. total \in Int
    BY <2>3, <2>4, <2>6
  <2>8. QED
    BY <2>2, <2>7, SignedWord
<1>9. QED
  BY <1>5, <1>7, <1>8

\* What memory holds after a write.
LEMMA WriteType ==
  ASSUME NEW n, MemorySize(n), NEW space, space.bytes \in Memories(n),
         NEW addr \in Int, NEW size \in {1, 2, 4}, NEW value \in Int
  PROVE  WriteMem(space, addr, size, value) \in Memories(n)
<1> DEFINE a == Unsigned(addr)
<1>1. a \in Int
  BY SignedWord, Sizes
<1>2. DOMAIN space.bytes = 0 .. n - 1 /\ \A i \in 0 .. n - 1 : space.bytes[i] \in 0 .. Byte - 1
  BY DEF Memories
<1>3. ASSUME NEW i \in 0 .. n - 1, i \in a .. a + size - 1
      PROVE  ShiftRight(value, ByteBits * (i - a)) % Byte \in 0 .. Byte - 1
  <2>1. ByteBits \in Nat /\ i - a \in Nat
    BY <1>1, <1>3, MipsAssumption
  <2>2. ByteBits * (i - a) \in Nat
    <3> DEFINE k == i - a
    <3> HIDE DEF a, k
    <3>1. k \in Nat
      BY <2>1 DEF k
    <3>2. ByteBits * k \in Nat
      BY <3>1, <2>1
    <3>3. QED
      BY <3>2 DEF k
  <2>3. 2 ^ (ByteBits * (i - a)) \in Nat \ {0}
    BY <2>2, Powers
  <2>4. ShiftRight(value, ByteBits * (i - a)) \in Int
    BY <2>3 DEF ShiftRight
  <2>5. Byte \in Nat \ {0}
    BY Sizes
  <2>6. QED
    BY <2>4, <2>5
<1>4. WriteMem(space, addr, size, value) =
        [i \in 0 .. n - 1 |-> IF i \in a .. a + size - 1
                              THEN ShiftRight(value, ByteBits * (i - a)) % Byte
                              ELSE space.bytes[i]]
  BY <1>2 DEF WriteMem
<1> HIDE DEF a
<1>5. QED
  BY <1>2, <1>3, <1>4 DEF Memories

-------------------------------------------------------------------------------
(* What each instruction leaves is typed.                                  *)

\* A word is an integer.
LEMMA WordIsInt ==
  ASSUME NEW s, NEW n, s \in Results(n), NEW reg \in Registers
  PROVE  /\ s.cpu.r[reg] \in Words /\ s.cpu.r[reg] \in Int
         /\ s.cpu.hi \in Words /\ s.cpu.lo \in Words
         /\ s.cpu.nextPC \in Words /\ s.cpu.nextPC \in Int
         /\ s.pcAfter \in Words /\ s.pcAfter \in Int
         /\ s.cpu.loadValue \in Words
<1>1. Words \subseteq Int
  BY SmallWords
<1>2. s.cpu \in Cpus /\ s.pcAfter \in Words
  BY DEF Results
<1>3. QED
  BY <1>1, <1>2 DEF Cpus

\* A register gets a word, whatever is assigned to it.
LEMMA SetsType ==
  ASSUME NEW n, NEW s \in Results(n), NEW reg \in Registers, NEW value \in Int
  PROVE  Sets(s, reg, value) \in Results(n)
<1>1. Signed(value) \in Words
  BY SignedWord
<1> DEFINE v == Signed(value)
           c == [s.cpu EXCEPT !.r[reg] = v]
<1>2. v \in Words
  BY <1>1
<1>3. Sets(s, reg, value) = [s EXCEPT !.cpu = c]
  BY DEF Sets, Results
<1> HIDE DEF v
<1>4. c \in Cpus
  <2>1. s.cpu \in Cpus
    BY DEF Results
  <2>2. QED
    BY <2>1, <1>2 DEF Cpus
<1> HIDE DEF c
<1>5. QED
  BY <1>3, <1>4 DEF Results

\* A step that stops is a step.
LEMMA StopsType ==
  ASSUME NEW n, NEW s \in Results(n), NEW addr \in Int, NEW outcome \in Outcomes
  PROVE  Stops(s, outcome, addr) \in Results(n)
  BY DEF Stops, Results

\* A step that sets both registers of MULT and DIV.
SetsBoth(s, high, low) == [s EXCEPT !.cpu.hi = high, !.cpu.lo = low]

\* hi and lo get words.
LEMMA SetsBothType ==
  ASSUME NEW n, NEW s \in Results(n), NEW high \in Words, NEW low \in Words
  PROVE  SetsBoth(s, high, low) \in Results(n)
  BY DEF SetsBoth, Results, Cpus

\* One of the two, the program counter or a delayed load gets a word.
LEMMA CpuUpdates ==
  ASSUME NEW n, NEW s \in Results(n), NEW v \in Words
  PROVE  /\ [s EXCEPT !.cpu.hi = v] \in Results(n)
         /\ [s EXCEPT !.cpu.lo = v] \in Results(n)
         /\ [s EXCEPT !.pcAfter = v] \in Results(n)
         /\ \A reg \in Registers : [s EXCEPT !.load = reg, !.loadValue = v] \in Results(n)
  BY DEF Results, Cpus

\* Memory gets bytes.
LEMMA BytesUpdate ==
  ASSUME NEW n, NEW s \in Results(n), NEW b \in Memories(n)
  PROVE  [s EXCEPT !.bytes = b] \in Results(n)
  BY DEF Results

\* One lemma for each group of instructions: what it makes is a step again.
LEMMA AddTrappingType ==
  ASSUME NEW n, NEW s \in Results(n), NEW i, FieldsFit(i), i.rt \in Registers
  PROVE  AddTrapping(i, s) \in Results(n)
<1> DEFINE a == s.cpu.r[i.rs]
           b == IF i.opCode = "ADD" THEN s.cpu.r[i.rt] ELSE i.extra
<1>1. a \in Int /\ b \in Int
  BY WordIsInt DEF FieldsFit
<1>2. i.rd \in Registers
  BY DEF FieldsFit
<1>3. a + b \in Int
  BY <1>1
<1>4. Sets(s, IF i.opCode = "ADD" THEN i.rd ELSE i.rt, a + b) \in Results(n)
  BY <1>2, <1>3, SetsType
<1>5. Stops(s, "Overflow", 0) \in Results(n)
  BY StopsType, 0 \in Int DEF Outcomes
<1>6. AddTrapping(i, s) \in {Stops(s, "Overflow", 0),
                             Sets(s, IF i.opCode = "ADD" THEN i.rd ELSE i.rt, a + b)}
  BY DEF AddTrapping
<1>7. QED
  BY <1>4, <1>5, <1>6

LEMMA SubTrappingType ==
  ASSUME NEW n, NEW s \in Results(n), NEW i, FieldsFit(i), i.rt \in Registers
  PROVE  SubTrapping(i, s) \in Results(n)
<1> DEFINE a == s.cpu.r[i.rs]
           b == s.cpu.r[i.rt]
<1>1. a \in Int /\ b \in Int /\ i.rd \in Registers
  BY WordIsInt DEF FieldsFit
<1>2. a - b \in Int
  BY <1>1
<1>3. Sets(s, i.rd, a - b) \in Results(n) /\ Stops(s, "Overflow", 0) \in Results(n)
  BY <1>1, <1>2, SetsType, StopsType, 0 \in Int DEF Outcomes
<1>4. SubTrapping(i, s) \in {Stops(s, "Overflow", 0), Sets(s, i.rd, a - b)}
  BY DEF SubTrapping
<1>5. QED
  BY <1>3, <1>4

LEMMA AddAndType ==
  ASSUME NEW n, NEW s \in Results(n), NEW i, FieldsFit(i), i.rt \in Registers,
         i.opCode \in {"ADDIU", "ADDU", "AND", "ANDI"}
  PROVE  AddAnd(i, s) \in Results(n)
<1> DEFINE a == s.cpu.r[i.rs]
           b == s.cpu.r[i.rt]
<1>1. a \in Int /\ b \in Int /\ i.rd \in Registers /\ i.extra \in Int
  BY WordIsInt DEF FieldsFit
<1>2. a + i.extra \in Int /\ a + b \in Int
  BY <1>1
<1>3. BitAnd(a, b) \in Int /\ BitAnd(a, i.extra % Half) \in Int
  BY BitsWord, SmallWords DEF BitAnd
<1>4. AddAnd(i, s) \in {Sets(s, i.rt, a + i.extra), Sets(s, i.rd, a + b),
                        Sets(s, i.rd, BitAnd(a, b)), Sets(s, i.rt, BitAnd(a, i.extra % Half))}
  BY DEF AddAnd
<1> HIDE DEF a, b
<1>5. QED
  BY <1>1, <1>2, <1>3, <1>4, SetsType

LEMMA BranchType ==
  ASSUME NEW n, NEW s \in Results(n), NEW i, FieldsFit(i)
  PROVE  Branch(i, s) \in Results(n)
<1> DEFINE linked == IF i.opCode \in {"BGEZAL", "BLTZAL"} THEN Sets(s, 31, s.cpu.nextPC + 4) ELSE s
           to == s.cpu.nextPC + IndexToAddr(i.extra)
<1>1. s.cpu.nextPC \in Int /\ s.cpu.nextPC + 4 \in Int /\ 31 \in Registers
  BY WordIsInt, MipsAssumption
<1>2. linked \in Results(n)
  BY <1>1, SetsType
<1>3. to \in Int
  BY <1>1 DEF FieldsFit, IndexToAddr
<1>4. Signed(to) \in Words
  BY <1>3, SignedWord
<1>5. Branch(i, s) \in {linked, [linked EXCEPT !.pcAfter = Signed(to)]}
  BY DEF Branch
<1> HIDE DEF linked, to
<1>6. QED
  BY <1>2, <1>4, <1>5, CpuUpdates

LEMMA DivideType ==
  ASSUME NEW n, NEW s \in Results(n), NEW i, FieldsFit(i), i.rt \in Registers
  PROVE  Divide(i, s) \in Results(n)
<1> DEFINE a == IF i.opCode = "DIV" THEN s.cpu.r[i.rs] ELSE Unsigned(s.cpu.r[i.rs])
           b == IF i.opCode = "DIV" THEN s.cpu.r[i.rt] ELSE Unsigned(s.cpu.r[i.rt])
           q == Quotient(a, b)
<1>1. i.rs \in Registers
  BY DEF FieldsFit
<1>2. s.cpu.r[i.rs] \in Int /\ s.cpu.r[i.rt] \in Int
  BY <1>1, WordIsInt
<1>3. a \in Int /\ b \in Int
  <2>1. Word \in Int
    BY Sizes
  <2>2. Unsigned(s.cpu.r[i.rs]) \in 0 .. Word - 1 /\ Unsigned(s.cpu.r[i.rt]) \in 0 .. Word - 1
    BY <1>2, SignedWord
  <2>3. QED
    BY <2>1, <2>2, <1>2
<1>4. 0 \in Words
  BY SmallWords
<1> HIDE DEF a, b
<1>5. b # 0 => q \in Int /\ a - q * b \in Int
  <2>1. Abs(a) \in Nat /\ Abs(b) \in Nat /\ (b # 0 => Abs(b) > 0)
    BY <1>3 DEF Abs
  <2>2. b # 0 => Abs(a) \div Abs(b) \in Int
    <3> DEFINE x == Abs(a)
               y == Abs(b)
    <3> HIDE DEF x, y
    <3>1. x \in Nat /\ y \in Nat /\ (b # 0 => y > 0)
      BY <2>1 DEF x, y
    <3>2. b # 0 => x \div y \in Int
      BY <3>1
    <3>3. QED
      BY <3>2 DEF x, y
  <2>3. q \in {Abs(a) \div Abs(b), -(Abs(a) \div Abs(b))}
    BY DEF Quotient
  <2>4. b # 0 => q \in Int
    <3> DEFINE z == Abs(a) \div Abs(b)
    <3> HIDE DEF z, q
    <3>1. b # 0 => z \in Int
      BY <2>2 DEF z
    <3>2. q \in {z, -z}
      BY <2>3 DEF z
    <3>3. QED
      BY <3>1, <3>2
  <2> HIDE DEF q
  <2>5. QED
    BY <2>4, <1>3
<1>6. /\ b = 0 => Divide(i, s) = SetsBoth(s, 0, 0)
      /\ b # 0 /\ a = -(Word \div 2) /\ b = -1 => Divide(i, s) = Stops(s, "abort", 0)
      /\ b # 0 /\ ~(a = -(Word \div 2) /\ b = -1) =>
           Divide(i, s) = SetsBoth(s, Signed(a - q * b), Signed(q))
  <2>1. s.cpu \in Cpus /\ s \in [outcome : Outcomes, addr : Int, cpu : Cpus, bytes : Memories(n),
                                 pcAfter : Words, load : Registers, loadValue : Words]
    BY DEF Results
  <2>2. \A x, y : [s EXCEPT !.cpu.lo = x, !.cpu.hi = y] = SetsBoth(s, y, x)
    BY <2>1 DEF SetsBoth, Cpus
  <2> DEFINE Both(x, y) == [s EXCEPT !.cpu.lo = x, !.cpu.hi = y]
  <2>3. /\ b = 0 => Divide(i, s) = Both(0, 0)
        /\ b # 0 /\ a = -(Word \div 2) /\ b = -1 => Divide(i, s) = Stops(s, "abort", 0)
        /\ b # 0 /\ ~(a = -(Word \div 2) /\ b = -1) =>
             Divide(i, s) = Both(Signed(q), Signed(a - q * b))
    BY DEF Divide, a, b
  <2>4. \A x, y : Both(x, y) = SetsBoth(s, y, x)
    BY <2>2
  <2> HIDE DEF Both, q
  <2>5. QED
    BY <2>3, <2>4
<1>7. CASE b = 0
  BY <1>4, <1>6, <1>7, SetsBothType
<1>8. CASE b # 0 /\ a = -(Word \div 2) /\ b = -1
  <2>1. Stops(s, "abort", 0) \in Results(n)
    BY StopsType, 0 \in Int DEF Outcomes
  <2>2. QED
    BY <2>1, <1>6, <1>8
<1>9. CASE b # 0 /\ ~(a = -(Word \div 2) /\ b = -1)
  <2>1. Signed(q) \in Words /\ Signed(a - q * b) \in Words
    BY <1>5, <1>9, SignedWord
  <2>2. SetsBoth(s, Signed(a - q * b), Signed(q)) \in Results(n)
    BY <2>1, SetsBothType
  <2> HIDE DEF q
  <2>3. QED
    BY <2>2, <1>6, <1>9
<1>10. QED
  BY <1>7, <1>8, <1>9

LEMMA JumpType ==
  ASSUME NEW n, NEW s \in Results(n), NEW i, FieldsFit(i)
  PROVE  Jump(i, s) \in Results(n)
<1> DEFINE next == s.cpu.nextPC + 4
           linked == CASE i.opCode = "JAL" -> Sets(s, 31, next)
                       [] i.opCode = "JALR" -> Sets(s, i.rd, next)
                       [] OTHER -> s
           inRegion == (s.pcAfter - (s.pcAfter % JumpSpan)) + IndexToAddr(i.extra)
           to == IF i.opCode \in {"J", "JAL"} THEN Signed(inRegion) ELSE linked.cpu.r[i.rs]
<1>1. next \in Int /\ 31 \in Registers /\ i.rd \in Registers /\ i.rs \in Registers
  BY WordIsInt, MipsAssumption DEF FieldsFit
<1>2. Sets(s, 31, next) \in Results(n) /\ Sets(s, i.rd, next) \in Results(n)
  BY <1>1, SetsType
<1>3. linked \in Results(n)
  BY <1>2
<1>4. inRegion \in Int
  <2>1. s.pcAfter \in Int /\ 31 \in Registers
    BY <1>1, WordIsInt
  <2>2. JumpSpan \in Nat \ {0} /\ i.extra \in Int
    BY MipsAssumption DEF FieldsFit
  <2>3. s.pcAfter % JumpSpan \in Int
    BY <2>1, <2>2
  <2>4. QED
    BY <2>1, <2>2, <2>3 DEF IndexToAddr
<1>5. Jump(i, s) = [linked EXCEPT !.pcAfter = to]
  BY DEF Jump
<1> HIDE DEF linked, inRegion
<1>6. to \in Words
  BY <1>1, <1>3, <1>4, WordIsInt, SignedWord
<1> HIDE DEF to
<1>7. QED
  BY <1>3, <1>5, <1>6, CpuUpdates

\* What Machine::Translate answers.
LEMMA TranslateIs ==
  ASSUME NEW space, NEW addr, NEW size
  PROVE  /\ Translate(space, addr, size) \in {"AddressError", "PageFault", "NoException"}
         /\ Translate(space, addr, size) # "NoException" => Translate(space, addr, size) \in Outcomes
         /\ Translate(space, addr, size) # "done"
  BY DEF Translate, Outcomes

LEMMA LoadedType ==
  ASSUME NEW opCode \in {"LB", "LBU", "LH", "LHU", "LW"}, NEW value \in Int,
         opCode = "LW" => value \in Words
  PROVE  Loaded(opCode, value) \in Words
<1>1. value % Byte \in 0 .. Byte - 1 /\ value % Half \in 0 .. Half - 1
  BY Sizes
<1>2. /\ SignExtend(value % Byte, Byte) \in Words /\ value % Byte \in Words
      /\ SignExtend(value % Half, Half) \in Words /\ value % Half \in Words
  BY <1>1, SmallWords
<1>3. Loaded(opCode, value) = CASE opCode = "LB" -> SignExtend(value % Byte, Byte)
                                [] opCode = "LBU" -> value % Byte
                                [] opCode = "LH" -> SignExtend(value % Half, Half)
                                [] opCode = "LHU" -> value % Half
                                [] opCode = "LW" -> value
  BY DEF Loaded
<1> DEFINE x1 == SignExtend(value % Byte, Byte)
           x2 == value % Byte
           x3 == SignExtend(value % Half, Half)
           x4 == value % Half
<1>4. /\ x1 \in Words /\ x2 \in Words /\ x3 \in Words /\ x4 \in Words
      /\ Loaded(opCode, value) = CASE opCode = "LB" -> x1 [] opCode = "LBU" -> x2
                                   [] opCode = "LH" -> x3 [] opCode = "LHU" -> x4
                                   [] opCode = "LW" -> value
  BY <1>2, <1>3
<1> HIDE DEF x1, x2, x3, x4
<1>5. QED
  BY <1>4

LEMMA LoadType ==
  ASSUME NEW n, MemorySize(n), NEW s \in Results(n), NEW i, FieldsFit(i), i.rt \in Registers,
         i.opCode \in {"LB", "LBU", "LH", "LHU", "LW"},
         NEW space, space.bytes \in Memories(n)
  PROVE  Load(i, s, space) \in Results(n)
<1> DEFINE addr == Signed(s.cpu.r[i.rs] + i.extra)
           size == SizeOf(i.opCode)
           exception == Translate(space, addr, size)
           value == Loaded(i.opCode, ReadMem(space, addr, size))
<1>1. addr \in Int
  <2>1. s.cpu.r[i.rs] + i.extra \in Int
    BY WordIsInt DEF FieldsFit
  <2>2. QED
    BY <2>1, SignedWord
<1>2. size \in {1, 2, 4} /\ (i.opCode = "LW" => size = 4)
  BY DEF SizeOf
<1>3. Load(i, s, space) = IF exception # "NoException" THEN Stops(s, exception, addr)
                          ELSE [s EXCEPT !.load = i.rt, !.loadValue = value]
  BY DEF Load
<1> HIDE DEF addr, size
<1>4. CASE exception # "NoException"
  <2>1. Stops(s, exception, addr) \in Results(n)
    BY <1>1, <1>4, StopsType, TranslateIs
  <2>2. QED
    BY <2>1, <1>3, <1>4
<1>5. CASE exception = "NoException"
  <2>1. /\ ReadMem(space, addr, size) \in Int
        /\ size = 4 => ReadMem(space, addr, size) \in Words
    BY <1>1, <1>2, <1>5, ReadType
  <2>2. value \in Words
    BY <2>1, <1>2, LoadedType
  <2> HIDE DEF value
  <2>3. [s EXCEPT !.load = i.rt, !.loadValue = value] \in Results(n)
    BY <2>2, CpuUpdates
  <2>4. QED
    BY <2>3, <1>3, <1>5
<1>6. QED
  BY <1>4, <1>5

\* What LWR puts together is a word: a byte in the place of the lowest.
LEMMA LowestByte ==
  ASSUME NEW w \in Words, NEW value \in Int
  PROVE  (w - (w % Byte)) + ShiftRight(Unsigned(value), 3 * ByteBits) \in Words
<1> DEFINE b == Byte
           c == 2 ^ (3 * ByteBits)
           u == Unsigned(value)
           v == Word \div 2
           x == u \div c
           r == w % b
<1>1. ByteBits \in Nat /\ b \in Nat /\ b >= 2 /\ Word = 2 * v /\ v \in Nat
  BY Sizes, MipsAssumption
<1>2. c \in Nat /\ c = b * b * b
  <2>1. 2 ^ (ByteBits + ByteBits) = 2 ^ ByteBits * 2 ^ ByteBits
    BY <1>1, PowerSum
  <2>2. ByteBits + ByteBits \in Nat /\ (ByteBits + ByteBits) + ByteBits = 3 * ByteBits
    BY <1>1
  <2>3. 2 ^ ((ByteBits + ByteBits) + ByteBits) = 2 ^ (ByteBits + ByteBits) * 2 ^ ByteBits
    BY <1>1, <2>2, PowerSum
  <2>4. c = b * b * b
    BY <2>1, <2>2, <2>3 DEF Byte
  <2>5. 3 * ByteBits \in Nat
    BY <1>1
  <2>6. c \in Nat
    BY <2>5, Powers
  <2>7. QED
    BY <2>4, <2>6
<1>3. u \in 0 .. 2 * v - 1 /\ 2 * v = b * c
  <2>1. u \in 0 .. Word - 1
    BY SignedWord
  <2>2. Word = (b * b) * (b * b)
    BY DEF Word, Half
  <2> HIDE DEF b, c, u, v
  <2>3. (b * b) * (b * b) = b * (b * b * b)
    BY <1>1
  <2>4. QED
    BY <1>1, <1>2, <2>1, <2>2, <2>3
<1>4. w \in -v .. v - 1
  BY DEF Words
<1>5. c >= 1
  <2>1. 3 * ByteBits \in Nat
    BY <1>1
  <2>2. c \in Nat \ {0}
    BY <2>1, Powers
  <2> HIDE DEF c
  <2>3. QED
    BY <2>2
<1>6. x \in 0 .. b - 1
  <2> HIDE DEF b, c, u, v, x
  <2>1. PICK q \in Int, y \in 0 .. c - 1 : q = u \div c /\ y = u % c /\ u = c * q + y
    <3>1. u \in Int /\ c \in Nat \ {0}
      BY <1>2, <1>3, <1>5, <1>1
    <3>2. QED
      BY <3>1, Division
  <2>2. c * q <= u /\ u < c * (q + 1) /\ u < b * c /\ u >= 0 /\ u \in Int
    BY <2>1, <1>1, <1>2, <1>3, <1>5
  <2>3. q >= 0
    <3>1. SUFFICES ASSUME q <= -1
                   PROVE  FALSE
      BY <2>1
    <3>2. c * (q + 1) <= 0
      <4>1. PICK m \in Nat : q + 1 = -m
        BY <3>1, <2>1
      <4>2. c * m \in Nat /\ c * (-m) = -(c * m)
        BY <1>2
      <4>3. QED
        BY <4>1, <4>2
    <3> DEFINE z == c * (q + 1)
    <3>3. z <= 0 /\ z \in Int /\ u < z /\ u >= 0 /\ u \in Int
      BY <3>2, <2>2, <2>1, <1>2
    <3> HIDE DEF z
    <3>4. QED
      BY <3>3
  <2>4. q < b
    <3>1. SUFFICES ASSUME q >= b
                   PROVE  FALSE
      BY <2>1, <1>1
    <3>2. c * q >= c * b
      BY <3>1, <2>1, <1>1, <1>2, <1>5
    <3>3. c * b = b * c /\ c * q \in Int /\ b * c \in Int
      BY <1>1, <1>2, <2>1
    <3>4. QED
      BY <3>2, <3>3, <2>2
  <2>5. QED
    BY <2>1, <2>3, <2>4, <1>1 DEF x
<1>7. r \in 0 .. b - 1 /\ w - r >= -v /\ (w - r) + (b - 1) <= v - 1
  <2>1. PICK e \in Nat : b = 2 * e
    <3>1. b % 2 = 0
      BY Sizes
    <3> HIDE DEF b
    <3>2. b \div 2 \in Nat /\ b = 2 * (b \div 2)
      BY <3>1, <1>1
    <3>3. QED
      BY <3>2
  <2> DEFINE d == e * c
  <2>2. d \in Nat /\ v = d
    <3> HIDE DEF b, c, v
    <3>1. b * c = 2 * (e * c)
      BY <2>1, <1>2
    <3>2. e * c \in Nat
      BY <2>1, <1>2
    <3>3. QED
      BY <3>1, <3>2, <1>1, <1>3
  <2>3. PICK g \in Nat : v = b * g
    <3>1. e * (b * b * b) = b * (e * (b * b))
      <4> HIDE DEF b
      <4>1. QED
        BY <1>1, <2>1
    <3>2. e * (b * b) \in Nat
      <4> HIDE DEF b
      <4>1. QED
        BY <1>1, <2>1
    <3>3. v = e * (b * b * b)
      BY <2>2, <1>2
    <3> DEFINE k == e * (b * b)
    <3>4. k \in Nat /\ v = b * k
      <4> HIDE DEF b, v
      <4>1. b * k = e * (b * b * b)
        BY <3>1
      <4>2. QED
        BY <4>1, <3>2, <3>3
    <3> HIDE DEF b, v, k
    <3>5. QED
      BY <3>4
  <2>4. PICK q \in Int, y \in 0 .. b - 1 : q = w \div b /\ y = w % b /\ w = b * q + y
    <3>1. w \in Int /\ b \in Nat \ {0}
      BY <1>1, <1>4
    <3> HIDE DEF b
    <3>2. QED
      BY <3>1, Division
  <2>5. r = y
    BY <2>4
  <2> HIDE DEF b, v, r
  <2>6. w - r = b * q /\ b * q \in Int
    BY <2>4, <2>5, <1>1, <1>4
  <2>7. q >= -g
    <3>1. SUFFICES ASSUME q <= -g - 1
                   PROVE  FALSE
      BY <2>3, <2>4
    <3>2. b * q <= b * (-g - 1)
      BY <3>1, <1>1, <2>3, <2>4
    <3>3. b * (-g - 1) = -v - b
      BY <1>1, <2>3
    <3>4. QED
      BY <3>2, <3>3, <1>1, <1>4, <2>4, <2>6
  <2>8. q <= g - 1
    <3>1. SUFFICES ASSUME q >= g
                   PROVE  FALSE
      BY <2>3, <2>4
    <3>2. b * q >= b * g
      BY <3>1, <1>1, <2>3, <2>4
    <3>3. QED
      BY <3>2, <1>1, <1>4, <2>3, <2>4, <2>6
  <2>9. b * q >= b * (-g) /\ b * q <= b * (g - 1)
    BY <1>1, <2>3, <2>4, <2>7, <2>8
  <2>10. b * (-g) = -v /\ b * (g - 1) = v - b
    BY <1>1, <2>3
  <2>11. QED
    BY <2>4, <2>5, <2>6, <2>9, <2>10, <1>1
<1>8. ShiftRight(Unsigned(value), 3 * ByteBits) = x
  BY DEF ShiftRight
<1>9. (w - r) + x \in -v .. v - 1
  <2> HIDE DEF x, r, v, b
  <2>1. QED
    BY <1>1, <1>4, <1>6, <1>7
<1>10. QED
  BY <1>8, <1>9 DEF Words

LEMMA LoadUnalignedType ==
  ASSUME NEW n, MemorySize(n), NEW s \in Results(n), NEW i, FieldsFit(i), i.rt \in Registers,
         NEW space, space.bytes \in Memories(n)
  PROVE  LoadUnaligned(i, s, space) \in Results(n)
<1> DEFINE addr == Signed(s.cpu.r[i.rs] + i.extra)
           exception == Translate(space, addr, 4)
           value == ReadMem(space, addr, 4)
           before == IF s.cpu.load = i.rt THEN s.cpu.loadValue ELSE s.cpu.r[i.rt]
           after == IF i.opCode = "LWL" THEN value
                    ELSE (before - (before % Byte)) + ShiftRight(Unsigned(value), 3 * ByteBits)
<1>1. addr \in Int
  <2>1. s.cpu.r[i.rs] + i.extra \in Int
    BY WordIsInt DEF FieldsFit
  <2>2. QED
    BY <2>1, SignedWord
<1>2. before \in Words
  BY WordIsInt
<1>3. /\ addr % 4 # 0 => LoadUnaligned(i, s, space) = Stops(s, "abort", 0)
      /\ addr % 4 = 0 /\ exception # "NoException" =>
           LoadUnaligned(i, s, space) = Stops(s, exception, addr)
      /\ addr % 4 = 0 /\ exception = "NoException" =>
           LoadUnaligned(i, s, space) = [s EXCEPT !.load = i.rt, !.loadValue = after]
  BY DEF LoadUnaligned
<1> HIDE DEF addr, before
<1>4. CASE addr % 4 # 0
  <2>1. Stops(s, "abort", 0) \in Results(n)
    BY StopsType, 0 \in Int DEF Outcomes
  <2>2. QED
    BY <2>1, <1>3, <1>4
<1>5. CASE addr % 4 = 0 /\ exception # "NoException"
  <2>1. Stops(s, exception, addr) \in Results(n)
    BY <1>1, <1>5, StopsType, TranslateIs
  <2>2. QED
    BY <2>1, <1>3, <1>5
<1>6. CASE addr % 4 = 0 /\ exception = "NoException"
  <2>1. value \in Words /\ value \in Int
    BY <1>1, <1>6, ReadType
  <2>2. after \in Words
    BY <2>1, <1>2, LowestByte
  <2> HIDE DEF after
  <2>3. [s EXCEPT !.load = i.rt, !.loadValue = after] \in Results(n)
    BY <2>2, CpuUpdates
  <2>4. QED
    BY <2>3, <1>3, <1>6
<1>7. QED
  BY <1>4, <1>5, <1>6

LEMMA LuiType ==
  ASSUME NEW n, NEW s \in Results(n), NEW i, FieldsFit(i), i.rt \in Registers
  PROVE  Lui(i, s) \in Results(n)
<1>1. i.extra * Half \in Int
  BY Sizes DEF FieldsFit
<1>2. QED
  BY <1>1, SetsType DEF Lui

LEMMA MoveHiLoType ==
  ASSUME NEW n, NEW s \in Results(n), NEW i, FieldsFit(i),
         i.opCode \in {"MFHI", "MFLO", "MTHI", "MTLO"}
  PROVE  MoveHiLo(i, s) \in Results(n)
<1> DEFINE a == s.cpu.r[i.rs]
<1>1. i.rs \in Registers /\ i.rd \in Registers
  BY DEF FieldsFit
<1>2. a \in Words /\ s.cpu.hi \in Words /\ s.cpu.lo \in Words
  BY <1>1, WordIsInt
<1>3. s.cpu.hi \in Int /\ s.cpu.lo \in Int
  BY <1>2, SmallWords
<1>4. MoveHiLo(i, s) \in {Sets(s, i.rd, s.cpu.hi), Sets(s, i.rd, s.cpu.lo),
                          [s EXCEPT !.cpu.hi = a], [s EXCEPT !.cpu.lo = a]}
  BY DEF MoveHiLo
<1> HIDE DEF a
<1>5. Sets(s, i.rd, s.cpu.hi) \in Results(n) /\ Sets(s, i.rd, s.cpu.lo) \in Results(n)
  BY <1>1, <1>3, SetsType
<1>6. [s EXCEPT !.cpu.hi = a] \in Results(n) /\ [s EXCEPT !.cpu.lo = a] \in Results(n)
  BY <1>2, CpuUpdates
<1>7. QED
  BY <1>4, <1>5, <1>6

LEMMA MultiplyType ==
  ASSUME NEW n, NEW s \in Results(n), NEW i, FieldsFit(i), i.rt \in Registers
  PROVE  Multiply(i, s) \in Results(n)
<1> DEFINE product == Mult(s.cpu.r[i.rs], s.cpu.r[i.rt], i.opCode = "MULT")
<1>1. s.cpu.r[i.rs] \in Words /\ s.cpu.r[i.rt] \in Words
  BY WordIsInt DEF FieldsFit
<1>2. (i.opCode = "MULT") \in BOOLEAN
  OBVIOUS
<1>3. product.hi \in Words /\ product.lo \in Words
  BY <1>1, <1>2, MultWords
<1>4. Multiply(i, s) = SetsBoth(s, product.hi, product.lo)
  BY DEF Multiply, SetsBoth
<1> HIDE DEF product
<1>5. QED
  BY <1>3, <1>4, SetsBothType

LEMMA OrNorType ==
  ASSUME NEW n, NEW s \in Results(n), NEW i, FieldsFit(i), i.rt \in Registers,
         i.opCode \in {"NOR", "OR", "ORI"}
  PROVE  OrNor(i, s) \in Results(n)
<1> DEFINE a == s.cpu.r[i.rs]
           b == s.cpu.r[i.rt]
<1>1. i.rd \in Registers
  BY DEF FieldsFit
<1>2. -1 - BitOr(a, b) \in Int /\ BitOr(a, a) \in Int /\ BitOr(a, i.extra % Half) \in Int
  <2>1. \A x, y : BitOr(x, y) \in Int
    BY BitsWord, SmallWords DEF BitOr
  <2>2. QED
    BY <2>1
<1>3. OrNor(i, s) \in {Sets(s, i.rd, -1 - BitOr(a, b)), Sets(s, i.rd, BitOr(a, a)),
                       Sets(s, i.rt, BitOr(a, i.extra % Half))}
  BY DEF OrNor
<1> HIDE DEF a, b
<1>4. QED
  BY <1>1, <1>2, <1>3, SetsType

LEMMA StoreType ==
  ASSUME NEW n, MemorySize(n), NEW s \in Results(n), NEW i, FieldsFit(i), i.rt \in Registers,
         i.opCode \in {"SB", "SH", "SW"}, NEW space, space.bytes \in Memories(n)
  PROVE  Store(i, s, space) \in Results(n)
<1> DEFINE addr == Signed(s.cpu.r[i.rs] + i.extra)
           size == SizeOf(i.opCode)
           exception == Translate(space, addr, size)
           value == s.cpu.r[i.rt]
<1>1. addr \in Int /\ value \in Int
  <2>1. s.cpu.r[i.rs] + i.extra \in Int
    BY WordIsInt DEF FieldsFit
  <2>2. QED
    BY <2>1, SignedWord, WordIsInt
<1>2. size \in {1, 2, 4}
  BY DEF SizeOf
<1>3. Store(i, s, space) = IF exception # "NoException" THEN Stops(s, exception, addr)
                           ELSE [s EXCEPT !.bytes = WriteMem(space, addr, size, value)]
  BY DEF Store
<1> HIDE DEF addr, size, value
<1>4. CASE exception # "NoException"
  <2>1. Stops(s, exception, addr) \in Results(n)
    BY <1>1, <1>4, StopsType, TranslateIs
  <2>2. QED
    BY <2>1, <1>3, <1>4
<1>5. CASE exception = "NoException"
  <2>1. WriteMem(space, addr, size, value) \in Memories(n)
    BY <1>1, <1>2, WriteType
  <2>2. [s EXCEPT !.bytes = WriteMem(space, addr, size, value)] \in Results(n)
    BY <2>1, BytesUpdate
  <2>3. QED
    BY <2>2, <1>3, <1>5
<1>6. QED
  BY <1>4, <1>5

\* A shift to the left gives a word.
LEMMA ShiftLeftWord ==
  ASSUME NEW x \in Int, NEW k \in Nat
  PROVE  ShiftLeft(x, k) \in Words /\ ShiftLeft(x, k) \in Int /\ ShiftRight(x, k) \in Int
<1>1. 2 ^ k \in Nat \ {0}
  BY Powers
<1>2. x * 2 ^ k \in Int /\ x \div 2 ^ k \in Int
  BY <1>1
<1>3. QED
  BY <1>2, SignedWord DEF ShiftLeft, ShiftRight

LEMMA StoreUnalignedType ==
  ASSUME NEW n, MemorySize(n), NEW s \in Results(n), NEW i, FieldsFit(i), i.rt \in Registers,
         NEW space, space.bytes \in Memories(n)
  PROVE  StoreUnaligned(i, s, space) \in Results(n)
<1> DEFINE addr == Signed(s.cpu.r[i.rs] + i.extra)
           exception == Translate(space, addr, 4)
           value == s.cpu.r[i.rt]
           merged == IF i.opCode = "SWL" THEN value
                     ELSE (ReadMem(space, addr, 4) % (Byte * Half)) + ShiftLeft(value, 3 * ByteBits)
<1>1. addr \in Int /\ value \in Int
  <2>1. s.cpu.r[i.rs] + i.extra \in Int
    BY WordIsInt DEF FieldsFit
  <2>2. QED
    BY <2>1, SignedWord, WordIsInt
<1>3. /\ addr % 4 # 0 => StoreUnaligned(i, s, space) = Stops(s, "abort", 0)
      /\ addr % 4 = 0 /\ exception # "NoException" =>
           StoreUnaligned(i, s, space) = Stops(s, exception, addr)
      /\ addr % 4 = 0 /\ exception = "NoException" =>
           StoreUnaligned(i, s, space) = [s EXCEPT !.bytes = WriteMem(space, addr, 4, merged)]
  BY DEF StoreUnaligned
<1> HIDE DEF addr, value
<1>4. CASE addr % 4 # 0
  <2>1. Stops(s, "abort", 0) \in Results(n)
    BY StopsType, 0 \in Int DEF Outcomes
  <2>2. QED
    BY <2>1, <1>3, <1>4
<1>5. CASE addr % 4 = 0 /\ exception # "NoException"
  <2>1. Stops(s, exception, addr) \in Results(n)
    BY <1>1, <1>5, StopsType, TranslateIs
  <2>2. QED
    BY <2>1, <1>3, <1>5
<1>6. CASE addr % 4 = 0 /\ exception = "NoException"
  <2>1. ReadMem(space, addr, 4) \in Int
    BY <1>1, <1>6, ReadType
  <2>2. merged \in Int
    <3> DEFINE bh == Byte * Half
               x == ReadMem(space, addr, 4)
               y == ShiftLeft(value, 3 * ByteBits)
    <3>1. bh \in Nat \ {0}
      BY Sizes
    <3>2. 3 * ByteBits \in Nat
      BY MipsAssumption
    <3>3. y \in Int /\ x \in Int
      BY <3>2, <1>1, <2>1, ShiftLeftWord
    <3>4. merged = IF i.opCode = "SWL" THEN value ELSE (x % bh) + y
      OBVIOUS
    <3> HIDE DEF bh, x, y, merged
    <3>5. QED
      BY <3>1, <3>3, <3>4, <1>1
  <2> HIDE DEF merged
  <2>3. WriteMem(space, addr, 4, merged) \in Memories(n)
    BY <2>2, <1>1, WriteType
  <2>4. [s EXCEPT !.bytes = WriteMem(space, addr, 4, merged)] \in Results(n)
    BY <2>3, BytesUpdate
  <2>5. QED
    BY <2>4, <1>3, <1>6
<1>7. QED
  BY <1>4, <1>5, <1>6

LEMMA ShiftType ==
  ASSUME NEW n, NEW s \in Results(n), NEW i, FieldsFit(i), i.rt \in Registers,
         i.opCode \in {"SLL", "SLLV", "SRA", "SRAV", "SRL", "SRLV"}
  PROVE  Shift(i, s) \in Results(n)
<1> DEFINE b == s.cpu.r[i.rt]
           count == IF i.opCode \in {"SLLV", "SRAV", "SRLV"} THEN s.cpu.r[i.rs] % WordBits
                    ELSE i.extra
<1>1. b \in Int /\ i.rd \in Registers /\ s.cpu.r[i.rs] \in Int
  BY WordIsInt DEF FieldsFit
<1>2. count \in Nat
  <2>1. WordBits \in Nat \ {0}
    BY Sizes
  <2>2. s.cpu.r[i.rs] % WordBits \in Nat
    BY <1>1, <2>1
  <2>3. i.opCode \notin {"SLLV", "SRAV", "SRLV"} => i.extra \in Nat
    BY DEF FieldsFit
  <2>4. QED
    BY <2>2, <2>3
<1>3. Shift(i, s) \in {Sets(s, i.rd, ShiftLeft(b, count)), Sets(s, i.rd, ShiftRight(b, count))}
  BY DEF Shift
<1> HIDE DEF b, count
<1>4. QED
  BY <1>1, <1>2, <1>3, ShiftLeftWord, SetsType

LEMMA SetLessType ==
  ASSUME NEW n, NEW s \in Results(n), NEW i, FieldsFit(i), i.rt \in Registers
  PROVE  SetLess(i, s) \in Results(n)
<1>1. i.rd \in Registers
  BY DEF FieldsFit
<1>2. SetLess(i, s) \in {Sets(s, reg, v) : reg \in {i.rd, i.rt}, v \in {0, 1}}
  BY DEF SetLess
<1>3. QED
  BY <1>1, <1>2, SetsType

LEMMA SubuType ==
  ASSUME NEW n, NEW s \in Results(n), NEW i, FieldsFit(i), i.rt \in Registers
  PROVE  Subu(i, s) \in Results(n)
<1>1. s.cpu.r[i.rs] - s.cpu.r[i.rt] \in Int /\ i.rd \in Registers
  BY WordIsInt DEF FieldsFit
<1>2. QED
  BY <1>1, SetsType DEF Subu

LEMMA XorXoriType ==
  ASSUME NEW n, NEW s \in Results(n), NEW i, FieldsFit(i), i.rt \in Registers
  PROVE  XorXori(i, s) \in Results(n)
<1>1. \A x, y : BitXor(x, y) \in Int
  BY BitsWord, SmallWords DEF BitXor
<1>2. i.rd \in Registers
  BY DEF FieldsFit
<1>3. XorXori(i, s) \in {Sets(s, i.rd, BitXor(s.cpu.r[i.rs], s.cpu.r[i.rt])),
                         Sets(s, i.rt, BitXor(s.cpu.r[i.rs], i.extra % Half))}
  BY DEF XorXori
<1>4. QED
  BY <1>1, <1>2, <1>3, SetsType

\* The instruction OneInstruction is at, worked out.
LEMMA ExecuteType ==
  ASSUME NEW n, MemorySize(n), NEW s \in Results(n), NEW i, FieldsFit(i),
         i.opCode \in DirectNames \cup SpecialNames \cup BranchNames,
         NEW space, space.bytes \in Memories(n)
  PROVE  Execute(i, s, space) \in Results(n)
<1>1. i.opCode \notin BranchNames => i.rt \in Registers
  BY DEF FieldsFit, BranchNames
<1>2. CASE i.opCode \in {"ADD", "ADDI"}
  <2>1. Execute(i, s, space) = AddTrapping(i, s)
    BY <1>2 DEF Execute
  <2>2. i.rt \in Registers
    BY <1>1, <1>2 DEF BranchNames
  <2>3. QED
    BY <2>1, <2>2, AddTrappingType
<1>3. CASE i.opCode \in {"ADDIU", "ADDU", "AND", "ANDI"}
  <2>1. Execute(i, s, space) = AddAnd(i, s)
    BY <1>3 DEF Execute
  <2>2. i.rt \in Registers
    BY <1>1, <1>3 DEF BranchNames
  <2>3. QED
    BY <2>1, <2>2, <1>3, AddAndType
<1>4. CASE i.opCode \in {"BEQ", "BGEZ", "BGEZAL", "BGTZ", "BLEZ", "BLTZ", "BLTZAL", "BNE"}
  <2>1. Execute(i, s, space) = Branch(i, s)
    BY <1>4 DEF Execute
  <2>2. QED
    BY <2>1, BranchType
<1>5. CASE i.opCode \in {"DIV", "DIVU"}
  <2>1. Execute(i, s, space) = Divide(i, s)
    BY <1>5 DEF Execute
  <2>2. i.rt \in Registers
    BY <1>1, <1>5 DEF BranchNames
  <2>3. QED
    BY <2>1, <2>2, DivideType
<1>6. CASE i.opCode \in {"J", "JAL", "JALR", "JR"}
  <2>1. Execute(i, s, space) = Jump(i, s)
    BY <1>6 DEF Execute
  <2>2. QED
    BY <2>1, JumpType
<1>7. CASE i.opCode \in {"LB", "LBU", "LH", "LHU", "LW"}
  <2>1. Execute(i, s, space) = Load(i, s, space)
    BY <1>7 DEF Execute
  <2>2. i.rt \in Registers
    BY <1>1, <1>7 DEF BranchNames
  <2>3. QED
    BY <2>1, <2>2, <1>7, LoadType
<1>8. CASE i.opCode = "LUI"
  <2>1. Execute(i, s, space) = Lui(i, s)
    BY <1>8 DEF Execute
  <2>2. i.rt \in Registers
    BY <1>1, <1>8 DEF BranchNames
  <2>3. QED
    BY <2>1, <2>2, LuiType
<1>9. CASE i.opCode \in {"LWL", "LWR"}
  <2>1. Execute(i, s, space) = LoadUnaligned(i, s, space)
    BY <1>9 DEF Execute
  <2>2. i.rt \in Registers
    BY <1>1, <1>9 DEF BranchNames
  <2>3. QED
    BY <2>1, <2>2, LoadUnalignedType
<1>10. CASE i.opCode \in {"MFHI", "MFLO", "MTHI", "MTLO"}
  <2>1. Execute(i, s, space) = MoveHiLo(i, s)
    BY <1>10 DEF Execute
  <2>2. QED
    BY <2>1, <1>10, MoveHiLoType
<1>11. CASE i.opCode \in {"MULT", "MULTU"}
  <2>1. Execute(i, s, space) = Multiply(i, s)
    BY <1>11 DEF Execute
  <2>2. i.rt \in Registers
    BY <1>1, <1>11 DEF BranchNames
  <2>3. QED
    BY <2>1, <2>2, MultiplyType
<1>12. CASE i.opCode \in {"NOR", "OR", "ORI"}
  <2>1. Execute(i, s, space) = OrNor(i, s)
    BY <1>12 DEF Execute
  <2>2. i.rt \in Registers
    BY <1>1, <1>12 DEF BranchNames
  <2>3. QED
    BY <2>1, <2>2, <1>12, OrNorType
<1>13. CASE i.opCode \in {"SB", "SH", "SW"}
  <2>1. Execute(i, s, space) = Store(i, s, space)
    BY <1>13 DEF Execute
  <2>2. i.rt \in Registers
    BY <1>1, <1>13 DEF BranchNames
  <2>3. QED
    BY <2>1, <2>2, <1>13, StoreType
<1>14. CASE i.opCode \in {"SLL", "SLLV", "SRA", "SRAV", "SRL", "SRLV"}
  <2>1. Execute(i, s, space) = Shift(i, s)
    BY <1>14 DEF Execute
  <2>2. i.rt \in Registers
    BY <1>1, <1>14 DEF BranchNames
  <2>3. QED
    BY <2>1, <2>2, <1>14, ShiftType
<1>15. CASE i.opCode \in {"SLT", "SLTI", "SLTIU", "SLTU"}
  <2>1. Execute(i, s, space) = SetLess(i, s)
    BY <1>15 DEF Execute
  <2>2. i.rt \in Registers
    BY <1>1, <1>15 DEF BranchNames
  <2>3. QED
    BY <2>1, <2>2, SetLessType
<1>16. CASE i.opCode = "SUB"
  <2>1. Execute(i, s, space) = SubTrapping(i, s)
    BY <1>16 DEF Execute
  <2>2. i.rt \in Registers
    BY <1>1, <1>16 DEF BranchNames
  <2>3. QED
    BY <2>1, <2>2, SubTrappingType
<1>17. CASE i.opCode = "SUBU"
  <2>1. Execute(i, s, space) = Subu(i, s)
    BY <1>17 DEF Execute
  <2>2. i.rt \in Registers
    BY <1>1, <1>17 DEF BranchNames
  <2>3. QED
    BY <2>1, <2>2, SubuType
<1>18. CASE i.opCode \in {"SWL", "SWR"}
  <2>1. Execute(i, s, space) = StoreUnaligned(i, s, space)
    BY <1>18 DEF Execute
  <2>2. i.rt \in Registers
    BY <1>1, <1>18 DEF BranchNames
  <2>3. QED
    BY <2>1, <2>2, StoreUnalignedType
<1>19. CASE i.opCode = "SYSCALL"
  <2>1. Execute(i, s, space) = Stops(s, "Syscall", 0)
    BY <1>19 DEF Execute
  <2>2. QED
    BY <2>1, StopsType, 0 \in Int DEF Outcomes
<1>20. CASE i.opCode \in {"XOR", "XORI"}
  <2>1. Execute(i, s, space) = XorXori(i, s)
    BY <1>20 DEF Execute
  <2>2. i.rt \in Registers
    BY <1>1, <1>20 DEF BranchNames
  <2>3. QED
    BY <2>1, <2>2, XorXoriType
<1>21. CASE i.opCode \in {"RES", "UNIMP"}
  <2>1. Execute(i, s, space) = Stops(s, "IllegalInstr", 0)
    BY <1>21 DEF Execute
  <2>2. QED
    BY <2>1, StopsType, 0 \in Int DEF Outcomes
<1>22. QED
  BY <1>2, <1>3, <1>4, <1>5, <1>6, <1>7, <1>8, <1>9, <1>10, <1>11, <1>12, <1>13, <1>14,
     <1>15, <1>16, <1>17, <1>18, <1>19, <1>20, <1>21 DEF DirectNames, SpecialNames, BranchNames

\* A memory a program may have, with code for every word of it.
Runnable(code, space, n) ==
  /\ MemorySize(n)
  /\ space.bytes \in Memories(n)
  /\ \A a \in 0 .. n - 1 : a % 4 = 0 => code[a] \in Instructions

\* What an instruction starts from.
LEMMA StartedType ==
  ASSUME NEW c \in Cpus, NEW n, NEW space, space.bytes \in Memories(n)
  PROVE  Started(c, space) \in Results(n)
<1>1. c.nextPC \in Int
  BY SmallWords DEF Cpus
<1>2. Signed(c.nextPC + 4) \in Words
  BY <1>1, SignedWord
<1>3. 0 \in Registers /\ 0 \in Words
  BY MipsAssumption, SmallWords
<1> DEFINE v == Signed(c.nextPC + 4)
<1>4. v \in Words
  BY <1>2
<1>5. Started(c, space) =
        [outcome |-> "done", addr |-> 0, cpu |-> c, bytes |-> space.bytes,
         pcAfter |-> v, load |-> 0, loadValue |-> 0]
  BY DEF Started
<1> HIDE DEF v
<1>6. QED
  BY <1>3, <1>4, <1>5 DEF Results, Outcomes

\* After a delayed load the registers are typed, and the first of them is 0.
LEMMA DelayedLoadType ==
  ASSUME NEW c \in Cpus, NEW reg \in Registers, NEW value \in Words
  PROVE  /\ DelayedLoad(c, reg, value) \in Cpus
         /\ DelayedLoad(c, reg, value).load = reg
         /\ DelayedLoad(c, reg, value).loadValue = value
         /\ DelayedLoad(c, reg, value).r[0] = 0
<1> DEFINE f == [[c.r EXCEPT ![c.load] = c.loadValue] EXCEPT ![0] = 0]
<1>1. 0 \in Registers /\ 0 \in Words
  BY MipsAssumption, SmallWords
<1>2. /\ c.r \in [Registers -> Words] /\ c.load \in Registers /\ c.loadValue \in Words
      /\ c.hi \in Words /\ c.lo \in Words /\ c.pc \in Words /\ c.nextPC \in Words
      /\ c = [r |-> c.r, hi |-> c.hi, lo |-> c.lo, pc |-> c.pc, nextPC |-> c.nextPC,
              load |-> c.load, loadValue |-> c.loadValue]
  BY DEF Cpus
<1>3. f \in [Registers -> Words] /\ f[0] = 0
  BY <1>1, <1>2
<1>4. DelayedLoad(c, reg, value) = [c EXCEPT !.r = f, !.load = reg, !.loadValue = value]
  BY DEF DelayedLoad
<1> HIDE DEF f
<1>5. DelayedLoad(c, reg, value) =
        [r |-> f, hi |-> c.hi, lo |-> c.lo, pc |-> c.pc, nextPC |-> c.nextPC,
         load |-> reg, loadValue |-> value]
  BY <1>2, <1>4
<1>6. QED
  BY <1>2, <1>3, <1>5 DEF Cpus

\* Every instruction leaves words in the registers and bytes in memory.
LEMMA OneInstructionType ==
  ASSUME NEW code, NEW c \in Cpus, NEW space, NEW n, Runnable(code, space, n)
  PROVE  OneInstruction(code, c, space) \in Results(n)
<1> DEFINE s == Execute(Decode(code[Unsigned(c.pc)]), Started(c, space), space)
           fetch == Translate(space, c.pc, 4)
<1>1. Started(c, space) \in Results(n)
  BY StartedType DEF Runnable
<1>2. c.pc \in Int /\ c.nextPC \in Words
  BY SmallWords DEF Cpus
<1>3. CASE fetch # "NoException"
  <2>1. OneInstruction(code, c, space) = Stops(Started(c, space), fetch, c.pc)
    BY <1>3 DEF OneInstruction, Commit
  <2>2. QED
    BY <2>1, <1>1, <1>2, <1>3, StopsType, TranslateIs
<1>4. CASE fetch = "NoException"
  <2>1. c.pc % 4 = 0 /\ Unsigned(c.pc) \in 0 .. n - 1
    <3>1. DOMAIN space.bytes = 0 .. n - 1
      BY DEF Runnable, Memories
    <3>2. c.pc % 4 = 0 /\ Unsigned(c.pc) \in DOMAIN space.bytes
      BY <1>4 DEF Translate
    <3>3. QED
      BY <3>1, <3>2
  <2>2. Unsigned(c.pc) % 4 = 0
    BY <2>1, <1>2, SignedWord
  <2>3. code[Unsigned(c.pc)] \in Instructions
    BY <2>1, <2>2 DEF Runnable
  <2>4. s \in Results(n)
    <3> DEFINE i == Decode(code[Unsigned(c.pc)])
    <3>1. FieldsFit(i) /\ i.opCode \in DirectNames \cup SpecialNames \cup BranchNames
      BY <2>3, DecodeType
    <3> HIDE DEF i
    <3>2. Execute(i, Started(c, space), space) \in Results(n)
      BY <3>1, <1>1, ExecuteType DEF Runnable
    <3>3. QED
      BY <3>2 DEF i
  <2>5. /\ s.outcome # "done" =>
             OneInstruction(code, c, space) = [s EXCEPT !.cpu = c, !.bytes = space.bytes]
        /\ s.outcome = "done" =>
             OneInstruction(code, c, space) =
               [s EXCEPT !.cpu = [DelayedLoad(s.cpu, s.load, s.loadValue)
                                    EXCEPT !.pc = c.nextPC, !.nextPC = s.pcAfter]]
    BY <1>4 DEF OneInstruction, Commit
  <2> HIDE DEF s
  <2>6. CASE s.outcome # "done"
    <3>1. [s EXCEPT !.cpu = c, !.bytes = space.bytes] \in Results(n)
      BY <2>4 DEF Results, Runnable
    <3>2. QED
      BY <3>1, <2>5, <2>6
  <2>7. CASE s.outcome = "done"
    <3> DEFINE d == DelayedLoad(s.cpu, s.load, s.loadValue)
               e == [d EXCEPT !.pc = c.nextPC, !.nextPC = s.pcAfter]
    <3>1. s.cpu \in Cpus /\ s.load \in Registers /\ s.loadValue \in Words /\ s.pcAfter \in Words
      BY <2>4 DEF Results
    <3>2. d \in Cpus
      BY <3>1, DelayedLoadType
    <3>3. OneInstruction(code, c, space) = [s EXCEPT !.cpu = e]
      BY <2>5, <2>7
    <3> HIDE DEF d
    <3>4. e \in Cpus
      BY <3>1, <3>2, <1>2 DEF Cpus
    <3> HIDE DEF e
    <3>5. [s EXCEPT !.cpu = e] \in Results(n)
      BY <3>4, <2>4 DEF Results
    <3>6. QED
      BY <3>3, <3>5
  <2>8. QED
    BY <2>6, <2>7
<1>5. QED
  BY <1>3, <1>4

\* The program counter moves to a word.
LEMMA IncreaseType ==
  ASSUME NEW c \in Cpus
  PROVE  /\ increase_program_counter(c) \in Cpus
         /\ increase_program_counter(c).load = c.load
<1>1. c.nextPC \in Int /\ c.nextPC \in Words
  BY SmallWords DEF Cpus
<1> DEFINE v == Signed(c.nextPC + 4)
<1>2. v \in Words
  BY <1>1, SignedWord
<1>3. increase_program_counter(c) = [c EXCEPT !.pc = c.nextPC, !.nextPC = v]
  BY DEF increase_program_counter
<1> HIDE DEF v
<1>4. QED
  BY <1>1, <1>2, <1>3 DEF Cpus

\* A program starts with words in its registers.
LEMMA InitRegistersType ==
  ASSUME NEW space, NEW n, MemorySize(n), space.bytes \in Memories(n)
  PROVE  InitRegisters(space) \in Cpus /\ InitRegisters(space).load = 0
<1>1. 0 \in Words /\ 0 \in Registers
  BY SmallWords, MipsAssumption
<1>2. 4 \in Words
  <2>1. Word >= 2 * Half /\ Half >= 2 * Byte /\ Byte >= 2 /\ Byte \in Nat /\ Half \in Nat
    BY Sizes
  <2>2. Half = Byte * Byte /\ Word = Half * Half
    BY DEF Half, Word
  <2>3. Byte * Byte >= 4
    BY <2>1
  <2>4. Half >= 4
    BY <2>2, <2>3
  <2>5. Half * Half >= 16
    BY <2>1, <2>4
  <2>6. Word >= 16 /\ Word = 2 * (Word \div 2) /\ Word \div 2 \in Nat
    BY <2>2, <2>5, Sizes
  <2> DEFINE v == Word \div 2
  <2>7. v >= 8 /\ v \in Nat
    BY <2>6
  <2> HIDE DEF v
  <2>8. 4 \in -v .. v - 1
    BY <2>7
  <2>9. QED
    BY <2>8 DEF Words, v
<1>3. Cardinality(DOMAIN space.bytes) \in Int
  <2>1. DOMAIN space.bytes = 0 .. n - 1 /\ n \in Int
    BY Sizes DEF Memories, MemorySize
  <2>2. IsFiniteSet(0 .. n - 1)
    <3>1. 0 \in Int /\ n - 1 \in Int
      BY <2>1
    <3>2. QED
      BY <3>1, FS_Interval
  <2>3. QED
    BY <2>1, <2>2, FS_CardinalityType
<1> DEFINE v == Signed(Cardinality(DOMAIN space.bytes) - 16)
<1>4. v \in Words
  BY <1>3, SignedWord
<1>5. InitRegisters(space) =
        [r |-> [x \in Registers |-> IF x = 29 THEN v ELSE 0],
         hi |-> 0, lo |-> 0, pc |-> 0, nextPC |-> 4, load |-> 0, loadValue |-> 0]
  BY DEF InitRegisters
<1> HIDE DEF v
<1>6. QED
  BY <1>1, <1>2, <1>4, <1>5 DEF Cpus

-------------------------------------------------------------------------------
(* The invariant of the machine.                                           *)

Places ==
  {"root", "begin", "user", "pageIn", "exit", "finished", "halt", "unexpected", "again", "done",
   "fail", "fill", "put", "putAsleep", "putChar", "putDone", "putRelease", "get", "getAsleep",
   "getWait", "getChar", "getRelease", "drain"}

\* The threads and the registers.
Registered == /\ cpu \in Cpus /\ saved \in [Threads -> Cpus]
              /\ current \in Threads /\ addressSpace \in Threads /\ ready \in Seq(Threads)

\* The programs, and where they are.
Programs == /\ setup \in 1 .. Len(Setups)
            /\ place \in [Threads -> Places]
            /\ fault \in [Threads -> [page : Int, back : {"user", "fill", "drain"}]]
            /\ buf \in [Threads -> Seq(Int)]
            /\ DOMAIN bytes = Threads
            /\ \A t \in Threads : \E n \in 0 .. Word : Runnable(Setups[setup].code[t], Space(t), n)

\* The kinds of interrupts.
Kinds == {"timer", "read", "write"}

\* The devices, and who waits for them.
Devices == /\ pending \in Seq(Elements(Kinds))
           /\ putBusy \in BOOLEAN
           /\ incoming \in Int /\ input \in Seq(Int \ {EOF}) /\ taken \in Seq(Int)
           /\ semaphores \in [{"readAvail", "writeDone"} -> [value : Nat, queue : Seq(Threads)]]
           /\ locks \in [{"readLock", "writeLock"} ->
                           [holder : {FREE} \cup {Name[t] : t \in Threads},
                            queue : Seq(Threads)]]

MachineTyped == Registered /\ Programs /\ Devices

\* A load is pending only in the program that runs, and a thread that is asked
\* to yield is between two of its steps.
Loads == /\ NoLoadInKernel
         /\ yieldOnReturn => doing \in {"due", "idling"}
         /\ doing \in {"idle", "idling"} => place[current] # "user"

-------------------------------------------------------------------------------
(* The dispatcher.                                                         *)

\* The dispatcher takes the head of the ready list.
LEMMA DispatchType ==
  ASSUME Registered, NEW list \in Seq(Threads), list # <<>>, NEW yielding,
         Dispatch(list, yielding)
  PROVE  Registered'
<1>1. Head(list) \in Threads /\ Tail(list) \in Seq(Threads)
  BY HeadTailProperties
<1>2. QED
  BY <1>1 DEF Dispatch, Run, Registered

\* A thread that sleeps leaves the processor to another, or to nobody.
LEMMA SleepType ==
  ASSUME Registered, Sleep
  PROVE  Registered'
<1>1. CASE ready # <<>> /\ Dispatch(ready, inYield)
  BY <1>1, DispatchType DEF Registered
<1>2. CASE ready = <<>> /\ doing' = "idle" /\ UNCHANGED <<dispatch, cpu>>
  BY <1>2 DEF Registered, dispatch
<1>3. QED
  BY <1>1, <1>2 DEF Sleep

\* A thread that yields goes to the end of the ready list.
LEMMA YieldType ==
  ASSUME Registered, Yield
  PROVE  Registered'
<1>1. CASE ready # <<>> /\ Dispatch(Append(ready, current), inYield \cup {current})
  <2>1. Append(ready, current) \in Seq(Threads) /\ Append(ready, current) # <<>>
    BY AppendProperties DEF Registered
  <2>2. QED
    BY <1>1, <2>1, DispatchType
<1>2. CASE ready = <<>> /\ doing' = "tick" /\ UNCHANGED <<dispatch, cpu>>
  BY <1>2 DEF Registered, dispatch
<1>3. QED
  BY <1>1, <1>2 DEF Yield

\* What the program that runs is about to do.
LEMMA ResultType ==
  ASSUME MachineTyped
  PROVE  \E n \in 0 .. Word : /\ Runnable(Setups[setup].code[addressSpace], Space(addressSpace), n)
                              /\ Result \in Results(n)
<1>1. PICK n \in 0 .. Word : Runnable(Setups[setup].code[addressSpace], Space(addressSpace), n)
  BY DEF MachineTyped, Programs, Registered
<1>2. Result \in Results(n)
  BY <1>1, OneInstructionType DEF Result, MachineTyped, Registered
<1>3. QED
  BY <1>1, <1>2

-------------------------------------------------------------------------------
(* The registers and the dispatcher's state stay typed.                    *)

\* The registers after the delayed load are registers.
LEMMA FlushedType ==
  ASSUME cpu \in Cpus
  PROVE  /\ DelayedLoad(cpu, 0, 0) \in Cpus
         /\ DelayedLoad(cpu, 0, 0).load = 0 /\ DelayedLoad(cpu, 0, 0).loadValue = 0
         /\ DelayedLoad(cpu, 0, 0).r[0] = 0
<1>1. 0 \in Registers /\ 0 \in Words
  BY MipsAssumption, SmallWords
<1>2. QED
  BY <1>1, DelayedLoadType

\* A lock or a semaphore leaves the processor alone, or gives it up.
LEMMA AcquireIs ==
  ASSUME NEW t, NEW l, NEW p, NEW asleep, NEW next, Acquire(t, l, p, asleep, next)
  PROVE  UNCHANGED <<cpu, dispatch>> \/ Sleep
  BY DEF Acquire, TicksTo, SleepsAt

\* P takes a unit or sleeps.
LEMMA PIs ==
  ASSUME NEW t, NEW s, NEW p, NEW next, P(t, s, p, next)
  PROVE  UNCHANGED <<cpu, dispatch>> \/ Sleep
  BY DEF P, TicksTo, SleepsAt

\* Release wakes the head of the queue.
LEMMA ReleasesReady ==
  ASSUME NEW t, NEW l \in {"readLock", "writeLock"}, Registered, Devices, Releases(t, l)
  PROVE  ready' \in Seq(Threads)
<1>1. locks[l].queue \in Seq(Threads) /\ ready \in Seq(Threads)
  BY DEF Devices, Registered
<1>2. locks[l].queue # <<>> => Head(locks[l].queue) \in Threads
  BY <1>1, HeadTailProperties
<1>3. QED
  BY <1>1, <1>2, AppendProperties DEF Releases

\* V wakes the head of the queue.
LEMMA VReady ==
  ASSUME NEW s \in {"readAvail", "writeDone"}, Registered, Devices, V(s)
  PROVE  ready' \in Seq(Threads)
<1>1. semaphores[s].queue \in Seq(Threads) /\ ready \in Seq(Threads)
  BY DEF Devices, Registered
<1>2. semaphores[s].queue # <<>> => Head(semaphores[s].queue) \in Threads
  BY <1>1, HeadTailProperties
<1>3. QED
  BY <1>1, <1>2, AppendProperties DEF V

\* Registers keep their types, whoever has the processor.
LEMMA RegisteredStep ==
  ASSUME MachineTyped, [Next]_vars
  PROVE  Registered'
<1> USE DEF MachineTyped
<1> DEFINE flushed == DelayedLoad(cpu, 0, 0)
<1>1. cpu \in Cpus /\ saved \in [Threads -> Cpus] /\ current \in Threads
      /\ addressSpace \in Threads /\ ready \in Seq(Threads)
  BY DEF Registered
<1>2. flushed \in Cpus
  BY <1>1, FlushedType
<1> HIDE DEF flushed
<1>3. UNCHANGED <<cpu, dispatch>> => Registered'
  BY <1>1 DEF Registered, dispatch
<1>4. cpu' = flushed /\ UNCHANGED dispatch => Registered'
  BY <1>1, <1>2 DEF Registered, dispatch
<1>5. CASE Hardware
  <2>1. CASE OneTick
    BY <2>1, <1>3 DEF OneTick
  <2>2. CASE TimerExpired
    BY <2>2, <1>1, <1>2 DEF TimerExpired, Fires, Registered, flushed
  <2>3. CASE ReturnFromTick
    BY <2>3, <1>3 DEF ReturnFromTick
  <2>4. CASE YieldInTick
    BY <2>4, YieldType DEF YieldInTick
  <2>5. CASE Idle
    BY <2>5, <1>3 DEF Idle
  <2>6. CASE IdleReturns
    BY <2>6, SleepType DEF IdleReturns
  <2>7. CASE WriteDone
    <3>1. ready' \in Seq(Threads)
      BY <2>7, VReady DEF WriteDone
    <3>2. QED
      BY <3>1, <2>7, <1>1, <1>2 DEF WriteDone, Fires, Registered, flushed
  <2>8. CASE ReadPoll
    <3>1. ready' \in Seq(Threads)
      BY <2>8, <1>1, VReady DEF ReadPoll
    <3>2. QED
      BY <3>1, <2>8, <1>1, <1>2 DEF ReadPoll, Fires, Registered, flushed
  <2>9. QED
    BY <1>5, <2>1, <2>2, <2>3, <2>4, <2>5, <2>6, <2>7, <2>8 DEF Hardware
<1>6. ASSUME NEW t \in Threads, Thread(t)
      PROVE  Registered'
  <2>1. CASE Root(t)
    BY <2>1, <1>3 DEF Root
  <2>2. CASE Begin(t)
    <3>1. PICK n \in 0 .. Word : Runnable(Setups[setup].code[t], Space(t), n)
      BY DEF Programs
    <3>2. InitRegisters(Space(t)) \in Cpus
      BY <3>1, InitRegistersType DEF Runnable
    <3>3. QED
      BY <3>2, <2>2, <1>1 DEF Begin, Registered
  <2>3. CASE Instruction(t)
    <3>1. Result.cpu \in Cpus
      BY ResultType DEF Results
    <3>2. QED
      BY <3>1, <2>3, <1>1 DEF Instruction, TicksTo, Registered, dispatch
  <2>4. CASE HostStops(t)
    BY <2>4, <1>3 DEF HostStops, Aborts
  <2>5. CASE UserFault(t)
    BY <2>5, <1>4 DEF UserFault, PageFault, Raises, flushed
  <2>6. CASE PageIn(t)
    BY <2>6, <1>3 DEF PageIn
  <2>7. CASE Killed(t)
    BY <2>7, <1>4 DEF Killed, Traps, Raises, flushed
  <2>8. CASE Exit(t)
    BY <2>8, SleepType DEF Exit, SleepsAt
  <2>9. CASE Syscall(t)
    BY <2>9, <1>4 DEF Syscall, Traps, Raises, flushed
  <2>10. CASE Stop(t)
    BY <2>10, <1>3 DEF Stop
  <2>11. CASE ReturnAgain(t)
    BY <2>11, <1>3 DEF ReturnAgain, Return
  <2>12. CASE ReturnDone(t)
    <3>1. increase_program_counter(cpu) \in Cpus
      BY <1>1, IncreaseType
    <3>2. QED
      BY <3>1, <2>12, <1>1 DEF ReturnDone, Return, Registered, dispatch
  <2>13. CASE ReturnFail(t)
    <3> DEFINE c == [cpu EXCEPT !.r[2] = 0]
    <3>1. c \in Cpus
      BY <1>1, SmallWords, MipsAssumption DEF Cpus
    <3>2. increase_program_counter(c) \in Cpus
      BY <3>1, IncreaseType
    <3>3. QED
      BY <3>2, <2>13, <1>1 DEF ReturnFail, Return, Registered, dispatch
  <2>14. CASE FillBuffer(t)
    <3>1. UNCHANGED <<cpu, dispatch>> \/ (cpu' = flushed /\ UNCHANGED dispatch)
      BY <2>14 DEF FillBuffer, PageFault, Raises, Traps, Continues, flushed
    <3>2. QED
      BY <3>1, <1>3, <1>4
  <2>15. CASE PutLast(t)
    BY <2>15, <1>3 DEF PutLast, Continues
  <2>16. CASE PutAcquire(t)
    BY <2>16, <1>3, AcquireIs, SleepType DEF PutAcquire
  <2>17. CASE PutChar(t)
    BY <2>17, <1>3 DEF PutChar, Continues
  <2>18. CASE PutFails(t)
    BY <2>18, <1>3 DEF PutFails, Aborts
  <2>19. CASE PutWaits(t)
    BY <2>19, <1>3, PIs, SleepType DEF PutWaits
  <2>20. CASE PutRelease(t)
    <3>1. ready' \in Seq(Threads)
      BY <2>20, ReleasesReady DEF PutRelease
    <3>2. QED
      BY <3>1, <2>20, <1>1 DEF PutRelease, Registered
  <2>21. CASE GetLast(t)
    BY <2>21, <1>3 DEF GetLast, Continues
  <2>22. CASE GetAcquire(t)
    BY <2>22, <1>3, AcquireIs, SleepType DEF GetAcquire
  <2>23. CASE GetWaits(t)
    BY <2>23, <1>3, PIs, SleepType DEF GetWaits
  <2>24. CASE GetChar(t)
    BY <2>24, <1>3 DEF GetChar, Continues
  <2>25. CASE GetRelease(t)
    <3>1. ready' \in Seq(Threads)
      BY <2>25, ReleasesReady DEF GetRelease
    <3>2. QED
      BY <3>1, <2>25, <1>1 DEF GetRelease, Registered
  <2>26. CASE DrainBuffer(t)
    <3> DEFINE c == [cpu EXCEPT !.r[2] = cpu.r[5]]
    <3>1. c \in Cpus
      BY <1>1, MipsAssumption DEF Cpus
    <3>2. \/ cpu' = c /\ UNCHANGED dispatch
          \/ UNCHANGED <<cpu, dispatch>>
          \/ cpu' = flushed /\ UNCHANGED dispatch
      BY <2>26 DEF DrainBuffer, PageFault, Raises, Traps, Continues, flushed
    <3> HIDE DEF c
    <3>3. QED
      BY <3>1, <3>2, <1>1, <1>3, <1>4 DEF Registered, dispatch
  <2>27. QED
    BY <1>6, <2>1, <2>2, <2>3, <2>4, <2>5, <2>6, <2>7, <2>8, <2>9, <2>10, <2>11, <2>12, <2>13,
       <2>14, <2>15, <2>16, <2>17, <2>18, <2>19, <2>20, <2>21, <2>22, <2>23, <2>24, <2>25, <2>26
       DEF Thread
<1>7. CASE UNCHANGED vars
  BY <1>3, <1>7 DEF vars
<1>8. QED
  BY <1>5, <1>6, <1>7 DEF Next

-------------------------------------------------------------------------------
(* The programs and their memories stay typed.                             *)

\* Places, page faults and buffers that keep their types, and the memory as
\* it was.
LEMMA ProgramsKept ==
  ASSUME Programs, setup' = setup, bytes' = bytes, place' \in [Threads -> Places],
         fault' \in [Threads -> [page : Int, back : {"user", "fill", "drain"}]],
         buf' \in [Threads -> Seq(Int)]
  PROVE  Programs'
<1>1. ASSUME NEW t \in Threads
      PROVE  \E n \in 0 .. Word : Runnable(Setups[setup'].code[t], Space(t)', n)
  <2>1. PICK n \in 0 .. Word : Runnable(Setups[setup].code[t], Space(t), n)
    BY DEF Programs
  <2>2. Runnable(Setups[setup'].code[t], Space(t)', n)
    BY <2>1 DEF Runnable, Space
  <2>3. QED
    BY <2>2
<1>2. QED
  BY <1>1 DEF Programs

\* A program's memory that changes and stays a memory of its size.
LEMMA ProgramsWritten ==
  ASSUME Programs, NEW u \in Threads, NEW n \in 0 .. Word, NEW b \in Memories(n),
         Runnable(Setups[setup].code[u], Space(u), n),
         setup' = setup, bytes' = [bytes EXCEPT ![u] = b], place' \in [Threads -> Places],
         fault' = fault, buf' \in [Threads -> Seq(Int)]
  PROVE  Programs'
<1>1. ASSUME NEW t \in Threads
      PROVE  \E m \in 0 .. Word : Runnable(Setups[setup'].code[t], Space(t)', m)
  <2>1. CASE t = u
    <3>1. Space(t)'.bytes = b
      BY <2>1 DEF Space, Programs
    <3>2. Runnable(Setups[setup'].code[t], Space(t)', n)
      BY <3>1, <2>1 DEF Runnable
    <3>3. QED
      BY <3>2
  <2>2. CASE t # u
    <3>1. PICK m \in 0 .. Word : Runnable(Setups[setup].code[t], Space(t), m)
      BY DEF Programs
    <3>2. Space(t)'.bytes = Space(t).bytes
      BY <2>2 DEF Space, Programs
    <3>3. Runnable(Setups[setup'].code[t], Space(t)', m)
      BY <3>1, <3>2 DEF Runnable
    <3>4. QED
      BY <3>3
  <2>3. QED
    BY <2>1, <2>2
<1>2. QED
  BY <1>1 DEF Programs

\* A page fault leaves a page number and the place to go on at.
LEMMA PageFaultPrograms ==
  ASSUME Programs, NEW t \in Threads, NEW addr \in Int, NEW back \in {"user", "fill", "drain"},
         PageFault(t, addr, back)
  PROVE  Programs'
<1>1. Unsigned(addr) \in Int
  BY SignedWord
<1>2. Unsigned(addr) \div PageSize \in Int
  BY <1>1, MipsAssumption
<1>3. fault' \in [Threads -> [page : Int, back : {"user", "fill", "drain"}]]
  BY <1>2 DEF PageFault, Programs
<1>4. place' \in [Threads -> Places]
  BY DEF PageFault, Goto, Programs, Places
<1>5. QED
  BY <1>3, <1>4, ProgramsKept DEF PageFault, Programs

\* The address the kernel's next access to the memory of a program is made at.
LEMMA KernelAddress ==
  ASSUME cpu \in Cpus, NEW k \in Int
  PROVE  /\ cpu.r[4] \in Int /\ cpu.r[5] \in Int
         /\ Signed(cpu.r[4] + k) \in Int /\ Signed(cpu.r[4] + (cpu.r[5] - k)) \in Int
<1>1. cpu.r[4] \in Int /\ cpu.r[5] \in Int
  BY SmallWords, MipsAssumption DEF Cpus
<1>2. QED
  BY <1>1, SignedWord

\* Who waits to write, or is about to, has something to write.
Writers == \A t \in Threads : place[t] \in {"putAsleep", "putChar"} => buf[t] # <<>>

\* A thread inside putChar has a character to write.
LEMMA WritersStep ==
  ASSUME Programs, Writers, [Next]_vars
  PROVE  Writers'
<1>1. place \in [Threads -> Places] /\ buf \in [Threads -> Seq(Int)]
  BY DEF Programs
<1>2. ASSUME NEW t \in Threads, NEW p \in Places \ {"putAsleep", "putChar"},
             place' = [place EXCEPT ![t] = p], \E b : buf' = [buf EXCEPT ![t] = b]
      PROVE  Writers'
  BY <1>1, <1>2 DEF Writers
<1>3. ASSUME NEW t \in Threads, NEW p \in Places,
             place' = [place EXCEPT ![t] = p], buf' = buf, buf[t] # <<>>
      PROVE  Writers'
  BY <1>1, <1>3 DEF Writers
<1>4. ASSUME UNCHANGED <<place, buf>>
      PROVE  Writers'
  BY <1>4 DEF Writers
<1>5. ASSUME NEW t \in Threads, buf' = buf
      PROVE  \E b : buf' = [buf EXCEPT ![t] = b]
  <2>1. buf' = [buf EXCEPT ![t] = buf[t]]
    BY <1>5, <1>1
  <2>2. QED
    BY <2>1
<1>6. CASE Hardware
  <2>1. UNCHANGED <<place, buf>>
    BY <1>6 DEF Hardware, OneTick, TimerExpired, ReturnFromTick, YieldInTick, Idle, IdleReturns,
                WriteDone, ReadPoll, Fires
  <2>2. QED
    BY <2>1, <1>4
<1>7. ASSUME NEW t \in Threads, Thread(t)
      PROVE  Writers'
  <2>1. CASE Root(t) \/ Begin(t) \/ Instruction(t) \/ UserFault(t) \/ Killed(t) \/ Exit(t)
             \/ ReturnAgain(t) \/ ReturnDone(t) \/ ReturnFail(t)
    <3>1. buf' = buf /\ \E p \in Places \ {"putAsleep", "putChar"} : place' = [place EXCEPT ![t] = p]
      BY <2>1 DEF Root, Begin, Instruction, UserFault, PageFault, Killed, Exit, ReturnAgain,
                  ReturnDone, ReturnFail, Return, Traps, TicksTo, Ticks, SleepsAt, Goto, Places
    <3>2. QED
      BY <3>1, <1>2, <1>5
  <2>2. CASE HostStops(t) \/ Stop(t) \/ PutFails(t)
    BY <2>2, <1>4 DEF HostStops, Stop, PutFails, Aborts
  <2>3. CASE PageIn(t)
    <3>1. fault[t].back \in Places \ {"putAsleep", "putChar"}
      BY DEF Programs, Places
    <3>2. QED
      BY <3>1, <2>3, <1>2, <1>5 DEF PageIn, Goto
  <2>4. CASE Syscall(t)
    <3>1. \E b : buf' = [buf EXCEPT ![t] = b]
      BY <2>4 DEF Syscall
    <3>2. \E p \in Places \ {"putAsleep", "putChar"} : place' = [place EXCEPT ![t] = p]
      BY <2>4 DEF Syscall, Traps, Goto, Places
    <3>3. QED
      BY <3>1, <3>2, <1>2
  <2>5. CASE FillBuffer(t) \/ DrainBuffer(t)
    <3>1. buf' = buf \/ \E b : buf' = [buf EXCEPT ![t] = b]
      BY <2>5 DEF FillBuffer, DrainBuffer, PageFault
    <3>2. \E p \in Places \ {"putAsleep", "putChar"} : place' = [place EXCEPT ![t] = p]
      BY <2>5 DEF FillBuffer, DrainBuffer, PageFault, Traps, Continues, Goto, Places
    <3>3. QED
      BY <3>1, <3>2, <1>2, <1>5
  <2>6. CASE PutLast(t) \/ GetLast(t) \/ GetAcquire(t) \/ GetWaits(t) \/ PutWaits(t)
             \/ PutRelease(t) \/ GetRelease(t)
    <3>1. buf' = buf /\ \E p \in Places \ {"putAsleep", "putChar"} : place' = [place EXCEPT ![t] = p]
      BY <2>6 DEF PutLast, GetLast, GetAcquire, GetWaits, PutWaits, PutRelease, GetRelease,
                  Acquire, P, TicksTo, Ticks, SleepsAt, Continues, Goto, Places
    <3>2. QED
      BY <3>1, <1>2, <1>5
  <2>7. CASE PutAcquire(t)
    <3>1. /\ buf' = buf /\ buf[t] # <<>>
          /\ \E p \in Places : place' = [place EXCEPT ![t] = p]
      BY <2>7 DEF PutAcquire, Acquire, TicksTo, Ticks, SleepsAt, Goto, Places
    <3>2. QED
      BY <3>1, <1>3
  <2>8. CASE PutChar(t) \/ GetChar(t)
    <3>1. \E b : buf' = [buf EXCEPT ![t] = b]
      BY <2>8 DEF PutChar, GetChar
    <3>2. QED
      BY <3>1, <2>8, <1>2 DEF PutChar, GetChar, Continues, Goto, Places
  <2>9. QED
    BY <1>7, <2>1, <2>2, <2>3, <2>4, <2>5, <2>6, <2>7, <2>8 DEF Thread
<1>8. CASE UNCHANGED vars
  BY <1>4, <1>8 DEF vars
<1>9. QED
  BY <1>6, <1>7, <1>8 DEF Next

\* Places, buffers, memories and faults keep their types.
LEMMA ProgramsStep ==
  ASSUME MachineTyped, Writers, [Next]_vars
  PROVE  Programs'
<1> USE DEF MachineTyped
<1>1. /\ place \in [Threads -> Places] /\ buf \in [Threads -> Seq(Int)]
      /\ fault \in [Threads -> [page : Int, back : {"user", "fill", "drain"}]]
  BY DEF Programs
<1>2. ASSUME UNCHANGED <<memory, buf>>, place' \in [Threads -> Places]
      PROVE  Programs'
  BY <1>1, <1>2, ProgramsKept DEF memory
<1>3. ASSUME NEW t \in Threads, NEW p \in Places, place' = [place EXCEPT ![t] = p]
      PROVE  place' \in [Threads -> Places]
  BY <1>1, <1>3
<1>4. ASSUME NEW t \in Threads, NEW p \in Places, place' = [place EXCEPT ![t] = p],
             UNCHANGED <<memory, buf>>
      PROVE  Programs'
  BY <1>2, <1>3, <1>4
<1>5. ASSUME NEW t \in Threads, NEW p \in Places, place' = [place EXCEPT ![t] = p],
             UNCHANGED memory, buf' \in [Threads -> Seq(Int)]
      PROVE  Programs'
  BY <1>1, <1>3, <1>5, ProgramsKept DEF memory
<1>6. CASE Hardware
  <2>1. UNCHANGED <<memory, buf>> /\ place' = place
    BY <1>6 DEF Hardware, OneTick, TimerExpired, ReturnFromTick, YieldInTick, Idle, IdleReturns,
                WriteDone, ReadPoll, Fires
  <2>2. QED
    BY <2>1, <1>1, <1>2
<1>7. ASSUME NEW t \in Threads, Thread(t)
      PROVE  Programs'
  <2>1. CASE Root(t)
    BY <2>1, <1>4 DEF Root, Ticks, Places
  <2>2. CASE Begin(t)
    BY <2>2, <1>4 DEF Begin, Goto, Places
  <2>3. CASE Instruction(t)
    <3>1. PICK n \in 0 .. Word :
                 /\ Runnable(Setups[setup].code[addressSpace], Space(addressSpace), n)
                 /\ Result \in Results(n)
      BY ResultType
    <3>2. Result.bytes \in Memories(n) /\ addressSpace \in Threads
      BY <3>1 DEF Results, Registered
    <3>3. place' \in [Threads -> Places]
      BY <2>3, <1>3 DEF Instruction, TicksTo, Ticks, Places
    <3>4. /\ bytes' = [bytes EXCEPT ![addressSpace] = Result.bytes]
          /\ setup' = setup /\ fault' = fault /\ buf' = buf
      BY <2>3 DEF Instruction
    <3>5. QED
      BY <3>1, <3>2, <3>3, <3>4, <1>1, ProgramsWritten
  <2>4. CASE HostStops(t)
    BY <2>4, <1>1, <1>2 DEF HostStops, Aborts
  <2>5. CASE UserFault(t)
    <3>1. Result.addr \in Int
      BY ResultType DEF Results
    <3>2. QED
      BY <3>1, <2>5, PageFaultPrograms DEF UserFault
  <2>6. CASE PageIn(t)
    <3>1. fault[t].back \in Places
      BY <1>1 DEF Places
    <3>2. place' \in [Threads -> Places]
      BY <2>6, <3>1, <1>3 DEF PageIn, Goto
    <3>3. setup' = setup /\ bytes' = bytes /\ fault' = fault /\ buf' = buf
      BY <2>6 DEF PageIn
    <3>4. QED
      BY <3>2, <3>3, <1>1, ProgramsKept
  <2>7. CASE Killed(t)
    BY <2>7, <1>4 DEF Killed, Traps, Goto, Places
  <2>8. CASE Exit(t)
    BY <2>8, <1>4 DEF Exit, SleepsAt, Goto, Places
  <2>9. CASE Syscall(t)
    <3>1. buf' \in [Threads -> Seq(Int)]
      BY <2>9, <1>1, EmptySeq DEF Syscall
    <3>2. \E p \in Places \ {"putAsleep", "putChar"} : place' = [place EXCEPT ![t] = p]
      BY <2>9 DEF Syscall, Traps, Goto, Places
    <3>3. UNCHANGED memory
      BY <2>9 DEF Syscall, Traps
    <3>4. QED
      BY <3>1, <3>2, <3>3, <1>5
  <2>10. CASE Stop(t)
    BY <2>10, <1>1, <1>2 DEF Stop
  <2>11. CASE ReturnAgain(t) \/ ReturnDone(t) \/ ReturnFail(t)
    BY <2>11, <1>4 DEF ReturnAgain, ReturnDone, ReturnFail, Return, Ticks, Places
  <2>12. CASE FillBuffer(t)
    <3> DEFINE addr == Signed(cpu.r[4] + Len(buf[t]))
               exception == Translate(Space(addressSpace), addr, 1)
               b == ReadMem(Space(addressSpace), addr, 1)
    <3>1. Len(buf[t]) \in Int /\ cpu \in Cpus
      BY <1>1, LenProperties DEF Registered
    <3>2. addr \in Int
      BY <3>1, KernelAddress
    <3>3. \/ UNCHANGED <<memory, buf>> /\ \E p \in Places : place' = [place EXCEPT ![t] = p]
          \/ /\ exception = "NoException" /\ UNCHANGED memory
             /\ buf' = [buf EXCEPT ![t] = Append(@, b)]
             /\ \E p \in Places : place' = [place EXCEPT ![t] = p]
          \/ PageFault(t, addr, "fill")
      BY <2>12 DEF FillBuffer, Continues, Goto, Traps, Places
    <3>4. exception = "NoException" => b \in Int
      <4>1. addressSpace \in Threads
        BY DEF Registered
      <4>2. PICK n \in 0 .. Word : Runnable(Setups[setup].code[addressSpace], Space(addressSpace), n)
        BY <4>1 DEF Programs
      <4>3. QED
        BY <4>2, <3>2, ReadType DEF Runnable
    <3>5. exception = "NoException" => Append(buf[t], b) \in Seq(Int)
      BY <3>4, <1>1, AppendProperties
    <3> HIDE DEF addr, exception, b
    <3>6. CASE PageFault(t, addr, "fill")
      BY <3>6, <3>2, PageFaultPrograms
    <3>7. CASE UNCHANGED <<memory, buf>> /\ \E p \in Places : place' = [place EXCEPT ![t] = p]
      BY <3>7, <1>4
    <3>8. CASE /\ exception = "NoException" /\ UNCHANGED memory
               /\ buf' = [buf EXCEPT ![t] = Append(@, b)]
               /\ \E p \in Places : place' = [place EXCEPT ![t] = p]
      <4>1. buf' \in [Threads -> Seq(Int)]
        BY <3>5, <3>8, <1>1
      <4>2. QED
        BY <4>1, <3>8, <1>5
    <3>9. QED
      BY <3>3, <3>6, <3>7, <3>8
  <2>13. CASE PutLast(t)
    BY <2>13, <1>4 DEF PutLast, Continues, Goto, Places
  <2>14. CASE PutAcquire(t) \/ GetAcquire(t)
    <3>1. UNCHANGED <<memory, buf>> /\ \E p \in Places : place' = [place EXCEPT ![t] = p]
      BY <2>14 DEF PutAcquire, GetAcquire, Acquire, TicksTo, Ticks, SleepsAt, Goto, Places
    <3>2. QED
      BY <3>1, <1>4
  <2>15. CASE PutChar(t)
    <3>1. buf' \in [Threads -> Seq(Int)]
      <4>1. buf[t] # <<>>
        BY <2>15 DEF PutChar, At, Writers
      <4>2. Tail(buf[t]) \in Seq(Int)
        BY <4>1, <1>1, HeadTailProperties
      <4>3. QED
        BY <4>2, <2>15, <1>1 DEF PutChar
    <3>2. QED
      BY <3>1, <2>15, <1>5 DEF PutChar, Continues, Goto, Places
  <2>16. CASE PutFails(t)
    BY <2>16, <1>1, <1>2 DEF PutFails, Aborts
  <2>17. CASE PutWaits(t) \/ GetWaits(t)
    <3>1. UNCHANGED <<memory, buf>> /\ \E p \in Places : place' = [place EXCEPT ![t] = p]
      BY <2>17 DEF PutWaits, GetWaits, P, TicksTo, Ticks, SleepsAt, Goto, Places
    <3>2. QED
      BY <3>1, <1>4
  <2>18. CASE PutRelease(t) \/ GetRelease(t)
    BY <2>18, <1>4 DEF PutRelease, GetRelease, Ticks, Places
  <2>19. CASE GetLast(t)
    BY <2>19, <1>4 DEF GetLast, Continues, Goto, Places
  <2>20. CASE GetChar(t)
    <3>1. Append(buf[t], incoming) \in Seq(Int)
      BY <1>1, AppendProperties DEF Devices
    <3>2. buf' \in [Threads -> Seq(Int)]
      BY <3>1, <2>20, <1>1 DEF GetChar
    <3>3. QED
      BY <3>2, <2>20, <1>5 DEF GetChar, Continues, Goto, Places
  <2>21. CASE DrainBuffer(t)
    <3> DEFINE addr == Signed(cpu.r[4] + (cpu.r[5] - Len(buf[t])))
               b == WriteMem(Space(addressSpace), addr, 1, Head(buf[t]))
    <3>1. Len(buf[t]) \in Int /\ cpu \in Cpus
      BY <1>1, LenProperties DEF Registered
    <3>2. addr \in Int
      BY <3>1, KernelAddress
    <3>3. \/ UNCHANGED <<memory, buf>> /\ \E p \in Places : place' = [place EXCEPT ![t] = p]
          \/ /\ buf[t] # <<>> /\ bytes' = [bytes EXCEPT ![addressSpace] = b]
             /\ buf' = [buf EXCEPT ![t] = Tail(@)]
             /\ setup' = setup /\ fault' = fault
             /\ \E p \in Places : place' = [place EXCEPT ![t] = p]
          \/ PageFault(t, addr, "drain")
      BY <2>21 DEF DrainBuffer, Continues, Goto, Traps, Places
    <3> HIDE DEF addr
    <3>4. CASE PageFault(t, addr, "drain")
      BY <3>4, <3>2, PageFaultPrograms
    <3>5. CASE UNCHANGED <<memory, buf>> /\ \E p \in Places : place' = [place EXCEPT ![t] = p]
      BY <3>5, <1>4
    <3>6. CASE /\ buf[t] # <<>> /\ bytes' = [bytes EXCEPT ![addressSpace] = b]
               /\ buf' = [buf EXCEPT ![t] = Tail(@)]
               /\ setup' = setup /\ fault' = fault
               /\ \E p \in Places : place' = [place EXCEPT ![t] = p]
      <4>1. Head(buf[t]) \in Int /\ Tail(buf[t]) \in Seq(Int)
        BY <3>6, <1>1, HeadTailProperties
      <4>2. buf' \in [Threads -> Seq(Int)]
        BY <4>1, <3>6, <1>1
      <4>3. addressSpace \in Threads
        BY DEF Registered
      <4>4. PICK n \in 0 .. Word : Runnable(Setups[setup].code[addressSpace], Space(addressSpace), n)
        BY <4>3 DEF Programs
      <4>5. b \in Memories(n)
        BY <4>1, <4>4, <3>2, WriteType DEF Runnable
      <4> HIDE DEF b
      <4>6. place' \in [Threads -> Places]
        BY <3>6, <1>3
      <4>7. QED
        BY <4>2, <4>3, <4>4, <4>5, <4>6, <3>6, ProgramsWritten
    <3>7. QED
      BY <3>3, <3>4, <3>5, <3>6
  <2>22. QED
    BY <1>7, <2>1, <2>2, <2>3, <2>4, <2>5, <2>6, <2>7, <2>8, <2>9, <2>10, <2>11, <2>12, <2>13,
       <2>14, <2>15, <2>16, <2>17, <2>18, <2>19, <2>20, <2>21 DEF Thread
<1>8. CASE UNCHANGED vars
  BY <1>1, <1>2, <1>8 DEF vars
<1>9. QED
  BY <1>6, <1>7, <1>8 DEF Next

-------------------------------------------------------------------------------
(* The pending interrupts.                                                 *)

\* The display's interrupt is pending once, when the display is busy.
OneWrite(list, busy) ==
  /\ \A i, j \in DOMAIN list : list[i].item = "write" /\ list[j].item = "write" => i = j
  /\ busy <=> \E i \in DOMAIN list : list[i].item = "write"

\* A new interrupt goes among the pending ones.
LEMMA ScheduleKeeps ==
  ASSUME NEW list \in Seq(Elements(Kinds)), NEW kind \in Kinds, NEW time \in Int
  PROVE  /\ Schedule(list, kind, time) \in Seq(Elements(Kinds))
         /\ \A busy \in BOOLEAN : kind # "write" /\ OneWrite(list, busy) =>
              OneWrite(Schedule(list, kind, time), busy)
         /\ kind = "write" /\ OneWrite(list, FALSE) => OneWrite(Schedule(list, kind, time), TRUE)
<1> DEFINE p == Place(list, time)
           longer == Schedule(list, kind, time)
<1>1. DOMAIN list = 1 .. Len(list) /\ Len(list) \in Nat
  BY ElementTypes
<1>2. p \in 1 .. Len(list) + 1
  BY PlaceProperties
<1>3. /\ longer \in Seq(Elements(Kinds)) /\ Len(longer) = Len(list) + 1
      /\ \A i \in 1 .. Len(list) + 1 :
           longer[i] = IF i < p THEN list[i]
                       ELSE IF i = p THEN Element(kind, time)
                       ELSE list[i - 1]
  BY InsertShape DEF Schedule
<1>4. DOMAIN longer = 1 .. Len(list) + 1
  BY <1>3, LenProperties
<1> HIDE DEF p, longer
<1>5. Element(kind, time).item = kind
  BY DEF Element
<1>6. ASSUME NEW busy \in BOOLEAN, kind # "write", OneWrite(list, busy)
      PROVE  OneWrite(longer, busy)
  <2>1. ASSUME NEW i \in DOMAIN longer, NEW j \in DOMAIN longer,
               longer[i].item = "write", longer[j].item = "write"
        PROVE  i = j
    <3> DEFINE before(k) == IF k < p THEN k ELSE k - 1
    <3>1. ASSUME NEW k \in DOMAIN longer, longer[k].item = "write"
          PROVE  k # p /\ before(k) \in DOMAIN list /\ list[before(k)].item = "write"
      BY <3>1, <1>1, <1>2, <1>3, <1>4, <1>5, <1>6
    <3>2. before(i) = before(j)
      <4> HIDE DEF before
      <4> QED
        BY <3>1, <2>1, <1>6 DEF OneWrite
    <3>3. i \in Int /\ j \in Int /\ p \in Int /\ i # p /\ j # p
      BY <3>1, <2>1, <1>1, <1>2, <1>4
    <3>4. QED
      BY <3>2, <3>3
  <2>2. ASSUME NEW i \in DOMAIN list, list[i].item = "write"
        PROVE  \E j \in DOMAIN longer : longer[j].item = "write"
    <3>1. CASE i < p
      BY <3>1, <2>2, <1>1, <1>2, <1>3, <1>4
    <3>2. CASE i >= p
      <4>1. i + 1 \in DOMAIN longer /\ longer[i + 1] = list[i]
        BY <3>2, <1>1, <1>2, <1>3, <1>4
      <4>2. QED
        BY <4>1, <2>2
    <3>3. QED
      BY <3>1, <3>2, <1>1, <1>2
  <2>3. ASSUME NEW j \in DOMAIN longer, longer[j].item = "write"
        PROVE  \E i \in DOMAIN list : list[i].item = "write"
    BY <2>3, <1>1, <1>2, <1>3, <1>4, <1>5, <1>6
  <2>4. QED
    BY <2>1, <2>2, <2>3, <1>6 DEF OneWrite
<1>7. ASSUME kind = "write", OneWrite(list, FALSE)
      PROVE  OneWrite(longer, TRUE)
  <2>1. \A i \in DOMAIN list : list[i].item # "write"
    BY <1>7 DEF OneWrite
  <2>2. p \in DOMAIN longer /\ longer[p].item = "write"
    BY <1>1, <1>2, <1>3, <1>4, <1>5, <1>7
  <2>3. ASSUME NEW i \in DOMAIN longer, longer[i].item = "write"
        PROVE  i = p
    BY <2>1, <2>3, <1>1, <1>2, <1>3, <1>4
  <2>4. QED
    BY <2>2, <2>3 DEF OneWrite
<1>8. QED
  BY <1>3, <1>6, <1>7 DEF longer

\* The list without its first interrupt.
LEMMA FirstTaken ==
  ASSUME NEW list \in Seq(Elements(Kinds)), list # <<>>
  PROVE  /\ Tail(list) \in Seq(Elements(Kinds))
         /\ Head(list).item \in Kinds /\ Head(list).key \in Int
         /\ \A busy \in BOOLEAN : OneWrite(list, busy) =>
              /\ OneWrite(Tail(list), busy /\ Head(list).item # "write")
              /\ Head(list).item = "write" => busy
<1>1. /\ DOMAIN list = 1 .. Len(list) /\ Len(list) \in Nat
      /\ \A i \in 1 .. Len(list) : list[i].item \in Kinds /\ list[i].key \in Int
  BY ElementTypes
<1>2. Tail(list) \in Seq(Elements(Kinds)) /\ Len(Tail(list)) = Len(list) - 1
  BY HeadTailProperties
<1>3. DOMAIN Tail(list) = 1 .. Len(list) - 1
  BY <1>2, LenProperties
<1>4. Head(list) = list[1] /\ 1 \in DOMAIN list
  BY <1>1, EmptySeq
<1>5. \A i \in 1 .. Len(list) - 1 : Tail(list)[i] = list[i + 1]
  BY <1>1
<1> DEFINE rest == Tail(list)
<1> HIDE DEF rest
<1>6. ASSUME NEW busy \in BOOLEAN, OneWrite(list, busy)
      PROVE  OneWrite(rest, busy /\ list[1].item # "write") /\ (list[1].item = "write" => busy)
  <2>1. DOMAIN rest = 1 .. Len(list) - 1
    BY <1>3 DEF rest
  <2>2. \A i \in 1 .. Len(list) - 1 : i + 1 \in DOMAIN list /\ rest[i] = list[i + 1]
    BY <1>1, <1>5 DEF rest
  <2>3. \A i, j \in DOMAIN rest : rest[i].item = "write" /\ rest[j].item = "write" => i = j
    BY <2>1, <2>2, <1>6 DEF OneWrite
  <2>4. list[1].item = "write" => busy /\ \A i \in DOMAIN rest : rest[i].item # "write"
    BY <2>1, <2>2, <1>1, <1>4, <1>6 DEF OneWrite
  <2>5. ASSUME busy, list[1].item # "write"
        PROVE  \E i \in DOMAIN rest : rest[i].item = "write"
    <3>1. PICK i \in DOMAIN list : list[i].item = "write"
      BY <2>5, <1>6 DEF OneWrite
    <3>2. i - 1 \in 1 .. Len(list) - 1
      BY <3>1, <2>5, <1>1
    <3>3. rest[i - 1] = list[i]
      BY <3>1, <3>2, <2>2, <1>1
    <3>4. QED
      BY <3>1, <3>2, <3>3, <2>1
  <2>6. ASSUME NEW i \in DOMAIN rest, rest[i].item = "write"
        PROVE  busy
    BY <2>1, <2>2, <2>6, <1>6 DEF OneWrite
  <2>7. QED
    BY <2>3, <2>4, <2>5, <2>6 DEF OneWrite
<1>7. QED
  BY <1>1, <1>2, <1>4, <1>6 DEF rest

\* Time passes.
LEMMA LaterKeeps ==
  ASSUME NEW list \in Seq(Elements(Kinds)), NEW time \in Int
  PROVE  /\ Later(list, time) \in Seq(Elements(Kinds))
         /\ \A busy \in BOOLEAN : OneWrite(list, busy) => OneWrite(Later(list, time), busy)
<1>1. /\ DOMAIN list = 1 .. Len(list) /\ Len(list) \in Nat
      /\ \A i \in 1 .. Len(list) : list[i] \in Elements(Kinds)
  BY ElementTypes
<1>2. ASSUME NEW i \in 1 .. Len(list)
      PROVE  /\ [list[i] EXCEPT !.key = @ - time] \in Elements(Kinds)
             /\ [list[i] EXCEPT !.key = @ - time].item = list[i].item
  BY <1>1 DEF Elements
<1>3. DOMAIN Later(list, time) = DOMAIN list
  BY DEF Later
<1>4. \A i \in DOMAIN list : Later(list, time)[i].item = list[i].item
  BY <1>1, <1>2 DEF Later
<1>5. Later(list, time) \in [1 .. Len(list) -> Elements(Kinds)]
  BY <1>1, <1>2 DEF Later
<1>6. Later(list, time) \in Seq(Elements(Kinds))
  BY <1>1, <1>5, SeqDef
<1>7. QED
  BY <1>3, <1>4, <1>6 DEF OneWrite

\* What is not due is put back.
LEMMA PutBackKeeps ==
  ASSUME pending \in Seq(Elements(Kinds))
  PROVE  /\ PutBack \in Seq(Elements(Kinds))
         /\ \A busy \in BOOLEAN : OneWrite(pending, busy) => OneWrite(PutBack, busy)
<1>1. CASE pending = <<>>
  BY <1>1 DEF PutBack
<1>2. CASE pending # <<>>
  <2> DEFINE kind == Head(pending).item
             time == Head(pending).key
             rest == Tail(pending)
  <2>1. rest \in Seq(Elements(Kinds)) /\ kind \in Kinds /\ time \in Int
    BY <1>2, FirstTaken
  <2>2. PutBack = Schedule(rest, kind, time)
    BY <1>2 DEF PutBack
  <2>3. ASSUME NEW busy \in BOOLEAN, OneWrite(pending, busy)
        PROVE  OneWrite(PutBack, busy)
    <3>1. OneWrite(rest, busy /\ kind # "write") /\ (kind = "write" => busy)
      BY <1>2, <2>3, FirstTaken
    <3> HIDE DEF kind, time, rest
    <3>2. CASE kind = "write"
      <4>1. (busy /\ kind # "write") = FALSE
        BY <3>2
      <4>2. OneWrite(rest, FALSE) /\ busy = TRUE
        BY <3>1, <3>2, <4>1
      <4>3. QED
        BY <4>2, <3>2, <2>1, <2>2, ScheduleKeeps
    <3>3. CASE kind # "write"
      <4>1. (busy /\ kind # "write") = busy
        BY <3>3
      <4>2. OneWrite(rest, busy)
        BY <3>1, <4>1
      <4>3. QED
        BY <4>2, <3>3, <2>1, <2>2, ScheduleKeeps
    <3>4. QED
      BY <3>2, <3>3
  <2> HIDE DEF kind, time, rest
  <2>4. PutBack \in Seq(Elements(Kinds))
    BY <2>1, <2>2, ScheduleKeeps
  <2>5. QED
    BY <2>3, <2>4
<1>3. QED
  BY <1>1, <1>2

-------------------------------------------------------------------------------
(* The devices, the semaphores and the locks stay typed.                   *)

\* The rest of a queue.
LEMMA QueueTail ==
  ASSUME NEW S, NEW queue \in Seq(S)
  PROVE  (IF queue = <<>> THEN <<>> ELSE Tail(queue)) \in Seq(S)
BY HeadTailProperties, EmptySeq

\* The semaphores after V.
LEMMA VType ==
  ASSUME Devices, NEW s \in {"readAvail", "writeDone"}, V(s)
  PROVE  semaphores' \in [{"readAvail", "writeDone"} -> [value : Nat, queue : Seq(Threads)]]
<1> DEFINE rest == IF semaphores[s].queue = <<>> THEN <<>> ELSE Tail(semaphores[s].queue)
<1>1. semaphores[s].queue \in Seq(Threads) /\ semaphores[s].value \in Nat
  BY DEF Devices
<1>2. rest \in Seq(Threads)
  BY <1>1, QueueTail
<1>3. semaphores' = [semaphores EXCEPT ![s] = [value |-> semaphores[s].value + 1, queue |-> rest]]
  BY DEF V, Devices
<1> HIDE DEF rest
<1>4. QED
  BY <1>1, <1>2, <1>3 DEF Devices

\* The semaphores after P.
LEMMA PType ==
  ASSUME Devices, NEW t \in Threads, NEW s \in {"readAvail", "writeDone"}, NEW p, NEW next,
         P(t, s, p, next)
  PROVE  semaphores' \in [{"readAvail", "writeDone"} -> [value : Nat, queue : Seq(Threads)]]
<1>1. /\ semaphores[s].queue \in Seq(Threads) /\ semaphores[s].value \in Nat
      /\ semaphores[s] = [value |-> semaphores[s].value, queue |-> semaphores[s].queue]
  BY DEF Devices
<1>2. Append(semaphores[s].queue, t) \in Seq(Threads)
  BY <1>1, AppendProperties
<1>3. CASE /\ semaphores[s].value > 0
           /\ semaphores' = [semaphores EXCEPT ![s].value = @ - 1]
  <2> DEFINE v == semaphores[s].value - 1
  <2>1. v \in Nat
    BY <1>1, <1>3
  <2>2. semaphores' = [semaphores EXCEPT ![s].value = v]
    BY <1>3 DEF Devices
  <2> HIDE DEF v
  <2>3. QED
    BY <2>1, <2>2 DEF Devices
<1>4. CASE semaphores' = [semaphores EXCEPT ![s].queue = Append(@, t)]
  BY <1>1, <1>2, <1>4 DEF Devices
<1>5. QED
  BY <1>3, <1>4 DEF P

LockTypes == [{"readLock", "writeLock"} ->
                [holder : {FREE} \cup {Name[t] : t \in Threads}, queue : Seq(Threads)]]

\* The locks after Acquire.
LEMMA AcquireType ==
  ASSUME Devices, NEW t \in Threads, NEW l \in {"readLock", "writeLock"},
         NEW p, NEW asleep, NEW next, Acquire(t, l, p, asleep, next)
  PROVE  locks' \in LockTypes
<1>1. locks \in LockTypes
  BY DEF Devices, LockTypes
<1>2. locks[l].queue \in Seq(Threads)
  BY <1>1 DEF LockTypes
<1>3. Append(locks[l].queue, t) \in Seq(Threads)
  BY <1>2, AppendProperties
<1>4. CASE locks' = [locks EXCEPT ![l].holder = Name[t]]
  BY <1>1, <1>4 DEF LockTypes
<1>5. CASE locks' = [locks EXCEPT ![l].queue = Append(@, t)]
  BY <1>1, <1>3, <1>5 DEF LockTypes
<1>6. QED
  BY <1>4, <1>5 DEF Acquire

\* The locks after Release.
LEMMA ReleasesType ==
  ASSUME Devices, NEW t \in Threads, NEW l \in {"readLock", "writeLock"}, Releases(t, l)
  PROVE  locks' \in LockTypes
<1> DEFINE rest == IF locks[l].queue = <<>> THEN <<>> ELSE Tail(locks[l].queue)
<1>1. locks \in LockTypes
  BY DEF Devices, LockTypes
<1>2. locks[l].queue \in Seq(Threads)
  BY <1>1 DEF LockTypes
<1>3. rest \in Seq(Threads)
  BY <1>2, QueueTail
<1>4. locks' = [locks EXCEPT ![l] = [holder |-> FREE, queue |-> rest]]
  BY <1>1 DEF Releases, LockTypes
<1> HIDE DEF rest
<1>5. QED
  BY <1>1, <1>3, <1>4 DEF LockTypes

\* Interrupts that tick, are taken, or put back.
LEMMA PendingStep ==
  ASSUME Devices, UNCHANGED <<console, synch>>, pending' \in Seq(Elements(Kinds))
  PROVE  Devices'
BY DEF Devices, console, synch

\* The console, its semaphores and its locks keep their types.
LEMMA DevicesStep ==
  ASSUME MachineTyped, [Next]_vars
  PROVE  Devices'
<1> USE DEF MachineTyped
<1>1. pending \in Seq(Elements(Kinds)) /\ buf \in [Threads -> Seq(Int)]
  BY DEF Devices, Programs
<1>2. ASSUME UNCHANGED <<pending, console, synch>>
      PROVE  Devices'
  BY <1>1, <1>2, PendingStep
<1>3. ASSUME UNCHANGED <<pending, console, locks>>,
             semaphores' \in [{"readAvail", "writeDone"} -> [value : Nat, queue : Seq(Threads)]]
      PROVE  Devices'
  BY <1>3 DEF Devices, console
<1>4. ASSUME UNCHANGED <<pending, console, semaphores>>, locks' \in LockTypes
      PROVE  Devices'
  BY <1>4 DEF Devices, console, LockTypes
<1>5. ConsoleTime \in Int /\ {"timer", "read", "write"} \subseteq Kinds
  BY MachineAssumption DEF Kinds
<1>6. CASE Hardware
  <2>1. CASE OneTick /\ UNCHANGED <<memory, buf, console, synch>>
    <3>1. UserTick \in Int /\ SystemTick \in Int
      BY InterruptAssumption
    <3>2. pending' \in Seq(Elements(Kinds))
      BY <2>1, <3>1, <1>1, LaterKeeps DEF OneTick
    <3>3. QED
      BY <3>2, <2>1, PendingStep
  <2>2. CASE TimerExpired /\ UNCHANGED <<memory, buf, console, synch>>
    <3>1. Tail(pending) \in Seq(Elements(Kinds))
      BY <2>2, <1>1, FirstTaken DEF TimerExpired, Fires, Due
    <3>2. \A n \in 1 .. 2 * TimerTicks : Schedule(Tail(pending), "timer", n) \in Seq(Elements(Kinds))
      <4>1. \A n \in 1 .. 2 * TimerTicks : n \in Int
        BY InterruptAssumption
      <4>2. QED
        BY <4>1, <3>1, <1>5, ScheduleKeeps
    <3>3. pending' \in Seq(Elements(Kinds))
      BY <2>2, <3>2 DEF TimerExpired
    <3>4. QED
      BY <3>3, <2>2, PendingStep
  <2>3. CASE /\ ReturnFromTick \/ YieldInTick \/ IdleReturns
             /\ UNCHANGED <<memory, buf, console, synch>>
    <3>1. pending' = PutBack
      BY <2>3 DEF ReturnFromTick, YieldInTick, IdleReturns
    <3>2. QED
      BY <3>1, <2>3, <1>1, PutBackKeeps, PendingStep
  <2>4. CASE Idle /\ UNCHANGED <<memory, buf, console, synch>>
    <3>1. CASE pending' = pending
      BY <3>1, <2>4, <1>2
    <3>2. CASE /\ \E i \in DOMAIN pending : pending[i].item # "timer"
               /\ pending' = Later(pending, Head(pending).key)
      <4>1. pending # <<>>
        BY <3>2, <1>1, ElementTypes, EmptySeq
      <4>2. Head(pending).key \in Int
        BY <4>1, <1>1, FirstTaken
      <4>3. QED
        BY <4>2, <3>2, <2>4, <1>1, LaterKeeps, PendingStep
    <3>3. QED
      BY <3>1, <3>2, <2>4 DEF Idle
  <2>5. CASE WriteDone
    <3>1. Tail(pending) \in Seq(Elements(Kinds))
      BY <2>5, <1>1, FirstTaken DEF WriteDone, Fires, Due
    <3>2. semaphores' \in [{"readAvail", "writeDone"} -> [value : Nat, queue : Seq(Threads)]]
      BY <2>5, VType DEF WriteDone
    <3>3. QED
      BY <3>1, <3>2, <2>5 DEF WriteDone, Devices
  <2>6. CASE ReadPoll
    <3>1. Tail(pending) \in Seq(Elements(Kinds))
      BY <2>6, <1>1, FirstTaken DEF ReadPoll, Fires, Due
    <3>2. pending' \in Seq(Elements(Kinds))
      BY <2>6, <3>1, <1>5, ScheduleKeeps DEF ReadPoll
    <3>3. putBusy' = putBusy /\ taken' = taken /\ locks' = locks
      BY <2>6 DEF ReadPoll
    <3>4. CASE UNCHANGED <<incoming, input, semaphores>>
      BY <3>2, <3>3, <3>4 DEF Devices
    <3>5. CASE /\ input # <<>> /\ incoming' = Head(input) /\ input' = Tail(input)
               /\ V("readAvail")
      <4>1. Head(input) \in Int \ {EOF} /\ Tail(input) \in Seq(Int \ {EOF})
        BY <3>5, HeadTailProperties DEF Devices
      <4>2. semaphores' \in [{"readAvail", "writeDone"} -> [value : Nat, queue : Seq(Threads)]]
        BY <3>5, VType
      <4>3. QED
        BY <4>1, <4>2, <3>2, <3>3, <3>5 DEF Devices
    <3>6. QED
      BY <3>4, <3>5, <2>6 DEF ReadPoll
  <2>7. QED
    BY <1>6, <2>1, <2>2, <2>3, <2>4, <2>5, <2>6 DEF Hardware
<1>7. ASSUME NEW t \in Threads, Thread(t)
      PROVE  Devices'
  <2>1. CASE Root(t) \/ Begin(t) \/ Instruction(t) \/ HostStops(t) \/ UserFault(t) \/ PageIn(t)
             \/ Killed(t) \/ Exit(t) \/ Syscall(t) \/ Stop(t)
    BY <2>1, <1>2 DEF Root, Begin, Instruction, HostStops, UserFault, PageFault, PageIn, Killed,
                      Exit, Syscall, Stop, Traps
  <2>2. CASE ReturnAgain(t) \/ ReturnDone(t) \/ ReturnFail(t) \/ FillBuffer(t) \/ PutLast(t)
             \/ PutFails(t) \/ GetLast(t) \/ DrainBuffer(t)
    BY <2>2, <1>2 DEF ReturnAgain, ReturnDone, ReturnFail, Return, FillBuffer, PutLast, PutFails,
                      GetLast, DrainBuffer, PageFault, Traps
  <2>3. CASE PutAcquire(t)
    BY <2>3, <1>4, AcquireType DEF PutAcquire, Acquire
  <2>4. CASE GetAcquire(t)
    BY <2>4, <1>4, AcquireType DEF GetAcquire, Acquire
  <2>5. CASE PutWaits(t)
    BY <2>5, <1>3, PType DEF PutWaits, P
  <2>6. CASE GetWaits(t)
    BY <2>6, <1>3, PType DEF GetWaits, P
  <2>7. CASE PutRelease(t)
    BY <2>7, <1>4, ReleasesType DEF PutRelease
  <2>8. CASE GetRelease(t)
    BY <2>8, <1>4, ReleasesType DEF GetRelease
  <2>9. CASE PutChar(t)
    <3>1. pending' \in Seq(Elements(Kinds))
      BY <2>9, <1>1, <1>5, ScheduleKeeps DEF PutChar
    <3>2. QED
      BY <3>1, <2>9 DEF PutChar, synch, Devices
  <2>10. CASE GetChar(t)
    <3>1. Append(taken, incoming) \in Seq(Int) /\ EOF \in Int
      BY AppendProperties DEF Devices, EOF
    <3>2. QED
      BY <3>1, <2>10 DEF GetChar, synch, Devices
  <2>11. QED
    BY <1>7, <2>1, <2>2, <2>3, <2>4, <2>5, <2>6, <2>7, <2>8, <2>9, <2>10 DEF Thread
<1>8. CASE UNCHANGED vars
  BY <1>2, <1>8 DEF vars, clock
<1>9. QED
  BY <1>6, <1>7, <1>8 DEF Next

-------------------------------------------------------------------------------
(* The initial states.                                                     *)

\* What is pending when the machine starts: the keyboard's interrupt, and the
\* timer's when time slices are random.
LEMMA InitPending ==
  ASSUME Init
  PROVE  pending \in Seq(Elements(Kinds)) /\ OneWrite(pending, FALSE)
<1>1. <<>> \in Seq(Elements(Kinds)) /\ OneWrite(<<>>, FALSE)
  BY EmptySeq DEF OneWrite
<1>2. "timer" \in Kinds /\ "read" \in Kinds /\ ConsoleTime \in Int
  BY MachineAssumption DEF Kinds
<1>3. ASSUME NEW list \in Seq(Elements(Kinds)), OneWrite(list, FALSE)
      PROVE  LET new == Schedule(list, "read", ConsoleTime)
             IN  new \in Seq(Elements(Kinds)) /\ OneWrite(new, FALSE)
  BY <1>2, <1>3, ScheduleKeeps
<1>4. ASSUME NEW n \in 1 .. 2 * TimerTicks
      PROVE  LET new == Schedule(<<>>, "timer", n)
             IN  new \in Seq(Elements(Kinds)) /\ OneWrite(new, FALSE)
  <2>1. n \in Int
    BY InterruptAssumption
  <2>2. QED
    BY <2>1, <1>1, <1>2, ScheduleKeeps
<1>5. PICK n \in IF Setups[setup].random THEN 1 .. 2 * TimerTicks ELSE {0} :
        pending = Schedule(IF n = 0 THEN <<>> ELSE Schedule(<<>>, "timer", n), "read", ConsoleTime)
  BY DEF Init
<1>6. n = 0 \/ n \in 1 .. 2 * TimerTicks
  BY <1>5
<1>7. CASE n = 0
  BY <1>7, <1>5, <1>3, <1>1
<1>8. CASE n \in 1 .. 2 * TimerTicks
  <2>1. n # 0
    BY <1>8, InterruptAssumption
  <2>2. QED
    BY <2>1, <1>8, <1>5, <1>3, <1>4
<1>9. QED
  BY <1>6, <1>7, <1>8

\* The machine starts with everything typed.
LEMMA InitTyped ==
  ASSUME Init
  PROVE  MachineTyped /\ Writers
<1>1. /\ setup \in 1 .. Len(Setups) /\ InterruptInit(First, Setups[setup].others)
      /\ bytes = Setups[setup].bytes
      /\ fault = [t \in Threads |-> [page |-> 0, back |-> "user"]]
      /\ buf = [t \in Threads |-> <<>>]
      /\ putBusy = FALSE /\ incoming = EOF /\ input = Setups[setup].input /\ taken = <<>>
      /\ semaphores = [s \in {"readAvail", "writeDone"} |-> [value |-> 0, queue |-> <<>>]]
      /\ locks = [l \in {"readLock", "writeLock"} |-> [holder |-> FREE, queue |-> <<>>]]
  BY DEF Init
<1>2. /\ First \in Threads /\ Setups[setup].others \in Seq(Threads \ {First})
      /\ Setups[setup].input \in Seq(Int \ {EOF}) /\ DOMAIN Setups[setup].bytes = Threads
      /\ \A t \in Threads : Loadable(Setups[setup].code[t], Setups[setup].bytes[t])
  BY <1>1, MachineAssumption
<1>3. Registered
  <2>1. 0 \in Words /\ 0 \in Registers
    BY SmallWords, MipsAssumption
  <2>2. cpu = [r |-> [x \in Registers |-> 0], hi |-> 0, lo |-> 0, pc |-> 0, nextPC |-> 0,
               load |-> 0, loadValue |-> 0]
    BY <1>1 DEF InterruptInit
  <2>3. cpu \in Cpus
    BY <2>1, <2>2 DEF Cpus
  <2>4. ready \in Seq(Threads)
    <3>1. ready \in Seq(Threads \ {First})
      BY <1>1, <1>2 DEF InterruptInit
    <3>2. Threads \ {First} \subseteq Threads
      OBVIOUS
    <3>3. QED
      BY <3>1, <3>2, SeqMonotonic
  <2>5. QED
    BY <2>3, <2>4, <1>1, <1>2 DEF InterruptInit, Registered
<1>4. place = [t \in Threads |-> IF t = First THEN "begin" ELSE "root"]
  BY <1>1 DEF InterruptInit
<1>5. Programs
  <2>1. place \in [Threads -> Places]
    BY <1>4 DEF Places
  <2>2. buf \in [Threads -> Seq(Int)]
    BY <1>1, EmptySeq
  <2>3. ASSUME NEW t \in Threads
        PROVE  \E n \in 0 .. Word : Runnable(Setups[setup].code[t], Space(t), n)
    <3>1. Space(t).bytes = Setups[setup].bytes[t]
      BY <1>1 DEF Space
    <3>2. Loadable(Setups[setup].code[t], Setups[setup].bytes[t])
      BY <1>2
    <3>3. PICK n \in 0 .. Word : n % 4 = 0 /\ Setups[setup].bytes[t] \in Memories(n)
      BY <3>2 DEF Loadable, Memories
    <3>4. DOMAIN Setups[setup].bytes[t] = 0 .. n - 1
      BY <3>3 DEF Memories
    <3>5. \A a \in 0 .. n - 1 : a % 4 = 0 => Setups[setup].code[t][a] \in Instructions
      BY <3>2, <3>4 DEF Loadable
    <3>6. QED
      BY <3>1, <3>3, <3>5 DEF Runnable, MemorySize
  <2>4. QED
    BY <2>1, <2>2, <2>3, <1>1, <1>2 DEF Programs
<1>6. Devices
  <2>1. semaphores \in [{"readAvail", "writeDone"} -> [value : Nat, queue : Seq(Threads)]]
    BY <1>1, EmptySeq
  <2>2. locks \in [{"readLock", "writeLock"} ->
                     [holder : {FREE} \cup {Name[t] : t \in Threads}, queue : Seq(Threads)]]
    BY <1>1, EmptySeq
  <2>3. EOF \in Int /\ <<>> \in Seq(Int)
    BY EmptySeq DEF EOF
  <2>4. pending \in Seq(Elements(Kinds))
    BY InitPending
  <2>5. QED
    BY <2>1, <2>2, <2>3, <2>4, <1>1, <1>2 DEF Devices
<1>7. Writers
  BY <1>4 DEF Writers
<1>8. QED
  BY <1>3, <1>5, <1>6, <1>7 DEF MachineTyped

-------------------------------------------------------------------------------
(* Delayed loads.                                                          *)

\* After a switch no load is pending if none was saved pending.
LEMMA DispatchLoads ==
  ASSUME Registered, cpu.load = 0, \A t \in Threads : saved[t].load = 0,
         NEW list \in Seq(Threads), list # <<>>, NEW yielding, Dispatch(list, yielding)
  PROVE  /\ cpu'.load = 0 /\ \A t \in Threads : saved'[t].load = 0
         /\ doing' \in {"run", "tick"}
<1>1. Head(list) \in Threads
  BY HeadTailProperties
<1>2. QED
  BY <1>1 DEF Dispatch, Run, Registered

\* Without a pending load the current thread may sleep.
LEMMA SleepLoads ==
  ASSUME Registered, cpu.load = 0, \A t \in Threads : saved[t].load = 0, Sleep
  PROVE  /\ cpu'.load = 0 /\ \A t \in Threads : saved'[t].load = 0
         /\ doing' \in {"run", "tick"} \/ (doing' = "idle" /\ current' = current)
<1>1. CASE ready # <<>> /\ Dispatch(ready, inYield)
  BY <1>1, DispatchLoads DEF Registered
<1>2. CASE ready = <<>> /\ doing' = "idle" /\ UNCHANGED <<dispatch, cpu>>
  BY <1>2 DEF dispatch
<1>3. QED
  BY <1>1, <1>2 DEF Sleep

\* So with a yield.
LEMMA YieldLoads ==
  ASSUME Registered, cpu.load = 0, \A t \in Threads : saved[t].load = 0, Yield
  PROVE  /\ cpu'.load = 0 /\ \A t \in Threads : saved'[t].load = 0
         /\ doing' \in {"run", "tick"}
<1>1. CASE ready # <<>> /\ Dispatch(Append(ready, current), inYield \cup {current})
  <2>1. Append(ready, current) \in Seq(Threads) /\ Append(ready, current) # <<>>
    BY AppendProperties DEF Registered
  <2>2. QED
    BY <2>1, <1>1, DispatchLoads
<1>2. CASE ready = <<>> /\ doing' = "tick" /\ UNCHANGED <<dispatch, cpu>>
  BY <1>2 DEF dispatch
<1>3. QED
  BY <1>1, <1>2 DEF Yield

\* Every step has the loads done while the kernel runs.
LEMMA LoadsStep ==
  ASSUME MachineTyped, Loads, [Next]_vars
  PROVE  Loads'
<1> DEFINE flushed == DelayedLoad(cpu, 0, 0)
<1>1. /\ Registered /\ place \in [Threads -> Places] /\ current \in Threads
      /\ cpu \in Cpus /\ saved \in [Threads -> Cpus]
  BY DEF MachineTyped, Registered, Programs
<1>2. flushed.load = 0
  BY <1>1, FlushedType
<1> HIDE DEF flushed
<1>3. /\ cpu.load # 0 => place[current] = "user" /\ ~yieldOnReturn
      /\ \A t \in Threads : saved[t].load = 0
      /\ yieldOnReturn => doing \in {"due", "idling"}
      /\ doing \in {"idle", "idling"} => place[current] # "user"
  BY DEF Loads, NoLoadInKernel
<1>4. ASSUME cpu'.load = 0, \A t \in Threads : saved'[t].load = 0, ~yieldOnReturn',
             doing' \notin {"idle", "idling"}
      PROVE  Loads'
  BY <1>4 DEF Loads, NoLoadInKernel
<1>5. ASSUME UNCHANGED <<cpu, saved, current, place, yieldOnReturn>>, doing' = doing
      PROVE  Loads'
  BY <1>5, <1>3 DEF Loads, NoLoadInKernel
<1>6. CASE Hardware
  <2>1. CASE OneTick
    BY <2>1, <1>3 DEF OneTick, dispatch, Loads, NoLoadInKernel
  <2>2. CASE TimerExpired
    BY <2>2, <1>2, <1>3 DEF TimerExpired, Fires, flushed, Loads, NoLoadInKernel
  <2>3. CASE ReturnFromTick
    BY <2>3, <1>3 DEF ReturnFromTick, dispatch, Loads, NoLoadInKernel
  <2>4. CASE YieldInTick
    <3>1. cpu.load = 0 /\ Yield /\ yieldOnReturn' = FALSE
      BY <2>4, <1>3 DEF YieldInTick
    <3>2. QED
      BY <3>1, <1>1, <1>3, <1>4, YieldLoads
  <2>5. CASE Idle
    BY <2>5, <1>3 DEF Idle, dispatch, Loads, NoLoadInKernel
  <2>6. CASE IdleReturns
    <3>1. /\ cpu.load = 0 /\ Sleep /\ yieldOnReturn' = FALSE /\ place' = place
          /\ place[current] # "user"
      BY <2>6, <1>3 DEF IdleReturns
    <3>2. QED
      BY <3>1, <1>1, <1>3, SleepLoads DEF Loads, NoLoadInKernel
  <2>7. CASE WriteDone
    BY <2>7, <1>2, <1>3 DEF WriteDone, Fires, flushed, Loads, NoLoadInKernel
  <2>8. CASE ReadPoll
    BY <2>8, <1>2, <1>3 DEF ReadPoll, Fires, flushed, Loads, NoLoadInKernel
  <2>9. QED
    BY <1>6, <2>1, <2>2, <2>3, <2>4, <2>5, <2>6, <2>7, <2>8 DEF Hardware
<1>7. ASSUME NEW t \in Threads, Thread(t)
      PROVE  Loads'
  <2>1. ASSUME At(t, "user") => cpu'.load = 0 /\ place'[t] # "user",
               UNCHANGED <<saved, current, yieldOnReturn>>, doing = "run", current = t,
               cpu'.load = 0 \/ cpu'.load = cpu.load, doing' \notin {"idle", "idling"}
        PROVE  Loads'
    <3>1. cpu'.load = 0
      BY <2>1, <1>3 DEF At
    <3>2. ~yieldOnReturn
      BY <2>1, <1>3
    <3>3. QED
      BY <3>1, <3>2, <2>1, <1>3, <1>4
  <2>2. ASSUME NEW p \in Places \ {"user"}, Sleep, place' = [place EXCEPT ![t] = p],
               doing = "run", current = t, place[t] # "user", UNCHANGED yieldOnReturn
        PROVE  Loads'
    <3>1. cpu.load = 0 /\ ~yieldOnReturn
      BY <2>2, <1>3
    <3>2. place'[t] # "user"
      BY <2>2, <1>1
    <3>3. QED
      BY <3>1, <3>2, <2>2, <1>1, <1>3, SleepLoads DEF Loads, NoLoadInKernel
  <2>3. CASE Root(t)
    BY <2>3, <2>1 DEF Root, At, Ticks, dispatch
  <2>4. CASE Begin(t)
    <3>1. cpu'.load = 0
      BY <2>4 DEF Begin, InitRegisters
    <3>2. QED
      BY <3>1, <2>4, <2>1 DEF Begin, At
  <2>5. CASE Instruction(t)
    <3>1. place'[t] = "user" /\ current' = t /\ doing' = "tick" /\ UNCHANGED <<saved, yieldOnReturn>>
      BY <2>5, <1>1 DEF Instruction, At, TicksTo, Ticks, dispatch
    <3>2. ~yieldOnReturn
      BY <2>5, <1>3 DEF Instruction, At
    <3>3. QED
      BY <3>1, <3>2, <1>3 DEF Loads, NoLoadInKernel
  <2>6. CASE HostStops(t)
    BY <2>6, <1>3 DEF HostStops, At, Aborts, dispatch, Loads, NoLoadInKernel
  <2>7. CASE UserFault(t)
    <3>1. cpu'.load = 0 /\ place'[t] # "user"
      BY <2>7, <1>1, <1>2 DEF UserFault, PageFault, Raises, flushed, Goto
    <3>2. QED
      BY <3>1, <2>7, <2>1 DEF UserFault, PageFault, At, dispatch
  <2>8. CASE PageIn(t)
    BY <2>8, <2>1 DEF PageIn, At, dispatch
  <2>9. CASE Killed(t)
    <3>1. cpu'.load = 0 /\ place'[t] # "user"
      BY <2>9, <1>1, <1>2 DEF Killed, Traps, Raises, flushed, Goto
    <3>2. QED
      BY <3>1, <2>9, <2>1 DEF Killed, Traps, At, dispatch
  <2>10. CASE Exit(t)
    BY <2>10, <2>2 DEF Exit, At, SleepsAt, Goto, Places
  <2>11. CASE Syscall(t)
    <3>1. \E p \in Places \ {"user"} : place' = [place EXCEPT ![t] = p]
      BY <2>11 DEF Syscall, Traps, Goto, Places
    <3>2. cpu'.load = 0 /\ place'[t] # "user"
      BY <3>1, <2>11, <1>1, <1>2 DEF Syscall, Traps, Raises, flushed
    <3>3. QED
      BY <3>2, <2>11, <2>1 DEF Syscall, Traps, At, dispatch
  <2>12. CASE Stop(t)
    BY <2>12, <2>1 DEF Stop, At, dispatch
  <2>13. CASE ReturnAgain(t)
    BY <2>13, <2>1 DEF ReturnAgain, Return, At, Ticks, dispatch
  <2>14. CASE ReturnDone(t)
    <3>1. increase_program_counter(cpu).load = cpu.load
      BY <1>1, IncreaseType
    <3>2. QED
      BY <3>1, <2>14, <2>1 DEF ReturnDone, Return, At, Ticks, dispatch
  <2>15. CASE ReturnFail(t)
    <3> DEFINE c == [cpu EXCEPT !.r[2] = 0]
    <3>1. c \in Cpus /\ c.load = cpu.load
      BY <1>1, SmallWords, MipsAssumption DEF Cpus
    <3>2. increase_program_counter(c).load = cpu.load
      BY <3>1, IncreaseType
    <3>3. QED
      BY <3>2, <2>15, <2>1 DEF ReturnFail, Return, At, Ticks, dispatch
  <2>16. CASE FillBuffer(t)
    <3>1. cpu' = cpu \/ cpu' = flushed
      BY <2>16 DEF FillBuffer, PageFault, Raises, Traps, flushed
    <3>2. doing' \in {"run", "tick"} /\ UNCHANGED <<saved, current, yieldOnReturn>>
      BY <2>16 DEF FillBuffer, PageFault, Traps, Continues, At, dispatch
    <3>3. QED
      BY <3>1, <3>2, <2>16, <2>1, <1>2 DEF FillBuffer, At
  <2>17. CASE PutLast(t) \/ PutChar(t) \/ GetLast(t) \/ GetChar(t)
    BY <2>17, <2>1 DEF PutLast, PutChar, GetLast, GetChar, Continues, At, dispatch
  <2>18. CASE PutFails(t)
    BY <2>18, <2>1 DEF PutFails, Aborts, At, dispatch
  <2>19. ASSUME NEW l, NEW p \in Places \ {"user"}, NEW asleep \in Places \ {"user"}, NEW next,
                Acquire(t, l, p, asleep, next)
         PROVE  Loads'
    <3>1. doing = "run" /\ current = t /\ place[t] # "user" /\ UNCHANGED yieldOnReturn
      BY <2>19 DEF Acquire, At
    <3>2. CASE TicksTo(t, next) /\ UNCHANGED cpu
      BY <3>1, <3>2, <2>1 DEF TicksTo, Ticks, At, dispatch
    <3>3. CASE SleepsAt(t, asleep)
      BY <3>1, <3>3, <2>2 DEF SleepsAt, Goto
    <3>4. QED
      BY <3>2, <3>3, <2>19 DEF Acquire
  <2>20. ASSUME NEW s, NEW p \in Places \ {"user"}, NEW next, P(t, s, p, next)
         PROVE  Loads'
    <3>1. doing = "run" /\ current = t /\ place[t] # "user" /\ UNCHANGED yieldOnReturn
      BY <2>20 DEF P, At
    <3>2. CASE TicksTo(t, next) /\ UNCHANGED cpu
      BY <3>1, <3>2, <2>1 DEF TicksTo, Ticks, At, dispatch
    <3>3. CASE SleepsAt(t, p)
      BY <3>1, <3>3, <2>2 DEF SleepsAt, Goto
    <3>4. QED
      BY <3>2, <3>3, <2>20 DEF P
  <2>21. CASE PutAcquire(t) \/ GetAcquire(t)
    BY <2>21, <2>19 DEF PutAcquire, GetAcquire, Places
  <2>22. CASE PutWaits(t) \/ GetWaits(t)
    BY <2>22, <2>20 DEF PutWaits, GetWaits, Places
  <2>23. CASE PutRelease(t) \/ GetRelease(t)
    BY <2>23, <2>1 DEF PutRelease, GetRelease, Ticks, At
  <2>24. CASE DrainBuffer(t)
    <3> DEFINE c == [cpu EXCEPT !.r[2] = cpu.r[5]]
    <3>1. c.load = cpu.load
      BY <1>1 DEF Cpus
    <3>2. cpu' = cpu \/ cpu' = flushed \/ cpu' = c
      BY <2>24 DEF DrainBuffer, PageFault, Raises, Traps, flushed
    <3> HIDE DEF c
    <3>3. doing' \in {"run", "tick"} /\ UNCHANGED <<saved, current, yieldOnReturn>>
      BY <2>24 DEF DrainBuffer, PageFault, Traps, Continues, At, dispatch
    <3>4. QED
      BY <3>1, <3>2, <3>3, <2>24, <2>1, <1>2 DEF DrainBuffer, At
  <2>25. QED
    BY <1>7, <2>3, <2>4, <2>5, <2>6, <2>7, <2>8, <2>9, <2>10, <2>11, <2>12, <2>13, <2>14, <2>15,
       <2>16, <2>17, <2>18, <2>21, <2>22, <2>23, <2>24 DEF Thread
<1>8. CASE UNCHANGED vars
  BY <1>5, <1>8 DEF vars, clock, dispatch
<1>9. QED
  BY <1>6, <1>7, <1>8 DEF Next

\* The types are an invariant: the machine never makes a register that is not a
\* word, or a memory of another size (mipssim.cc, translate.cc), and nothing
\* else than a thread is in a queue.
THEOREM MachineIsTyped == Spec => [](MachineTyped /\ Writers)
<1>1. Init => MachineTyped /\ Writers
  BY InitTyped
<1>2. MachineTyped /\ Writers /\ [Next]_vars => (MachineTyped /\ Writers)'
  <2> SUFFICES ASSUME MachineTyped, Writers, [Next]_vars
               PROVE  (MachineTyped /\ Writers)'
    OBVIOUS
  <2>1. Registered' /\ Programs' /\ Devices'
    BY RegisteredStep, ProgramsStep, DevicesStep
  <2>2. Writers'
    BY WritersStep DEF MachineTyped
  <2>3. QED
    BY <2>1, <2>2 DEF MachineTyped
<1>3. QED
  BY <1>1, <1>2, PTL DEF Spec

\* No load is pending while the kernel or another thread has the processor:
\* RaiseException, OneInstruction and the dispatch of an interrupt do it before
\* (machine.cc, mipssim.cc), so that a handler reads the registers the program
\* sees and a switch saves no half-done instruction.
THEOREM LoadsDoneInKernel == Spec => []NoLoadInKernel
<1>1. Init => Loads
  <2> SUFFICES ASSUME Init
               PROVE  Loads
    OBVIOUS
  <2>1. cpu.load = 0 /\ ~yieldOnReturn /\ doing = "run" /\ saved = [t \in Threads |-> cpu]
    BY DEF Init, InterruptInit
  <2>2. QED
    BY <2>1 DEF Loads, NoLoadInKernel
<1>2. MachineTyped /\ Loads /\ [Next]_vars => Loads'
  BY LoadsStep
<1>3. Loads => NoLoadInKernel
  BY DEF Loads
<1>4. QED
  BY <1>1, <1>2, <1>3, MachineIsTyped, PTL DEF Spec

-------------------------------------------------------------------------------
(* The console.                                                            *)

\* The threads that are at a place.
ThreadsAt(p) == {t \in Threads : place[t] = p}

\* A character that GetChar will find is one the keyboard's interrupt has
\* announced; a write that is going on, or whose end has been announced, is that
\* of one thread that waits for it.
Announced ==
  /\ IsFiniteSet(ThreadsAt("getChar")) /\ IsFiniteSet(ThreadsAt("putDone"))
  /\ (IF incoming = EOF THEN 0 ELSE 1)
       = semaphores["readAvail"].value + Cardinality(ThreadsAt("getChar"))
  /\ Cardinality(ThreadsAt("putDone"))
       = semaphores["writeDone"].value + (IF putBusy THEN 1 ELSE 0)

\* What was typed has been taken, waits in the console, or is still to come.
Arriving == IF incoming = EOF THEN <<>> ELSE <<incoming>>
Typed == Setups[setup].input = taken \o Arriving \o input

\* The writer holds the lock, when names tell the threads apart.
WriterHolds ==
  NamesDiffer => \A t \in Threads : place[t] \in {"putChar", "putDone", "putRelease"} =>
                   locks["writeLock"].holder = Name[t]

ConsoleInv == OneWrite(pending, putBusy) /\ Typed /\ Announced /\ WriterHolds

\* How a move of one thread changes who is where.
LEMMA ThreadMoves ==
  ASSUME place \in [Threads -> Places], NEW t \in Threads, NEW p,
         place' = [place EXCEPT ![t] = p], NEW q, IsFiniteSet(ThreadsAt(q))
  PROVE  /\ IsFiniteSet(ThreadsAt(q)')
         /\ Cardinality(ThreadsAt(q)) \in Nat
         /\ (p = q <=> place[t] = q) => Cardinality(ThreadsAt(q)') = Cardinality(ThreadsAt(q))
         /\ p = q /\ place[t] # q => Cardinality(ThreadsAt(q)') = Cardinality(ThreadsAt(q)) + 1
         /\ p # q /\ place[t] = q => Cardinality(ThreadsAt(q)') = Cardinality(ThreadsAt(q)) - 1
<1>1. Cardinality(ThreadsAt(q)) \in Nat
  BY FS_CardinalityType
<1>2. CASE p = q <=> place[t] = q
  <2>1. ThreadsAt(q)' = ThreadsAt(q)
    BY <1>2 DEF ThreadsAt
  <2>2. QED
    BY <2>1, <1>1, <1>2
<1>3. CASE p = q /\ place[t] # q
  <2>1. ThreadsAt(q)' = ThreadsAt(q) \cup {t} /\ t \notin ThreadsAt(q)
    BY <1>3 DEF ThreadsAt
  <2>2. QED
    BY <2>1, <1>1, <1>3, FS_AddElement
<1>4. CASE p # q /\ place[t] = q
  <2>1. ThreadsAt(q)' = ThreadsAt(q) \ {t} /\ t \in ThreadsAt(q)
    BY <1>4 DEF ThreadsAt
  <2>2. QED
    BY <2>1, <1>1, <1>4, FS_RemoveElement
<1>5. QED
  BY <1>2, <1>3, <1>4

\* At most one interrupt of the display is pending.
LEMMA OneWriteStep ==
  ASSUME MachineTyped, OneWrite(pending, putBusy), [Next]_vars
  PROVE  OneWrite(pending, putBusy)'
<1>1. pending \in Seq(Elements(Kinds)) /\ putBusy \in BOOLEAN
  BY DEF MachineTyped, Devices
<1>2. ASSUME UNCHANGED <<pending, putBusy>>
      PROVE  OneWrite(pending, putBusy)'
  BY <1>2 DEF OneWrite
<1>3. ASSUME OneWrite(pending', putBusy')
      PROVE  OneWrite(pending, putBusy)'
  BY <1>3 DEF OneWrite
<1>4. ConsoleTime \in Int /\ "timer" \in Kinds /\ "read" \in Kinds /\ "write" \in Kinds
  BY MachineAssumption DEF Kinds
<1>5. CASE Hardware
  <2>1. CASE OneTick /\ UNCHANGED <<memory, buf, console, synch>>
    <3>1. UserTick \in Int /\ SystemTick \in Int
      BY InterruptAssumption
    <3>2. OneWrite(pending', putBusy)
      BY <2>1, <3>1, <1>1, LaterKeeps DEF OneTick
    <3>3. QED
      BY <3>2, <2>1, <1>3 DEF console
  <2>2. CASE TimerExpired /\ UNCHANGED <<memory, buf, console, synch>>
    <3> DEFINE rest == Tail(pending)
    <3>1. rest \in Seq(Elements(Kinds)) /\ OneWrite(rest, putBusy /\ Head(pending).item # "write")
      BY <2>2, <1>1, FirstTaken DEF TimerExpired, Fires, Due
    <3>2. (putBusy /\ Head(pending).item # "write") = putBusy
      BY <2>2, <1>1 DEF TimerExpired, Fires
    <3>3. PICK n \in 1 .. 2 * TimerTicks : pending' = Schedule(rest, "timer", n)
      BY <2>2 DEF TimerExpired
    <3>4. n \in Int
      BY InterruptAssumption
    <3>5. OneWrite(rest, putBusy)
      BY <3>1, <3>2
    <3> HIDE DEF rest
    <3>6. OneWrite(pending', putBusy)
      BY <3>1, <3>3, <3>4, <3>5, <1>1, <1>4, ScheduleKeeps
    <3>7. QED
      BY <3>6, <2>2, <1>3 DEF console
  <2>3. CASE /\ ReturnFromTick \/ YieldInTick \/ IdleReturns
             /\ UNCHANGED <<memory, buf, console, synch>>
    <3>1. pending' = PutBack /\ putBusy' = putBusy
      BY <2>3 DEF ReturnFromTick, YieldInTick, IdleReturns, console
    <3>2. QED
      BY <3>1, <1>1, <1>3, PutBackKeeps
  <2>4. CASE Idle /\ UNCHANGED <<memory, buf, console, synch>>
    <3>1. putBusy' = putBusy
      BY <2>4 DEF console
    <3>2. CASE pending' = pending
      BY <3>1, <3>2, <1>2
    <3>3. CASE /\ \E i \in DOMAIN pending : pending[i].item # "timer"
               /\ pending' = Later(pending, Head(pending).key)
      <4>1. pending # <<>>
        BY <3>3, <1>1, ElementTypes, EmptySeq
      <4>2. Head(pending).key \in Int
        BY <4>1, <1>1, FirstTaken
      <4>3. QED
        BY <4>2, <3>1, <3>3, <1>1, <1>3, LaterKeeps
    <3>4. QED
      BY <3>2, <3>3, <2>4 DEF Idle
  <2>5. CASE WriteDone
    <3>1. pending # <<>> /\ Head(pending).item = "write" /\ pending' = Tail(pending) /\ ~putBusy'
      BY <2>5 DEF WriteDone, Fires, Due
    <3>2. OneWrite(Tail(pending), putBusy /\ Head(pending).item # "write")
      BY <3>1, <1>1, FirstTaken
    <3>3. (putBusy /\ Head(pending).item # "write") = FALSE /\ putBusy' = FALSE
      BY <3>1, <2>5 DEF WriteDone
    <3>4. OneWrite(Tail(pending), FALSE)
      BY <3>2, <3>3
    <3>5. QED
      BY <3>1, <3>3, <3>4, <1>3
  <2>6. CASE ReadPoll
    <3> DEFINE rest == Tail(pending)
    <3>1. rest \in Seq(Elements(Kinds)) /\ OneWrite(rest, putBusy /\ Head(pending).item # "write")
      BY <2>6, <1>1, FirstTaken DEF ReadPoll, Fires, Due
    <3>2. (putBusy /\ Head(pending).item # "write") = putBusy
      BY <2>6, <1>1 DEF ReadPoll, Fires
    <3>3. pending' = Schedule(rest, "read", ConsoleTime) /\ putBusy' = putBusy
      BY <2>6 DEF ReadPoll
    <3>4. OneWrite(rest, putBusy)
      BY <3>1, <3>2
    <3> HIDE DEF rest
    <3>5. OneWrite(pending', putBusy)
      BY <3>1, <3>3, <3>4, <1>1, <1>4, ScheduleKeeps
    <3>6. QED
      BY <3>3, <3>5, <1>3
  <2>7. QED
    BY <1>5, <2>1, <2>2, <2>3, <2>4, <2>5, <2>6 DEF Hardware
<1>6. ASSUME NEW t \in Threads, Thread(t)
      PROVE  OneWrite(pending, putBusy)'
  <2>1. CASE PutChar(t)
    <3>1. OneWrite(pending, FALSE) /\ putBusy' = TRUE
      BY <2>1, <1>1 DEF PutChar
    <3>2. pending' = Schedule(pending, "write", ConsoleTime)
      BY <2>1 DEF PutChar
    <3>3. QED
      BY <3>1, <3>2, <1>1, <1>3, <1>4, ScheduleKeeps
  <2>2. CASE Root(t) \/ Begin(t) \/ Instruction(t) \/ HostStops(t) \/ UserFault(t) \/ PageIn(t)
             \/ Killed(t) \/ Exit(t) \/ Syscall(t) \/ Stop(t)
    BY <2>2, <1>2 DEF Root, Begin, Instruction, HostStops, UserFault, PageFault, PageIn, Killed,
                      Exit, Syscall, Stop, Traps, console
  <2>3. CASE ReturnAgain(t) \/ ReturnDone(t) \/ ReturnFail(t) \/ FillBuffer(t) \/ PutLast(t)
             \/ PutFails(t) \/ GetLast(t) \/ DrainBuffer(t)
    BY <2>3, <1>2 DEF ReturnAgain, ReturnDone, ReturnFail, Return, FillBuffer, PutLast, PutFails,
                      GetLast, DrainBuffer, PageFault, Traps, console
  <2>4. CASE PutAcquire(t) \/ GetAcquire(t) \/ PutWaits(t) \/ GetWaits(t) \/ PutRelease(t)
             \/ GetRelease(t) \/ GetChar(t)
    BY <2>4, <1>2 DEF PutAcquire, GetAcquire, PutWaits, GetWaits, PutRelease, GetRelease, GetChar,
                      Acquire, P, console
  <2>5. QED
    BY <1>6, <2>1, <2>2, <2>3, <2>4 DEF Thread
<1>7. CASE UNCHANGED vars
  BY <1>2, <1>7 DEF vars, clock, console
<1>8. QED
  BY <1>5, <1>6, <1>7 DEF Next

\* A sequence is its head and its tail.
LEMMA HeadAndTail ==
  ASSUME NEW S, NEW s \in Seq(S), s # <<>>
  PROVE  <<Head(s)>> \o Tail(s) = s
<1>1. Len(s) \in Nat /\ Len(s) >= 1
  BY EmptySeq
<1>2. 1 \in 1 .. Len(s) /\ Len(s) \in 1 .. Len(s)
  BY <1>1
<1>3. SubSeq(s, 1, Len(s)) = <<s[1]>> \o SubSeq(s, 1 + 1, Len(s))
  BY <1>2, SubSeqRecursiveFirst
<1>4. Head(s) = s[1] /\ Tail(s) = SubSeq(s, 2, Len(s)) /\ SubSeq(s, 1, Len(s)) = s /\ 1 + 1 = 2
  BY TailIsSubSeq, SubSeqFull
<1>5. QED
  BY <1>3, <1>4

\* The parts of the type invariant together.
LEMMA TypedStep ==
  ASSUME MachineTyped, Typed, Announced, [Next]_vars
  PROVE  Typed'
<1>1. incoming \in Int /\ input \in Seq(Int \ {EOF}) /\ taken \in Seq(Int)
  BY DEF MachineTyped, Devices
<1>2. input \in Seq(Int)
  <2>1. Int \ {EOF} \subseteq Int
    OBVIOUS
  <2>2. QED
    BY <2>1, <1>1, SeqMonotonic
<1>3. ASSUME UNCHANGED <<setup, incoming, input, taken>>
      PROVE  Typed'
  BY <1>3 DEF Typed, Arriving
<1>4. <<>> \in Seq(Int) /\ taken \o <<>> = taken
  BY <1>1, EmptySeq, ConcatEmptySeq
<1>5. CASE ReadPoll
  <2>1. setup' = setup /\ taken' = taken
    BY <1>5 DEF ReadPoll, memory
  <2>2. CASE UNCHANGED <<incoming, input>>
    BY <2>1, <2>2, <1>3
  <2>3. CASE incoming = EOF /\ input # <<>> /\ incoming' = Head(input) /\ input' = Tail(input)
    <3> DEFINE first == <<Head(input)>>
               rest == Tail(input)
    <3>1. Head(input) \in Int \ {EOF} /\ rest \in Seq(Int)
      BY <2>3, <1>1, <1>2, HeadTailProperties
    <3>2. first \in Seq(Int) /\ first \o rest = input
      BY <3>1, <2>3, <1>2, HeadAndTail
    <3>3. Arriving = <<>> /\ Arriving' = first /\ input' = rest
      BY <3>1, <2>3 DEF Arriving, EOF
    <3> HIDE DEF first, rest
    <3>4. (taken \o first) \o rest = taken \o (first \o rest)
      <4>1. taken \in Seq(Int) /\ first \in Seq(Int) /\ rest \in Seq(Int)
        BY <3>1, <3>2, <1>1
      <4>2. QED
        BY <4>1, ConcatAssociative
    <3>5. Setups[setup].input = taken \o input
      BY <3>3, <1>4 DEF Typed
    <3>6. QED
      BY <3>2, <3>3, <3>4, <3>5, <2>1 DEF Typed
  <2>4. QED
    BY <2>2, <2>3, <1>5 DEF ReadPoll
<1>6. CASE Hardware /\ ~ReadPoll
  BY <1>6, <1>3 DEF Hardware, WriteDone, memory, console
<1>7. ASSUME NEW t \in Threads, Thread(t)
      PROVE  Typed'
  <2>1. CASE GetChar(t)
    <3>1. incoming # EOF
      <4>1. t \in ThreadsAt("getChar")
        BY <2>1 DEF GetChar, At, ThreadsAt
      <4>2. Cardinality(ThreadsAt("getChar")) \in Nat /\ Cardinality(ThreadsAt("getChar")) # 0
        BY <4>1, FS_EmptySet, FS_CardinalityType DEF Announced
      <4>3. semaphores["readAvail"].value \in Nat
        BY DEF MachineTyped, Devices
      <4>4. QED
        BY <4>2, <4>3 DEF Announced
    <3>2. /\ Arriving = <<incoming>> /\ Arriving' = <<>> /\ taken' = Append(taken, incoming)
          /\ input' = input /\ setup' = setup
      BY <3>1, <2>1 DEF GetChar, Arriving, memory
    <3>3. Append(taken, incoming) = taken \o <<incoming>> /\ Append(taken, incoming) \in Seq(Int)
      BY <1>1, AppendIsConcat, AppendProperties
    <3>4. taken' \o <<>> = taken'
      BY <3>2, <3>3, ConcatEmptySeq
    <3>5. QED
      BY <3>2, <3>3, <3>4 DEF Typed
  <2>2. CASE Root(t) \/ Begin(t) \/ Instruction(t) \/ HostStops(t) \/ UserFault(t) \/ PageIn(t)
             \/ Killed(t) \/ Exit(t) \/ Syscall(t) \/ Stop(t)
    BY <2>2, <1>3 DEF Root, Begin, Instruction, HostStops, UserFault, PageFault, PageIn, Killed,
                      Exit, Syscall, Stop, Traps, console, memory
  <2>3. CASE ReturnAgain(t) \/ ReturnDone(t) \/ ReturnFail(t) \/ FillBuffer(t) \/ PutLast(t)
             \/ PutFails(t) \/ GetLast(t) \/ DrainBuffer(t)
    BY <2>3, <1>3 DEF ReturnAgain, ReturnDone, ReturnFail, Return, FillBuffer, PutLast, PutFails,
                      GetLast, DrainBuffer, PageFault, Traps, console, memory
  <2>4. CASE PutAcquire(t) \/ GetAcquire(t) \/ PutWaits(t) \/ GetWaits(t) \/ PutRelease(t)
             \/ GetRelease(t) \/ PutChar(t)
    BY <2>4, <1>3 DEF PutAcquire, GetAcquire, PutWaits, GetWaits, PutRelease, GetRelease, PutChar,
                      Acquire, P, console, memory
  <2>5. QED
    BY <1>7, <2>1, <2>2, <2>3, <2>4 DEF Thread
<1>8. CASE UNCHANGED vars
  BY <1>3, <1>8 DEF vars, memory, console
<1>9. QED
  BY <1>5, <1>6, <1>7, <1>8 DEF Next

\* Waiting writers, units and interrupts of the display stay equal in number.
LEMMA AnnouncedStep ==
  ASSUME MachineTyped, Announced, OneWrite(pending, putBusy), [Next]_vars
  PROVE  Announced'
<1> DEFINE readers == Cardinality(ThreadsAt("getChar"))
           writers == Cardinality(ThreadsAt("putDone"))
           come == semaphores["readAvail"].value
           done == semaphores["writeDone"].value
<1>1. /\ place \in [Threads -> Places] /\ putBusy \in BOOLEAN /\ incoming \in Int
      /\ input \in Seq(Int \ {EOF})
      /\ semaphores \in [{"readAvail", "writeDone"} -> [value : Nat, queue : Seq(Threads)]]
  BY DEF MachineTyped, Programs, Devices
<1>2. come \in Nat /\ done \in Nat
  BY <1>1
<1>3. /\ IsFiniteSet(ThreadsAt("getChar")) /\ IsFiniteSet(ThreadsAt("putDone"))
      /\ (IF incoming = EOF THEN 0 ELSE 1) = come + readers
      /\ writers = done + (IF putBusy THEN 1 ELSE 0)
  BY DEF Announced
<1>4. readers \in Nat /\ writers \in Nat
  BY <1>3, FS_CardinalityType
<1>5. ASSUME IsFiniteSet(ThreadsAt("getChar")'), IsFiniteSet(ThreadsAt("putDone")'),
             (IF incoming' = EOF THEN 0 ELSE 1) = come' + readers',
             writers' = done' + (IF putBusy' THEN 1 ELSE 0)
      PROVE  Announced'
  BY <1>5 DEF Announced
<1>6. place' = place => ThreadsAt("getChar")' = ThreadsAt("getChar")
                        /\ ThreadsAt("putDone")' = ThreadsAt("putDone")
  BY DEF ThreadsAt
<1> HIDE DEF readers, writers, come, done
<1>7. ASSUME place' = place, UNCHANGED <<incoming, putBusy, semaphores>>
      PROVE  Announced'
  BY <1>3, <1>5, <1>6, <1>7 DEF readers, writers, come, done
<1> DEFINE Moves(t, p) ==
             /\ IsFiniteSet(ThreadsAt("getChar")') /\ IsFiniteSet(ThreadsAt("putDone")')
             /\ (p = "getChar" <=> place[t] = "getChar") => readers' = readers
             /\ p = "getChar" /\ place[t] # "getChar" => readers' = readers + 1
             /\ p # "getChar" /\ place[t] = "getChar" => readers' = readers - 1
             /\ (p = "putDone" <=> place[t] = "putDone") => writers' = writers
             /\ p = "putDone" /\ place[t] # "putDone" => writers' = writers + 1
             /\ p # "putDone" /\ place[t] = "putDone" => writers' = writers - 1
<1>8. ASSUME NEW t \in Threads, NEW p, place' = [place EXCEPT ![t] = p]
      PROVE  Moves(t, p)
  <2>1. /\ IsFiniteSet(ThreadsAt("getChar")')
        /\ (p = "getChar" <=> place[t] = "getChar") => readers' = readers
        /\ p = "getChar" /\ place[t] # "getChar" => readers' = readers + 1
        /\ p # "getChar" /\ place[t] = "getChar" => readers' = readers - 1
    BY <1>1, <1>3, <1>8, ThreadMoves DEF readers
  <2>2. /\ IsFiniteSet(ThreadsAt("putDone")')
        /\ (p = "putDone" <=> place[t] = "putDone") => writers' = writers
        /\ p = "putDone" /\ place[t] # "putDone" => writers' = writers + 1
        /\ p # "putDone" /\ place[t] = "putDone" => writers' = writers - 1
    BY <1>1, <1>3, <1>8, ThreadMoves DEF writers
  <2>3. QED
    BY <2>1, <2>2
<1> HIDE DEF Moves
<1>9. ASSUME NEW t \in Threads, place[t] \notin {"getChar", "putDone"},
             NEW p, p \notin {"getChar", "putDone"},
             place' = [place EXCEPT ![t] = p], UNCHANGED <<incoming, putBusy, semaphores>>
      PROVE  Announced'
  <2>1. Moves(t, p)
    BY <1>8, <1>9
  <2>2. /\ readers' = readers /\ writers' = writers
        /\ IsFiniteSet(ThreadsAt("getChar")') /\ IsFiniteSet(ThreadsAt("putDone")')
    BY <2>1, <1>9 DEF Moves
  <2>3. come' = come /\ done' = done
    BY <1>9 DEF come, done
  <2>4. QED
    BY <2>2, <2>3, <1>3, <1>5, <1>9
<1>10. CASE Hardware
  <2>1. CASE WriteDone
    <3>1. putBusy
      BY <2>1, <1>1, FirstTaken DEF WriteDone, Fires, Due, MachineTyped, Devices
    <3>2. come' = come /\ done' = done + 1
      BY <2>1, <1>1 DEF WriteDone, V, come, done
    <3>3. ~putBusy' /\ incoming' = incoming /\ place' = place
      BY <2>1 DEF WriteDone, Fires
    <3>4. readers' = readers /\ writers' = writers
      BY <3>3, <1>6 DEF readers, writers
    <3>5. IsFiniteSet(ThreadsAt("getChar")') /\ IsFiniteSet(ThreadsAt("putDone")')
      BY <3>3, <1>3, <1>6
    <3>6. QED
      BY <3>1, <3>2, <3>3, <3>4, <3>5, <1>2, <1>3, <1>4, <1>5
  <2>2. CASE ReadPoll
    <3>1. place' = place /\ putBusy' = putBusy
      BY <2>2 DEF ReadPoll, Fires
    <3>2. CASE UNCHANGED <<incoming, input, semaphores, ready>>
      BY <3>1, <3>2, <1>7
    <3>3. CASE incoming = EOF /\ input # <<>> /\ incoming' = Head(input) /\ V("readAvail")
      <4>1. incoming' # EOF
        BY <3>3, <1>1, HeadTailProperties
      <4>2. come' = come + 1 /\ done' = done
        BY <3>3, <1>1 DEF V, come, done
      <4>3. readers' = readers /\ writers' = writers
        BY <3>1, <1>6 DEF readers, writers
      <4>4. IsFiniteSet(ThreadsAt("getChar")') /\ IsFiniteSet(ThreadsAt("putDone")')
        BY <3>1, <1>3, <1>6
      <4>5. QED
        BY <3>1, <3>3, <4>1, <4>2, <4>3, <4>4, <1>2, <1>3, <1>4, <1>5
    <3>4. QED
      BY <3>2, <3>3, <2>2 DEF ReadPoll
  <2>3. CASE /\ OneTick \/ TimerExpired \/ ReturnFromTick \/ YieldInTick \/ Idle \/ IdleReturns
             /\ UNCHANGED <<memory, buf, console, synch>>
    BY <2>3, <1>7 DEF OneTick, TimerExpired, Fires, ReturnFromTick, YieldInTick, Idle, IdleReturns,
                      console, synch
  <2>4. QED
    BY <1>10, <2>1, <2>2, <2>3 DEF Hardware
<1>11. ASSUME NEW t \in Threads, Thread(t)
       PROVE  Announced'
  <2>1. CASE PutChar(t)
    <3>1. place' = [place EXCEPT ![t] = "putDone"] /\ place[t] = "putChar"
      BY <2>1 DEF PutChar, Continues, Goto, At
    <3>2. readers' = readers /\ writers' = writers + 1
      <4>1. Moves(t, "putDone")
        BY <3>1, <1>8
      <4>2. QED
        BY <4>1, <3>1 DEF Moves
    <3>3. come' = come /\ done' = done /\ ~putBusy /\ putBusy' /\ incoming' = incoming
      BY <2>1 DEF PutChar, synch, come, done
    <3>4. IsFiniteSet(ThreadsAt("getChar")') /\ IsFiniteSet(ThreadsAt("putDone")')
      BY <3>1, <1>8 DEF Moves
    <3>5. QED
      BY <3>2, <3>3, <3>4, <1>2, <1>3, <1>4, <1>5
  <2>2. CASE GetChar(t)
    <3>1. place' = [place EXCEPT ![t] = "getRelease"] /\ place[t] = "getChar"
      BY <2>2 DEF GetChar, Continues, Goto, At
    <3>2. readers' = readers - 1 /\ writers' = writers
      <4>1. Moves(t, "getRelease")
        BY <3>1, <1>8
      <4>2. QED
        BY <4>1, <3>1 DEF Moves
    <3>3. come' = come /\ done' = done /\ putBusy' = putBusy /\ incoming' = EOF
      BY <2>2 DEF GetChar, synch, come, done
    <3>4. IsFiniteSet(ThreadsAt("getChar")') /\ IsFiniteSet(ThreadsAt("putDone")')
      BY <3>1, <1>8 DEF Moves
    <3>5. readers # 0
      <4>1. t \in ThreadsAt("getChar")
        BY <3>1 DEF ThreadsAt
      <4>2. QED
        BY <4>1, <1>3, FS_EmptySet DEF readers
    <3>6. QED
      BY <3>2, <3>3, <3>4, <3>5, <1>2, <1>3, <1>4, <1>5
  <2>3. CASE PutWaits(t)
    <3>1. place[t] = "putDone" /\ UNCHANGED <<incoming, putBusy>>
      BY <2>3 DEF PutWaits, P, At, console
    <3>2. CASE /\ done > 0 /\ semaphores' = [semaphores EXCEPT !["writeDone"].value = @ - 1]
               /\ place' = [place EXCEPT ![t] = "putRelease"]
      <4>1. readers' = readers /\ writers' = writers - 1
        <5>1. Moves(t, "putRelease")
          BY <3>2, <1>8 DEF Moves
        <5>2. QED
          BY <5>1, <3>1 DEF Moves
      <4>2. come' = come /\ done' = done - 1
        BY <3>2, <1>1 DEF come, done
      <4>3. IsFiniteSet(ThreadsAt("getChar")') /\ IsFiniteSet(ThreadsAt("putDone")')
        BY <3>2, <1>8 DEF Moves
      <4>4. QED
        BY <3>1, <4>1, <4>2, <4>3, <1>2, <1>3, <1>4, <1>5
    <3>3. CASE /\ semaphores' = [semaphores EXCEPT !["writeDone"].queue = Append(@, t)]
               /\ place' = [place EXCEPT ![t] = "putDone"]
      <4>1. readers' = readers /\ writers' = writers
        <5>1. Moves(t, "putDone")
          BY <3>3, <1>8 DEF Moves
        <5>2. QED
          BY <5>1, <3>1 DEF Moves
      <4>2. come' = come /\ done' = done
        BY <3>3, <1>1 DEF come, done
      <4>3. IsFiniteSet(ThreadsAt("getChar")') /\ IsFiniteSet(ThreadsAt("putDone")')
        BY <3>3, <1>8 DEF Moves
      <4>4. QED
        BY <3>1, <4>1, <4>2, <4>3, <1>2, <1>3, <1>4, <1>5
    <3>4. QED
      BY <3>2, <3>3, <2>3 DEF PutWaits, P, TicksTo, Ticks, SleepsAt, Goto, done
  <2>4. CASE GetWaits(t)
    <3>1. place[t] = "getWait" /\ UNCHANGED <<incoming, putBusy>>
      BY <2>4 DEF GetWaits, P, At, console
    <3>2. CASE /\ come > 0 /\ semaphores' = [semaphores EXCEPT !["readAvail"].value = @ - 1]
               /\ place' = [place EXCEPT ![t] = "getChar"]
      <4>1. readers' = readers + 1 /\ writers' = writers
        <5>1. Moves(t, "getChar")
          BY <3>2, <1>8 DEF Moves
        <5>2. QED
          BY <5>1, <3>1 DEF Moves
      <4>2. come' = come - 1 /\ done' = done
        BY <3>2, <1>1 DEF come, done
      <4>3. IsFiniteSet(ThreadsAt("getChar")') /\ IsFiniteSet(ThreadsAt("putDone")')
        BY <3>2, <1>8 DEF Moves
      <4>4. QED
        BY <3>1, <4>1, <4>2, <4>3, <1>2, <1>3, <1>4, <1>5
    <3>3. CASE /\ semaphores' = [semaphores EXCEPT !["readAvail"].queue = Append(@, t)]
               /\ place' = [place EXCEPT ![t] = "getWait"]
      <4>1. readers' = readers /\ writers' = writers
        <5>1. Moves(t, "getWait")
          BY <3>3, <1>8 DEF Moves
        <5>2. QED
          BY <5>1, <3>1 DEF Moves
      <4>2. come' = come /\ done' = done
        BY <3>3, <1>1 DEF come, done
      <4>3. IsFiniteSet(ThreadsAt("getChar")') /\ IsFiniteSet(ThreadsAt("putDone")')
        BY <3>3, <1>8 DEF Moves
      <4>4. QED
        BY <3>1, <4>1, <4>2, <4>3, <1>2, <1>3, <1>4, <1>5
    <3>4. QED
      BY <3>2, <3>3, <2>4 DEF GetWaits, P, TicksTo, Ticks, SleepsAt, Goto, come
  <2>5. CASE Root(t) \/ Begin(t) \/ Instruction(t) \/ UserFault(t) \/ Killed(t) \/ Exit(t)
             \/ ReturnAgain(t) \/ ReturnDone(t) \/ ReturnFail(t)
    <3>1. /\ place[t] \notin {"getChar", "putDone"} /\ UNCHANGED <<incoming, putBusy, semaphores>>
          /\ \E p \in Places \ {"getChar", "putDone"} : place' = [place EXCEPT ![t] = p]
      BY <2>5 DEF Root, Begin, Instruction, UserFault, PageFault, Killed, Exit, ReturnAgain,
                  ReturnDone, ReturnFail, Return, Traps, TicksTo, Ticks, SleepsAt, Goto, Places,
                  At, console, synch
    <3>2. QED
      BY <3>1, <1>9
  <2>6. CASE HostStops(t) \/ Stop(t) \/ PutFails(t)
    BY <2>6, <1>7 DEF HostStops, Stop, PutFails, Aborts, console, synch
  <2>7. CASE PageIn(t)
    <3>1. fault[t].back \in {"user", "fill", "drain"}
      BY DEF MachineTyped, Programs
    <3>2. QED
      BY <3>1, <2>7, <1>9 DEF PageIn, Goto, At, console, synch
  <2>8. CASE Syscall(t)
    <3>1. \E p \in Places \ {"getChar", "putDone"} : place' = [place EXCEPT ![t] = p]
      BY <2>8 DEF Syscall, Traps, Goto, Places
    <3>2. QED
      BY <3>1, <2>8, <1>9 DEF Syscall, Traps, At, console, synch
  <2>9. CASE FillBuffer(t) \/ DrainBuffer(t)
    <3>1. \E p \in Places \ {"getChar", "putDone"} : place' = [place EXCEPT ![t] = p]
      BY <2>9 DEF FillBuffer, DrainBuffer, PageFault, Traps, Continues, Goto, Places
    <3>2. place[t] \notin {"getChar", "putDone"} /\ UNCHANGED <<incoming, putBusy, semaphores>>
      BY <2>9 DEF FillBuffer, DrainBuffer, PageFault, Traps, At, console, synch
    <3>3. QED
      BY <3>1, <3>2, <1>9
  <2>10. CASE PutLast(t) \/ GetLast(t) \/ GetAcquire(t) \/ PutAcquire(t) \/ PutRelease(t)
              \/ GetRelease(t)
    <3>1. \E p \in Places \ {"getChar", "putDone"} : place' = [place EXCEPT ![t] = p]
      BY <2>10 DEF PutLast, GetLast, GetAcquire, PutAcquire, PutRelease, GetRelease, Acquire,
                   TicksTo, Ticks, SleepsAt, Continues, Goto, Places
    <3>2. place[t] \notin {"getChar", "putDone"} /\ UNCHANGED <<incoming, putBusy, semaphores>>
      BY <2>10 DEF PutLast, GetLast, GetAcquire, PutAcquire, PutRelease, GetRelease, Acquire, At,
                   console, synch
    <3>3. QED
      BY <3>1, <3>2, <1>9
  <2>11. QED
    BY <1>11, <2>1, <2>2, <2>3, <2>4, <2>5, <2>6, <2>7, <2>8, <2>9, <2>10 DEF Thread
<1>12. CASE UNCHANGED vars
  BY <1>7, <1>12 DEF vars, console, synch
<1>13. QED
  BY <1>10, <1>11, <1>12 DEF Next

\* A step moves at most one thread, and none back to where it began.
LEMMA OneMoves ==
  ASSUME MachineTyped, [Next]_vars
  PROVE  \/ place' = place
         \/ \E t \in Threads : \E p \in Places \ {"root"} : place' = [place EXCEPT ![t] = p]
<1>1. CASE Hardware
  BY <1>1 DEF Hardware, OneTick, TimerExpired, ReturnFromTick, YieldInTick, Idle, IdleReturns,
              WriteDone, ReadPoll, Fires
<1>2. ASSUME NEW t \in Threads, Thread(t)
      PROVE  place' = place \/ \E p \in Places \ {"root"} : place' = [place EXCEPT ![t] = p]
  <2>1. CASE Root(t) \/ Begin(t) \/ Instruction(t) \/ UserFault(t) \/ Killed(t) \/ Exit(t)
             \/ ReturnAgain(t) \/ ReturnDone(t) \/ ReturnFail(t)
    BY <2>1 DEF Root, Begin, Instruction, UserFault, PageFault, Killed, Exit, ReturnAgain,
                ReturnDone, ReturnFail, Return, Traps, TicksTo, Ticks, SleepsAt, Goto, Places
  <2>2. CASE HostStops(t) \/ Stop(t) \/ PutFails(t)
    BY <2>2 DEF HostStops, Stop, PutFails, Aborts
  <2>3. CASE PageIn(t)
    <3>1. fault[t].back \in Places \ {"root"}
      BY DEF MachineTyped, Programs, Places
    <3>2. QED
      BY <3>1, <2>3 DEF PageIn, Goto
  <2>4. CASE Syscall(t)
    BY <2>4 DEF Syscall, Traps, Goto, Places
  <2>5. CASE FillBuffer(t) \/ DrainBuffer(t)
    BY <2>5 DEF FillBuffer, DrainBuffer, PageFault, Traps, Continues, Goto, Places
  <2>6. CASE PutLast(t) \/ GetLast(t) \/ GetAcquire(t) \/ PutAcquire(t) \/ PutRelease(t)
             \/ GetRelease(t) \/ PutWaits(t) \/ GetWaits(t) \/ PutChar(t) \/ GetChar(t)
    BY <2>6 DEF PutLast, GetLast, GetAcquire, PutAcquire, PutRelease, GetRelease, PutWaits,
                GetWaits, PutChar, GetChar, Acquire, P, TicksTo, Ticks, SleepsAt, Continues, Goto,
                Places
  <2>7. QED
    BY <1>2, <2>1, <2>2, <2>3, <2>4, <2>5, <2>6 DEF Thread
<1>3. CASE UNCHANGED vars
  BY <1>3 DEF vars
<1>4. QED
  BY <1>1, <1>2, <1>3 DEF Next

\* So names that are distinct among the threads that have run were before.
LEMMA NamesDiffered ==
  ASSUME MachineTyped, [Next]_vars, NamesDiffer'
  PROVE  NamesDiffer
<1>1. \A t \in Threads : place[t] # "root" => place'[t] # "root"
  BY OneMoves DEF MachineTyped, Programs
<1>2. QED
  BY <1>1 DEF NamesDiffer

\* A writer in the middle of putChar has written its name into writeLock.
LEMMA WriterHoldsStep ==
  ASSUME MachineTyped, WriterHolds, [Next]_vars
  PROVE  WriterHolds'
<1> DEFINE Writing == {"putChar", "putDone", "putRelease"}
           holder == locks["writeLock"].holder
<1>1. /\ place \in [Threads -> Places]
      /\ locks \in LockTypes
  BY DEF MachineTyped, Programs, Devices, LockTypes
<1>2. SUFFICES ASSUME NamesDiffer
               PROVE  \A t \in Threads : place'[t] \in Writing => holder' = Name[t]
  BY NamesDiffered DEF WriterHolds
<1>3. \A t \in Threads : place[t] \in Writing => holder = Name[t]
  BY <1>2 DEF WriterHolds
<1>4. ASSUME holder' = holder, \A t \in Threads : place'[t] \in Writing => place[t] \in Writing,
             NEW u \in Threads, place'[u] \in Writing
      PROVE  holder' = Name[u]
  BY <1>3, <1>4
<1>5. ASSUME NEW t \in Threads, NEW p, place' = [place EXCEPT ![t] = p],
             p \in Writing => place[t] \in Writing
      PROVE  \A u \in Threads : place'[u] \in Writing => place[u] \in Writing
  BY <1>1, <1>5
<1>6. CASE Hardware
  <2>1. place' = place /\ locks' = locks
    BY <1>6 DEF Hardware, OneTick, TimerExpired, ReturnFromTick, YieldInTick, Idle, IdleReturns,
                WriteDone, ReadPoll, Fires, synch
  <2>2. QED
    BY <2>1, <1>4
<1>7. ASSUME NEW t \in Threads, Thread(t)
      PROVE  \A u \in Threads : place'[u] \in Writing => holder' = Name[u]
  <2>1. CASE PutAcquire(t)
    <3>1. CASE /\ holder = FREE \/ (place[t] = "put" /\ holder = Name[t])
               /\ locks' = [locks EXCEPT !["writeLock"].holder = Name[t]]
               /\ place' = [place EXCEPT ![t] = "putChar"]
               /\ place[t] \in {"put", "putAsleep"}
      <4>1. holder' = Name[t]
        BY <3>1, <1>1 DEF LockTypes
      <4>2. ASSUME NEW u \in Threads, place'[u] \in Writing, u # t
            PROVE  FALSE
        <5>1. place[u] \in Writing
          BY <3>1, <4>2, <1>1
        <5>2. holder = Name[u] /\ Name[u] # FREE
          BY <5>1, <1>3, MachineAssumption
        <5>3. Name[u] = Name[t] /\ place[t] # "root" /\ place[u] # "root"
          BY <3>1, <5>1, <5>2
        <5>4. QED
          BY <5>3, <4>2, <1>2 DEF NamesDiffer
      <4>3. QED
        BY <4>1, <4>2
    <3>2. CASE /\ locks' = [locks EXCEPT !["writeLock"].queue = Append(@, t)]
               /\ place' = [place EXCEPT ![t] = "putAsleep"]
      <4>1. holder' = holder
        BY <3>2, <1>1 DEF LockTypes
      <4>2. QED
        BY <4>1, <3>2, <1>4, <1>5
    <3>3. QED
      BY <3>1, <3>2, <2>1 DEF PutAcquire, Acquire, TicksTo, Ticks, SleepsAt, Goto, At
  <2>2. CASE PutRelease(t)
    <3>1. holder = Name[t] /\ place[t] = "putRelease" /\ place' = [place EXCEPT ![t] = "put"]
      BY <2>2 DEF PutRelease, Releases, Ticks, At
    <3>2. ASSUME NEW u \in Threads, place'[u] \in Writing
          PROVE  FALSE
      <4>1. place[u] \in Writing /\ u # t
        BY <3>1, <3>2, <1>1
      <4>2. Name[u] = Name[t] /\ place[t] # "root" /\ place[u] # "root"
        BY <4>1, <3>1, <1>3
      <4>3. QED
        BY <4>1, <4>2, <1>2 DEF NamesDiffer
    <3>3. QED
      BY <3>2
  <2>3. CASE GetAcquire(t)
    <3>1. /\ \/ locks' = [locks EXCEPT !["readLock"].holder = Name[t]]
             \/ locks' = [locks EXCEPT !["readLock"].queue = Append(@, t)]
          /\ \E p \in {"getWait", "getAsleep"} : place' = [place EXCEPT ![t] = p]
      BY <2>3 DEF GetAcquire, Acquire, TicksTo, Ticks, SleepsAt, Goto
    <3>2. holder' = holder
      BY <3>1, <1>1 DEF LockTypes
    <3>3. QED
      BY <3>1, <3>2, <1>4, <1>5
  <2>4. CASE GetRelease(t)
    <3>1. /\ \E h : locks' = [locks EXCEPT !["readLock"] = h]
          /\ place' = [place EXCEPT ![t] = "get"]
      <4>1. \E h : locks' = [locks EXCEPT !["readLock"] = h]
        BY <2>4 DEF GetRelease, Releases
      <4>2. QED
        BY <4>1, <2>4 DEF GetRelease, Ticks
    <3>2. holder' = holder
      BY <3>1, <1>1 DEF LockTypes
    <3>3. QED
      BY <3>1, <3>2, <1>4, <1>5
  <2>5. CASE PutChar(t) \/ PutWaits(t)
    <3>1. /\ locks' = locks /\ place[t] \in Writing
          /\ \E p : place' = [place EXCEPT ![t] = p]
      BY <2>5 DEF PutChar, PutWaits, P, TicksTo, Ticks, SleepsAt, Continues, Goto, At, synch
    <3>2. QED
      BY <3>1, <1>4, <1>5
  <2>6. CASE Root(t) \/ Begin(t) \/ Instruction(t) \/ UserFault(t) \/ Killed(t) \/ Exit(t)
             \/ ReturnAgain(t) \/ ReturnDone(t) \/ ReturnFail(t)
    <3>1. locks' = locks /\ \E p \in Places \ Writing : place' = [place EXCEPT ![t] = p]
      BY <2>6 DEF Root, Begin, Instruction, UserFault, PageFault, Killed, Exit, ReturnAgain,
                  ReturnDone, ReturnFail, Return, Traps, TicksTo, Ticks, SleepsAt, Goto, Places,
                  synch
    <3>2. QED
      BY <3>1, <1>4, <1>5
  <2>7. CASE HostStops(t) \/ Stop(t) \/ PutFails(t)
    <3>1. locks' = locks /\ place' = place
      BY <2>7 DEF HostStops, Stop, PutFails, Aborts, synch
    <3>2. QED
      BY <3>1, <1>4
  <2>8. CASE PageIn(t)
    <3>1. fault[t].back \notin Writing
      BY DEF MachineTyped, Programs
    <3>2. locks' = locks /\ place' = [place EXCEPT ![t] = fault[t].back]
      BY <2>8 DEF PageIn, Goto, synch
    <3>3. QED
      BY <3>1, <3>2, <1>4, <1>5
  <2>9. CASE Syscall(t)
    <3>1. \E p \in Places \ Writing : place' = [place EXCEPT ![t] = p]
      BY <2>9 DEF Syscall, Traps, Goto, Places
    <3>2. QED
      BY <3>1, <2>9, <1>4, <1>5 DEF Syscall, Traps, synch
  <2>10. CASE FillBuffer(t) \/ DrainBuffer(t)
    <3>1. \E p \in Places \ Writing : place' = [place EXCEPT ![t] = p]
      BY <2>10 DEF FillBuffer, DrainBuffer, PageFault, Traps, Continues, Goto, Places
    <3>2. locks' = locks
      BY <2>10 DEF FillBuffer, DrainBuffer, PageFault, Traps, synch
    <3>3. QED
      BY <3>1, <3>2, <1>4, <1>5
  <2>11. CASE PutLast(t) \/ GetLast(t) \/ GetWaits(t) \/ GetChar(t)
    <3>1. locks' = locks /\ \E p \in Places \ Writing : place' = [place EXCEPT ![t] = p]
      BY <2>11 DEF PutLast, GetLast, GetWaits, GetChar, P, TicksTo, Ticks, SleepsAt, Continues,
                   Goto, Places, synch
    <3>2. QED
      BY <3>1, <1>4, <1>5
  <2>12. QED
    BY <1>7, <2>1, <2>2, <2>3, <2>4, <2>5, <2>6, <2>7, <2>8, <2>9, <2>10, <2>11 DEF Thread
<1>8. CASE UNCHANGED vars
  <2>1. place' = place /\ locks' = locks
    BY <1>8 DEF vars, synch
  <2>2. QED
    BY <2>1, <1>4
<1>9. QED
  BY <1>6, <1>7, <1>8 DEF Next

\* Nothing is typed, shown or waited for at the start.
LEMMA InitConsole ==
  ASSUME Init
  PROVE  ConsoleInv
<1>1. /\ putBusy = FALSE /\ incoming = EOF /\ input = Setups[setup].input /\ taken = <<>>
      /\ semaphores = [s \in {"readAvail", "writeDone"} |-> [value |-> 0, queue |-> <<>>]]
      /\ place = [t \in Threads |-> IF t = First THEN "begin" ELSE "root"]
  BY DEF Init, InterruptInit
<1>2. OneWrite(pending, putBusy)
  BY <1>1, InitPending
<1>3. Typed
  <2>1. Setups[setup].input \in Seq(Int \ {EOF})
    BY MachineAssumption DEF Init
  <2>2. <<>> \o input = input /\ <<>> \o <<>> = <<>>
    BY <2>1, <1>1, ConcatEmptySeq, EmptySeq
  <2>3. QED
    BY <2>2, <1>1 DEF Typed, Arriving
<1>4. Announced
  <2>1. ThreadsAt("getChar") = {} /\ ThreadsAt("putDone") = {}
    BY <1>1 DEF ThreadsAt
  <2>2. IsFiniteSet({}) /\ Cardinality({}) = 0
    BY FS_EmptySet
  <2>3. semaphores["readAvail"].value = 0 /\ semaphores["writeDone"].value = 0
    BY <1>1
  <2>4. IsFiniteSet(ThreadsAt("getChar")) /\ Cardinality(ThreadsAt("getChar")) = 0
    BY <2>1, <2>2
  <2>5. IsFiniteSet(ThreadsAt("putDone")) /\ Cardinality(ThreadsAt("putDone")) = 0
    BY <2>1, <2>2
  <2>6. QED
    BY <2>3, <2>4, <2>5, <1>1 DEF Announced
<1>5. WriterHolds
  BY <1>1 DEF WriterHolds
<1>6. QED
  BY <1>2, <1>3, <1>4, <1>5 DEF ConsoleInv

\* What ConsoleConserves says follows from the invariant.
LEMMA ConsoleInvImplies ==
  ASSUME MachineTyped, ConsoleInv
  PROVE  ConsoleConserves
<1> DEFINE writes == {i \in DOMAIN pending : pending[i].item = "write"}
           waiting == {t \in Threads : place[t] = "putDone"}
<1>1. putBusy \in BOOLEAN /\ semaphores["writeDone"].value \in Nat
  BY DEF MachineTyped, Devices
<1>2. Cardinality(writes) = (IF putBusy THEN 1 ELSE 0)
  <2>1. CASE putBusy
    <3>1. PICK i \in DOMAIN pending : pending[i].item = "write"
      BY <2>1 DEF ConsoleInv, OneWrite
    <3>2. writes = {i}
      BY <3>1 DEF ConsoleInv, OneWrite
    <3>3. Cardinality({i}) = 1
      BY FS_Singleton
    <3>4. QED
      BY <3>2, <3>3, <2>1
  <2>2. CASE ~putBusy
    <3>1. writes = {}
      BY <2>2 DEF ConsoleInv, OneWrite
    <3>2. QED
      BY <3>1, <2>2, FS_EmptySet
  <2>3. QED
    BY <2>1, <2>2
<1>3. waiting = ThreadsAt("putDone")
  BY DEF ThreadsAt
<1>4. /\ IsFiniteSet(waiting)
      /\ Cardinality(waiting) = semaphores["writeDone"].value + (IF putBusy THEN 1 ELSE 0)
  BY <1>3 DEF ConsoleInv, Announced
<1> HIDE DEF writes, waiting
<1>5. ASSUME NamesDiffer, NEW t \in Threads, place[t] = "putChar", putBusy
      PROVE  FALSE
  <2>1. Cardinality(waiting) # 0
    BY <1>1, <1>4, <1>5
  <2>2. waiting # {}
    BY <2>1, <1>4, FS_EmptySet
  <2>3. PICK u \in Threads : place[u] = "putDone"
    BY <2>2 DEF waiting
  <2>4. Name[u] = locks["writeLock"].holder /\ Name[t] = locks["writeLock"].holder
    BY <2>3, <1>5 DEF ConsoleInv, WriterHolds
  <2>5. u = t
    BY <2>3, <2>4, <1>5 DEF NamesDiffer
  <2>6. QED
    BY <2>3, <2>5, <1>5
<1>6. Setups[setup].input = taken \o Arriving \o input
  BY DEF ConsoleInv, Typed
<1>7. QED
  BY <1>2, <1>4, <1>5, <1>6 DEF ConsoleConserves, writes, waiting, Arriving

\* No character other than the byte EOF is lost, invented or taken twice between
\* the keyboard and the programs, each interrupt of the display wakes one
\* writer, and nobody writes to a busy display unless two threads have one name
\* (Console::PutChar, GetChar, WriteDone and CheckCharAvail under SynchConsole's
\* locks).  MachineAssumption has no EOF in the input: CheckCharAvail takes that
\* byte for no character, and the next one overwrites it (console.cc:102-107).
THEOREM ConsoleKeepsCharacters == Spec => []ConsoleConserves
<1>1. Init => ConsoleInv
  BY InitConsole
<1>2. MachineTyped /\ ConsoleInv /\ [Next]_vars => ConsoleInv'
  <2> SUFFICES ASSUME MachineTyped, ConsoleInv, [Next]_vars
               PROVE  ConsoleInv'
    OBVIOUS
  <2>1. OneWrite(pending, putBusy)'
    BY OneWriteStep DEF ConsoleInv
  <2>2. Typed'
    BY TypedStep DEF ConsoleInv
  <2>3. Announced'
    BY AnnouncedStep DEF ConsoleInv
  <2>4. WriterHolds'
    BY WriterHoldsStep DEF ConsoleInv
  <2>5. QED
    BY <2>1, <2>2, <2>3, <2>4 DEF ConsoleInv
<1>3. MachineTyped /\ ConsoleInv => ConsoleConserves
  BY ConsoleInvImplies
<1>4. QED
  BY <1>1, <1>2, <1>3, MachineIsTyped, PTL DEF Spec

-------------------------------------------------------------------------------
(* A processor of its own: an instruction that does not fault does with the *)
(* pages that are in memory what it does with all of them.                 *)

\* The memory of space, with every page in memory.
AllIn(all, space) == /\ all.bytes = space.bytes
                     /\ all.valid = {a \div PageSize : a \in DOMAIN space.bytes}

\* In memory that is all valid no page faults.
LEMMA TranslateAll ==
  ASSUME NEW space, NEW all, AllIn(all, space), NEW addr, NEW size,
         Translate(space, addr, size) # "PageFault"
  PROVE  Translate(all, addr, size) = Translate(space, addr, size)
<1>1. CASE addr % size # 0 \/ Unsigned(addr) \notin DOMAIN space.bytes
  BY <1>1 DEF Translate, AllIn
<1>2. CASE addr % size = 0 /\ Unsigned(addr) \in DOMAIN space.bytes
  <2>1. Unsigned(addr) \div PageSize \in all.valid
    BY <1>2 DEF AllIn
  <2>2. QED
    BY <1>2, <2>1 DEF Translate, AllIn
<1>3. QED
  BY <1>1, <1>2

\* An instruction that does not fault does what it would with all pages there.
LEMMA ExecuteAll ==
  ASSUME NEW space, NEW all, AllIn(all, space), NEW n, NEW s \in Results(n), NEW i,
         Execute(i, s, space).outcome # "PageFault"
  PROVE  Execute(i, s, all) = Execute(i, s, space)
<1>1. \A addr, size : ReadMem(all, addr, size) = ReadMem(space, addr, size)
  BY DEF ReadMem, AllIn
<1>2. \A addr, size, value : WriteMem(all, addr, size, value) = WriteMem(space, addr, size, value)
  BY DEF WriteMem, AllIn
<1>3. \A addr : Stops(s, "PageFault", addr).outcome = "PageFault"
  BY DEF Stops, Results
<1>4. ASSUME Load(i, s, space).outcome # "PageFault"
      PROVE  Load(i, s, all) = Load(i, s, space)
  <2> DEFINE addr == Signed(s.cpu.r[i.rs] + i.extra)
             size == SizeOf(i.opCode)
  <2>1. Translate(space, addr, size) # "PageFault"
    BY <1>3, <1>4 DEF Load
  <2>2. Translate(all, addr, size) = Translate(space, addr, size)
    BY <2>1, TranslateAll
  <2>3. QED
    BY <2>2, <1>1 DEF Load
<1>5. ASSUME Store(i, s, space).outcome # "PageFault"
      PROVE  Store(i, s, all) = Store(i, s, space)
  <2> DEFINE addr == Signed(s.cpu.r[i.rs] + i.extra)
             size == SizeOf(i.opCode)
  <2>1. Translate(space, addr, size) # "PageFault"
    BY <1>3, <1>5 DEF Store
  <2>2. Translate(all, addr, size) = Translate(space, addr, size)
    BY <2>1, TranslateAll
  <2>3. QED
    BY <2>2, <1>2 DEF Store
<1>6. ASSUME LoadUnaligned(i, s, space).outcome # "PageFault"
      PROVE  LoadUnaligned(i, s, all) = LoadUnaligned(i, s, space)
  <2> DEFINE addr == Signed(s.cpu.r[i.rs] + i.extra)
  <2>1. CASE addr % 4 # 0
    BY <2>1 DEF LoadUnaligned
  <2>2. CASE addr % 4 = 0
    <3>1. Translate(space, addr, 4) # "PageFault"
      BY <2>2, <1>3, <1>6 DEF LoadUnaligned
    <3>2. Translate(all, addr, 4) = Translate(space, addr, 4)
      BY <3>1, TranslateAll
    <3>3. QED
      BY <3>2, <1>1 DEF LoadUnaligned
  <2>3. QED
    BY <2>1, <2>2
<1>7. ASSUME StoreUnaligned(i, s, space).outcome # "PageFault"
      PROVE  StoreUnaligned(i, s, all) = StoreUnaligned(i, s, space)
  <2> DEFINE addr == Signed(s.cpu.r[i.rs] + i.extra)
  <2>1. CASE addr % 4 # 0
    BY <2>1 DEF StoreUnaligned
  <2>2. CASE addr % 4 = 0
    <3>1. Translate(space, addr, 4) # "PageFault"
      BY <2>2, <1>3, <1>7 DEF StoreUnaligned
    <3>2. Translate(all, addr, 4) = Translate(space, addr, 4)
      BY <3>1, TranslateAll
    <3>3. QED
      BY <3>2, <1>1, <1>2 DEF StoreUnaligned
  <2>3. QED
    BY <2>1, <2>2
<1>8. QED
  BY <1>4, <1>5, <1>6, <1>7 DEF Execute

\* The same with the fetch of the instruction.
LEMMA OneInstructionAll ==
  ASSUME NEW code, NEW c \in Cpus, NEW space, NEW n, Runnable(code, space, n),
         NEW all, AllIn(all, space), OneInstruction(code, c, space).outcome # "PageFault"
  PROVE  OneInstruction(code, c, all) = OneInstruction(code, c, space)
<1> DEFINE i == Decode(code[Unsigned(c.pc)])
           start == Started(c, space)
           s == Execute(i, start, space)
           fetch == Translate(space, c.pc, 4)
<1>1. Started(c, all) = start /\ start \in Results(n) /\ all.bytes = space.bytes
  BY StartedType DEF Started, AllIn, Runnable
<1>2. fetch # "PageFault"
  <2>1. CASE fetch # "NoException"
    <3>1. OneInstruction(code, c, space) = Stops(start, fetch, c.pc)
      BY <2>1 DEF OneInstruction, Commit
    <3>2. Stops(start, fetch, c.pc).outcome = fetch
      BY <1>1 DEF Stops, Results
    <3>3. QED
      BY <3>1, <3>2
  <2>2. QED
    BY <2>1
<1>3. Translate(all, c.pc, 4) = fetch
  BY <1>2, TranslateAll
<1>4. CASE fetch # "NoException"
  <2> HIDE DEF i, start
  <2>1. OneInstruction(code, c, space) = Stops(start, fetch, c.pc)
    BY <1>4 DEF OneInstruction, Commit, start
  <2>2. OneInstruction(code, c, all) = Stops(start, fetch, c.pc)
    BY <1>1, <1>3, <1>4 DEF OneInstruction, Commit, start
  <2>3. QED
    BY <2>1, <2>2
<1>5. CASE fetch = "NoException"
  <2>1. c.pc \in Int
    BY SmallWords DEF Cpus
  <2>2. c.pc % 4 = 0 /\ Unsigned(c.pc) \in 0 .. n - 1
    <3>1. DOMAIN space.bytes = 0 .. n - 1
      BY DEF Runnable, Memories
    <3>2. QED
      BY <3>1, <1>5 DEF Translate
  <2>3. Unsigned(c.pc) % 4 = 0
    BY <2>1, <2>2, SignedWord
  <2>4. code[Unsigned(c.pc)] \in Instructions
    BY <2>2, <2>3 DEF Runnable
  <2>5. FieldsFit(i) /\ i.opCode \in DirectNames \cup SpecialNames \cup BranchNames
    BY <2>4, DecodeType
  <2> HIDE DEF i, start
  <2>6. s \in Results(n)
    BY <2>5, <1>1, ExecuteType DEF Runnable
  <2>7. s.outcome # "PageFault"
    <3>1. CASE s.outcome = "done"
      BY <3>1
    <3>2. CASE s.outcome # "done"
      <4>1. OneInstruction(code, c, space) = [s EXCEPT !.cpu = c, !.bytes = space.bytes]
        BY <1>5, <3>2 DEF OneInstruction, Commit, i, start
      <4> HIDE DEF s
      <4>2. [s EXCEPT !.cpu = c, !.bytes = space.bytes].outcome = s.outcome
        BY <2>6 DEF Results
      <4>3. QED
        BY <4>1, <4>2
    <3>3. QED
      BY <3>1, <3>2
  <2>8. Execute(i, start, all) = s
    BY <2>7, <1>1, ExecuteAll
  <2>9. Execute(Decode(code[Unsigned(c.pc)]), Started(c, all), all) = s
    BY <2>8, <1>1 DEF i
  <2>10. s = Execute(Decode(code[Unsigned(c.pc)]), Started(c, space), space)
    BY DEF i, start
  <2> HIDE DEF s
  <2>11. QED
    BY <2>9, <2>10, <1>1, <1>3, <1>5 DEF OneInstruction, Commit
<1>6. QED
  BY <1>4, <1>5

-------------------------------------------------------------------------------
(* Whose registers are where.                                              *)

\* The registers of a thread, in the machine or saved.
View(u) == IF u = current THEN cpu ELSE saved[u]

\* A step of another thread: nothing of u changes.
Quiet(u) == /\ place'[u] = place[u] /\ fault'[u] = fault[u] /\ buf'[u] = buf[u]
            /\ bytes'[u] = bytes[u]
            /\ place[u] # "root" => View(u)' = View(u)

\* The machine uses the page table of the program it runs.
AtHome == place[current] \notin {"root", "begin"} => addressSpace = current

\* In the kernel nothing is left for DelayedLoad to do.
Settled(c) == c.load = 0 /\ c.loadValue = 0 /\ c.r[0] = 0
Sound(u) == ModeOf(u) \in {"call", "ended"} => Settled(View(u))

\* What a Read has in its buffer fits where it will be written.
Reads(u) == \/ place[u] \in {"get", "getAsleep", "getWait", "getChar", "getRelease", "drain"}
            \/ place[u] = "pageIn" /\ fault[u].back = "drain"
Reading(u) ==
  /\ Reads(u) => View(u).r[2] = 6 /\ Len(buf[u]) <= View(u).r[5]
  /\ place[u] \in {"getAsleep", "getWait", "getChar"} => Len(buf[u]) < View(u).r[5]

OwnProcessor == AtHome /\ \A u \in Threads : Sound(u) /\ Reading(u)

\* The cases of ModeOf and of CpuOf.
ModesAre ==
  \A u \in Threads :
    /\ place[u] \in {"root", "begin"} => ModeOf(u) = "new"
    /\ place[u] = "user" => ModeOf(u) = "user"
    /\ place[u] = "pageIn" /\ fault[u].back = "user" => ModeOf(u) = "user"
    /\ place[u] \in {"exit", "finished"} => ModeOf(u) = "ended"
    /\ /\ place[u] \notin {"root", "begin", "user", "exit", "finished"}
       /\ ~(place[u] = "pageIn" /\ fault[u].back = "user")
       => ModeOf(u) = "call"

CpusAre ==
  \A u \in Threads : /\ ModeOf(u) = "new" => CpuOf(u) = InitRegisters(Space(u))
                     /\ ModeOf(u) # "new" => CpuOf(u) = View(u)

\* The modes of all programs, in a formula the prover need not look into.
LEMMA ModesHold == ModesAre
BY DEF ModesAre, ModeOf

\* The registers of all programs likewise.
LEMMA CpusHold == CpusAre
BY DEF CpusAre, CpuOf, View

\* Both, before and after a step.
LEMMA BothHold == ModesAre /\ CpusAre /\ ModesAre' /\ CpusAre'
BY ModesHold, CpusHold, PTL

\* Settled registers are what a delayed load leaves alone.
LEMMA SettledFlush ==
  ASSUME NEW c \in Cpus
  PROVE  /\ Settled(DelayedLoad(c, 0, 0))
         /\ Settled(c) => DelayedLoad(c, 0, 0) = c
<1>1. 0 \in Registers /\ 0 \in Words
  BY MipsAssumption, SmallWords
<1>2. Settled(DelayedLoad(c, 0, 0))
  BY <1>1, DelayedLoadType DEF Settled
<1>3. ASSUME Settled(c)
      PROVE  DelayedLoad(c, 0, 0) = c
  <2>1. c.load = 0 /\ c.loadValue = 0 /\ c.r[0] = 0
    BY <1>3 DEF Settled
  <2>2. [c.r EXCEPT ![0] = 0] = c.r
    BY <2>1, <1>1 DEF Cpus
  <2>3. DelayedLoad(c, 0, 0) = [c EXCEPT !.r = c.r, !.load = 0, !.loadValue = 0]
    BY <2>1, <2>2 DEF DelayedLoad
  <2>4. QED
    BY <2>1, <2>3 DEF Cpus
<1>4. QED
  BY <1>2, <1>3

\* Nothing of a thread that is quiet shows.
LEMMA QuietShows ==
  ASSUME NEW u \in Threads, Quiet(u)
  PROVE  /\ ModeOf(u)' = ModeOf(u) /\ CpuOf(u)' = CpuOf(u)
         /\ Sound(u) => Sound(u)'
         /\ Reading(u) => Reading(u)'
<1>1. ModeOf(u)' = ModeOf(u)
  BY DEF Quiet, ModeOf
<1>2. ModeOf(u) # "new" => place[u] # "root"
  BY BothHold DEF ModesAre
<1>3. CpuOf(u)' = CpuOf(u)
  <2>1. CASE ModeOf(u) = "new"
    <3>1. CpuOf(u) = InitRegisters(Space(u)) /\ CpuOf(u)' = InitRegisters(Space(u)')
      BY <2>1, <1>1, BothHold DEF CpusAre
    <3>2. Space(u).bytes = Space(u)'.bytes
      BY DEF Space, Quiet
    <3>3. QED
      BY <3>1, <3>2 DEF InitRegisters
  <2>2. CASE ModeOf(u) # "new"
    BY <2>2, <1>1, <1>2, BothHold DEF CpusAre, Quiet
  <2>3. QED
    BY <2>1, <2>2
<1>4. Sound(u) => Sound(u)'
  <2> HIDE DEF Settled
  <2>1. ModeOf(u) # "new" => View(u)' = View(u)
    BY <1>2 DEF Quiet
  <2>2. QED
    BY <1>1, <2>1 DEF Sound, Settled
<1>5. Reading(u) => Reading(u)'
  BY DEF Reading, Reads, Quiet
<1>6. QED
  BY <1>1, <1>3, <1>4, <1>5

\* Scheduler::Run saves the registers of one thread and restores those of
\* another.
LEMMA DispatchViews ==
  ASSUME Registered, NEW list \in Seq(Threads), list # <<>>, NEW yielding,
         Dispatch(list, yielding)
  PROVE  /\ \A u \in Threads : place[u] # "root" => View(u)' = View(u)
         /\ place[current'] # "root" => addressSpace' = current'
         /\ current' \in Threads
<1>1. Head(list) \in Threads
  BY HeadTailProperties
<1> DEFINE x == Head(list)
<1> HIDE DEF x
<1>2. x \in Threads /\ Run(x)
  BY <1>1 DEF Dispatch, x
<1>3. \A u \in Threads : saved'[u] = View(u)
  BY <1>2 DEF Run, View, Registered
<1>4. current' = x /\ (place[x] # "root" => cpu' = saved'[x] /\ addressSpace' = x)
  BY <1>2 DEF Run
<1>5. QED
  BY <1>2, <1>3, <1>4 DEF View

\* A thread that sleeps keeps what its program sees.
LEMMA SleepViews ==
  ASSUME Registered, Sleep
  PROVE  /\ \A u \in Threads : place[u] # "root" => View(u)' = View(u)
         /\ (UNCHANGED <<current, addressSpace>> \/ (place[current'] # "root" => addressSpace' = current'))
         /\ current' \in Threads
<1>1. CASE ready # <<>> /\ Dispatch(ready, inYield)
  BY <1>1, DispatchViews DEF Registered
<1>2. CASE ready = <<>> /\ doing' = "idle" /\ UNCHANGED <<dispatch, cpu>>
  BY <1>2 DEF dispatch, View, Registered
<1>3. QED
  BY <1>1, <1>2 DEF Sleep

\* A thread that yields keeps what its program sees.
LEMMA YieldViews ==
  ASSUME Registered, Yield
  PROVE  /\ \A u \in Threads : place[u] # "root" => View(u)' = View(u)
         /\ (UNCHANGED <<current, addressSpace>> \/ (place[current'] # "root" => addressSpace' = current'))
         /\ current' \in Threads
<1>1. CASE ready # <<>> /\ Dispatch(Append(ready, current), inYield \cup {current})
  <2>1. Append(ready, current) \in Seq(Threads) /\ Append(ready, current) # <<>>
    BY AppendProperties DEF Registered
  <2>2. QED
    BY <2>1, <1>1, DispatchViews
<1>2. CASE ready = <<>> /\ doing' = "tick" /\ UNCHANGED <<dispatch, cpu>>
  BY <1>2 DEF dispatch, View, Registered
<1>3. QED
  BY <1>1, <1>2 DEF Yield
\* A step of the hardware flushes the load of the program it interrupts, or
\* moves the processor to another thread.
LEMMA HardwareViews ==
  ASSUME MachineTyped, Hardware
  PROVE  /\ UNCHANGED <<setup, bytes, place, fault, buf>>
         /\ \/ \A u \in Threads : Quiet(u)
            \/ /\ UNCHANGED <<current, saved>> /\ cpu' = DelayedLoad(cpu, 0, 0)
         /\ AtHome => AtHome'
<1>1. Registered /\ current \in Threads
  BY DEF MachineTyped, Registered
<1>2. UNCHANGED <<setup, bytes, place, fault, buf>>
  <2>1. CASE OneTick \/ ReturnFromTick \/ Idle
    BY <2>1 DEF Hardware, OneTick, ReturnFromTick, Idle, YieldInTick, IdleReturns, TimerExpired,
                Fires, memory, WriteDone, ReadPoll
  <2>2. CASE YieldInTick \/ IdleReturns \/ TimerExpired
    BY <2>2 DEF Hardware, OneTick, ReturnFromTick, Idle, YieldInTick, IdleReturns, TimerExpired,
                Fires, memory, WriteDone, ReadPoll
  <2>3. CASE WriteDone \/ ReadPoll
    BY <2>3 DEF WriteDone, ReadPoll, Fires, memory
  <2>4. QED
    BY <2>1, <2>2, <2>3 DEF Hardware
<1>3. ASSUME \A u \in Threads : place[u] # "root" => View(u)' = View(u)
      PROVE  \A u \in Threads : Quiet(u)
  BY <1>2, <1>3 DEF Quiet
<1>4. CASE OneTick \/ ReturnFromTick \/ Idle
  <2>1. UNCHANGED <<cpu, saved, current, addressSpace>>
    BY <1>4 DEF OneTick, ReturnFromTick, Idle, dispatch
  <2>2. QED
    BY <2>1, <1>2, <1>3 DEF View, AtHome
<1>5. CASE TimerExpired \/ WriteDone \/ ReadPoll
  <2>1. UNCHANGED <<current, saved, addressSpace>> /\ cpu' = DelayedLoad(cpu, 0, 0)
    BY <1>5 DEF TimerExpired, WriteDone, ReadPoll, Fires
  <2>2. QED
    BY <2>1, <1>2 DEF AtHome
<1>6. CASE YieldInTick \/ IdleReturns
  <2>1. Yield \/ Sleep
    BY <1>6 DEF YieldInTick, IdleReturns
  <2>2. /\ \A u \in Threads : place[u] # "root" => View(u)' = View(u)
        /\ \/ UNCHANGED <<current, addressSpace>>
           \/ place[current'] # "root" => addressSpace' = current'
    BY <2>1, <1>1, SleepViews, YieldViews
  <2>3. QED
    BY <2>2, <1>2, <1>3 DEF AtHome
<1>7. QED
  BY <1>2, <1>4, <1>5, <1>6 DEF Hardware

\* A step of a thread leaves the others alone, and keeps its own registers in
\* the machine unless it goes to sleep.
LEMMA ThreadViews ==
  ASSUME MachineTyped, AtHome, NEW t \in Threads, Thread(t)
  PROVE  /\ setup' = setup /\ doing = "run" /\ current = t
         /\ \A u \in Threads \ {t} : Quiet(u)
         /\ (current' = t /\ View(t)' = cpu') \/ (Sleep /\ View(t)' = cpu)
         /\ AtHome'
<1>1. /\ Registered /\ place \in [Threads -> Places] /\ DOMAIN bytes = Threads
      /\ buf \in [Threads -> Seq(Int)]
      /\ fault \in [Threads -> [page : Int, back : {"user", "fill", "drain"}]]
  BY DEF MachineTyped, Programs
<1> DEFINE Alone == \A u \in Threads \ {t} :
                      /\ place'[u] = place[u] /\ fault'[u] = fault[u] /\ buf'[u] = buf[u]
                      /\ bytes'[u] = bytes[u]
<1>2. ASSUME doing = "run", current = t, Alone, setup' = setup, UNCHANGED <<current, saved>>,
             \/ addressSpace' = addressSpace /\ place[t] \notin {"root", "begin"}
             \/ addressSpace' = t
             \/ place'[t] \in {"root", "begin"}
      PROVE  /\ setup' = setup /\ doing = "run" /\ current = t
             /\ \A u \in Threads \ {t} : Quiet(u)
             /\ (current' = t /\ View(t)' = cpu') \/ (Sleep /\ View(t)' = cpu)
             /\ AtHome'
  <2>1. \A u \in Threads \ {t} : Quiet(u)
    BY <1>2 DEF Quiet, View
  <2>2. current' = t /\ View(t)' = cpu'
    BY <1>2 DEF View
  <2>3. AtHome'
    BY <1>2 DEF AtHome
  <2>4. QED
    BY <2>1, <2>2, <2>3, <1>2
<1>3. ASSUME doing = "run", current = t, Alone, setup' = setup, Sleep,
             place[t] \notin {"root", "begin"}
      PROVE  /\ setup' = setup /\ doing = "run" /\ current = t
             /\ \A u \in Threads \ {t} : Quiet(u)
             /\ (current' = t /\ View(t)' = cpu') \/ (Sleep /\ View(t)' = cpu)
             /\ AtHome'
  <2>1. /\ \A u \in Threads : place[u] # "root" => View(u)' = View(u)
        /\ \/ UNCHANGED <<current, addressSpace>>
           \/ place[current'] # "root" => addressSpace' = current'
        /\ current' \in Threads
    BY <1>1, <1>3, SleepViews
  <2>2. \A u \in Threads \ {t} : Quiet(u)
    BY <1>3, <2>1 DEF Quiet
  <2>3. View(t)' = cpu
    BY <1>3, <2>1 DEF View
  <2>4. AtHome'
    BY <1>3, <2>1 DEF AtHome
  <2>5. QED
    BY <2>2, <2>3, <2>4, <1>3
<1>4. CASE Root(t)
  <2>1. place'[t] = "begin"
    BY <1>1, <1>4 DEF Root, Ticks
  <2>2. Alone
    BY <1>1, <1>4 DEF Root, Ticks, memory
  <2> HIDE DEF Alone
  <2>3. QED
    BY <2>1, <2>2, <1>2, <1>4 DEF Root, At, memory, dispatch
<1>5. CASE Begin(t)
  <2>1. Alone
    BY <1>1, <1>5 DEF Begin, Goto, memory
  <2> HIDE DEF Alone
  <2>2. QED
    BY <2>1, <1>2, <1>5 DEF Begin, At, memory
<1>6. CASE Instruction(t)
  <2>1. addressSpace = t
    BY <1>6 DEF Instruction, At, AtHome
  <2>2. Alone
    BY <2>1, <1>1, <1>6 DEF Instruction, TicksTo, Ticks
  <2> HIDE DEF Alone
  <2>3. QED
    BY <2>2, <1>2, <1>6 DEF Instruction, At, TicksTo, dispatch
<1>7. CASE HostStops(t) \/ UserFault(t) \/ PageIn(t) \/ Killed(t) \/ Syscall(t)
  <2>1. /\ Alone /\ doing = "run" /\ current = t /\ setup' = setup /\ UNCHANGED dispatch
        /\ place[t] \notin {"root", "begin"}
    <3>1. CASE HostStops(t) \/ PageIn(t)
      BY <3>1, <1>1 DEF HostStops, PageIn, At, Aborts, Goto, memory
    <3>2. CASE UserFault(t)
      BY <3>2, <1>1 DEF UserFault, PageFault, At, Goto
    <3>3. CASE Killed(t) \/ Syscall(t)
      BY <3>3, <1>1 DEF Killed, Syscall, Traps, At, Goto, memory
    <3>4. QED
      BY <1>7, <3>1, <3>2, <3>3
  <2> HIDE DEF Alone
  <2>2. QED
    BY <2>1, <1>2 DEF dispatch
<1>8. CASE Exit(t)
  <2>1. Alone
    BY <1>1, <1>8 DEF Exit, SleepsAt, Goto, memory
  <2> HIDE DEF Alone
  <2>2. QED
    BY <2>1, <1>3, <1>8 DEF Exit, SleepsAt, At, memory
<1>9. CASE Stop(t) \/ ReturnAgain(t) \/ ReturnDone(t) \/ ReturnFail(t) \/ PutFails(t)
  <2>1. /\ Alone /\ doing = "run" /\ current = t /\ setup' = setup /\ UNCHANGED dispatch
        /\ place[t] \notin {"root", "begin"}
    BY <1>1, <1>9 DEF Stop, ReturnAgain, ReturnDone, ReturnFail, Return, PutFails, At, Ticks, Aborts,
                      memory
  <2> HIDE DEF Alone
  <2>2. QED
    BY <2>1, <1>2 DEF dispatch
<1>10. CASE FillBuffer(t)
  <2>1. /\ Alone /\ doing = "run" /\ current = t /\ setup' = setup /\ UNCHANGED dispatch
        /\ place[t] \notin {"root", "begin"}
    BY <1>1, <1>10 DEF FillBuffer, PageFault, Traps, Continues, At, Goto, memory
  <2> HIDE DEF Alone
  <2>2. QED
    BY <2>1, <1>2 DEF dispatch
<1>11. CASE DrainBuffer(t)
  <2>1. addressSpace = t
    BY <1>11 DEF DrainBuffer, At, AtHome
  <2>2. bytes' = bytes \/ \E m : bytes' = [bytes EXCEPT ![addressSpace] = m]
    BY <1>11 DEF DrainBuffer, PageFault, Traps, memory
  <2>3. \E p : place' = [place EXCEPT ![t] = p]
    BY <1>11 DEF DrainBuffer, PageFault, Traps, Continues, Goto
  <2>4. fault' = fault \/ \E f : fault' = [fault EXCEPT ![t] = f]
    BY <1>11 DEF DrainBuffer, PageFault, Traps, memory
  <2>5. buf' = buf \/ \E b : buf' = [buf EXCEPT ![t] = b]
    BY <1>11 DEF DrainBuffer, PageFault
  <2>6. /\ doing = "run" /\ current = t /\ setup' = setup /\ UNCHANGED dispatch
        /\ place[t] = "drain"
    BY <1>11 DEF DrainBuffer, PageFault, Traps, Continues, At, memory
  <2>7. Alone
    <3>1. \A u \in Threads \ {t} : bytes'[u] = bytes[u]
      BY <2>1, <2>2, <1>1
    <3>2. \A u \in Threads \ {t} : place'[u] = place[u]
      BY <2>3, <1>1
    <3>3. \A u \in Threads \ {t} : fault'[u] = fault[u]
      BY <2>4, <1>1
    <3>4. \A u \in Threads \ {t} : buf'[u] = buf[u]
      BY <2>5, <1>1
    <3>5. QED
      BY <3>1, <3>2, <3>3, <3>4
  <2> HIDE DEF Alone
  <2>8. QED
    BY <2>6, <2>7, <1>2 DEF dispatch
<1>12. CASE PutLast(t) \/ PutChar(t) \/ GetLast(t) \/ GetChar(t)
  <2>1. /\ Alone /\ doing = "run" /\ current = t /\ setup' = setup /\ UNCHANGED dispatch
        /\ place[t] \notin {"root", "begin"}
    BY <1>1, <1>12 DEF PutLast, PutChar, GetLast, GetChar, Continues, At, Goto, memory
  <2> HIDE DEF Alone
  <2>2. QED
    BY <2>1, <1>2 DEF dispatch
<1>13. CASE PutRelease(t) \/ GetRelease(t)
  <2>1. /\ Alone /\ doing = "run" /\ current = t /\ setup' = setup
        /\ UNCHANGED <<current, saved, addressSpace>> /\ place[t] \notin {"root", "begin"}
    BY <1>1, <1>13 DEF PutRelease, GetRelease, Ticks, At, memory
  <2> HIDE DEF Alone
  <2>2. QED
    BY <2>1, <1>2
<1>14. ASSUME NEW l, NEW p \in Places \ {"root", "begin"}, NEW asleep \in Places \ {"root", "begin"},
              NEW next, Acquire(t, l, p, asleep, next)
       PROVE  /\ setup' = setup /\ doing = "run" /\ current = t
              /\ \A u \in Threads \ {t} : Quiet(u)
              /\ (current' = t /\ View(t)' = cpu') \/ (Sleep /\ View(t)' = cpu)
              /\ AtHome'
  <2>1. /\ Alone /\ doing = "run" /\ current = t /\ setup' = setup
        /\ UNCHANGED dispatch \/ Sleep
        /\ place[t] \notin {"root", "begin"}
    BY <1>1, <1>14 DEF Acquire, TicksTo, Ticks, SleepsAt, At, Goto, memory
  <2> HIDE DEF Alone
  <2>2. QED
    BY <2>1, <1>2, <1>3 DEF dispatch
<1>15. ASSUME NEW s, NEW p \in Places \ {"root", "begin"}, NEW next, P(t, s, p, next)
       PROVE  /\ setup' = setup /\ doing = "run" /\ current = t
              /\ \A u \in Threads \ {t} : Quiet(u)
              /\ (current' = t /\ View(t)' = cpu') \/ (Sleep /\ View(t)' = cpu)
              /\ AtHome'
  <2>1. /\ Alone /\ doing = "run" /\ current = t /\ setup' = setup
        /\ UNCHANGED dispatch \/ Sleep
        /\ place[t] \notin {"root", "begin"}
    BY <1>1, <1>15 DEF P, TicksTo, Ticks, SleepsAt, At, Goto, memory
  <2> HIDE DEF Alone
  <2>2. QED
    BY <2>1, <1>2, <1>3 DEF dispatch
<1>16. CASE PutAcquire(t) \/ GetAcquire(t)
  BY <1>16, <1>14 DEF PutAcquire, GetAcquire, Places
<1>17. CASE PutWaits(t) \/ GetWaits(t)
  BY <1>17, <1>15 DEF PutWaits, GetWaits, Places
<1>18. QED
  BY <1>4, <1>5, <1>6, <1>7, <1>8, <1>9, <1>10, <1>11, <1>12, <1>13, <1>16, <1>17 DEF Thread
\* What one thread does is a step of the promise when the others show nothing.
Shows == Private!Next \/ UNCHANGED Private!vars

\* What the private processors see when one thread moves and the others do not.
LEMMA OneShows ==
  ASSUME NEW t \in Threads, setup' = setup,
         \A u \in Threads \ {t} : ModeOf(u)' = ModeOf(u) /\ CpuOf(u)' = CpuOf(u)
  PROVE  /\ ModeOf(t)' = ModeOf(t) /\ CpuOf(t)' = CpuOf(t) /\ bytes' = bytes => Shows
         /\ /\ ModeOf(t) = "new" /\ ModeOf(t)' = "user"
            /\ CpuOf(t)' = CpuOf(t) /\ bytes' = bytes
            => Shows
         /\ /\ ModeOf(t) = "user" /\ ModeOf(t)' = "user"
            /\ Private!Result(t).outcome = "done"
            /\ CpuOf(t)' = Private!Result(t).cpu
            /\ bytes' = [bytes EXCEPT ![t] = Private!Result(t).bytes]
            => Shows
         /\ /\ ModeOf(t) = "user" /\ ModeOf(t)' = "user"
            /\ CpuOf(t)' = DelayedLoad(CpuOf(t), 0, 0) /\ bytes' = bytes
            => Shows
         /\ /\ ModeOf(t) = "user" /\ ModeOf(t)' = "call"
            /\ Private!Result(t).outcome = "Syscall"
            /\ CpuOf(t)' = DelayedLoad(CpuOf(t), 0, 0) /\ bytes' = bytes
            => Shows
         /\ /\ ModeOf(t) = "user" /\ ModeOf(t)' = "ended"
            /\ Private!Result(t).outcome # "done"
            /\ CpuOf(t)' = DelayedLoad(CpuOf(t), 0, 0) /\ bytes' = bytes
            => Shows
         /\ /\ ModeOf(t) = "call" /\ ModeOf(t)' = "ended"
            /\ CpuOf(t)' = DelayedLoad(CpuOf(t), 0, 0) /\ bytes' = bytes
            => Shows
         /\ /\ ModeOf(t) = "call" /\ ModeOf(t)' = "user"
            /\ \/ CpuOf(t)' = increase_program_counter(CpuOf(t))
               \/ CpuOf(t)' = increase_program_counter([CpuOf(t) EXCEPT !.r[2] = 0])
               \/ CpuOf(t)' = CpuOf(t)
            /\ bytes' = bytes
            => Shows
         /\ /\ ModeOf(t) = "call" /\ ModeOf(t)' = "call" /\ CpuOf(t).r[2] = 6
            /\ CpuOf(t)' = [CpuOf(t) EXCEPT !.r[2] = CpuOf(t).r[5]] /\ bytes' = bytes
            => Shows
         /\ /\ ModeOf(t) = "call" /\ ModeOf(t)' = "call" /\ CpuOf(t).r[2] = 6
            /\ CpuOf(t)' = CpuOf(t)
            /\ \E i \in 0 .. CpuOf(t).r[5] - 1 : \E b \in 0 .. Byte - 1 :
                 /\ Unsigned(CpuOf(t).r[4] + i) \in DOMAIN bytes[t]
                 /\ bytes' = [bytes EXCEPT ![t][Unsigned(CpuOf(t).r[4] + i)] = b]
            => Shows
<1> DEFINE M == [u \in Threads |-> ModeOf(u)]
           C == [u \in Threads |-> CpuOf(u)]
<1>1. M' = [M EXCEPT ![t] = ModeOf(t)'] /\ M[t] = ModeOf(t)
  OBVIOUS
<1>2. C' = [C EXCEPT ![t] = CpuOf(t)'] /\ C[t] = CpuOf(t)
  OBVIOUS
<1>3. ModeOf(t)' = ModeOf(t) => M' = M
  OBVIOUS
<1>4. CpuOf(t)' = CpuOf(t) => C' = C
  OBVIOUS
<1>5. ASSUME ModeOf(t)' = ModeOf(t), CpuOf(t)' = CpuOf(t), bytes' = bytes
      PROVE  Shows
  BY <1>3, <1>4, <1>5 DEF Shows, Private!vars
<1>6. ASSUME Private!Starts(t) \/ Private!Executes(t) \/ Private!LoadsEarly(t) \/ Private!Calls(t)
             \/ Private!Delivers(t) \/ Private!Answers(t) \/ Private!Returns(t) \/ Private!Ends(t)
      PROVE  Shows
  BY <1>6 DEF Shows, Private!Next
<1>7. ASSUME ModeOf(t) = "new", ModeOf(t)' = "user", CpuOf(t)' = CpuOf(t), bytes' = bytes
      PROVE  Private!Starts(t)
  BY <1>1, <1>4, <1>7 DEF Private!Starts, Private!Moves
<1>8. ASSUME ModeOf(t) = "user", ModeOf(t)' = "user", Private!Result(t).outcome = "done",
             CpuOf(t)' = Private!Result(t).cpu,
             bytes' = [bytes EXCEPT ![t] = Private!Result(t).bytes]
      PROVE  Private!Executes(t)
  BY <1>2, <1>3, <1>8 DEF Private!Executes
<1>9. ASSUME ModeOf(t) = "user", ModeOf(t)' = "user",
             CpuOf(t)' = DelayedLoad(CpuOf(t), 0, 0), bytes' = bytes
      PROVE  Private!LoadsEarly(t)
  BY <1>2, <1>3, <1>9 DEF Private!LoadsEarly
<1>10. ASSUME ModeOf(t) = "user", ModeOf(t)' = "call", Private!Result(t).outcome = "Syscall",
              CpuOf(t)' = DelayedLoad(CpuOf(t), 0, 0), bytes' = bytes
       PROVE  Private!Calls(t)
  BY <1>1, <1>2, <1>10 DEF Private!Calls, Private!Moves
<1>11. ASSUME ModeOf(t)' = "ended",
              ModeOf(t) = "call" \/ (ModeOf(t) = "user" /\ Private!Result(t).outcome # "done"),
              CpuOf(t)' = DelayedLoad(CpuOf(t), 0, 0), bytes' = bytes
       PROVE  Private!Ends(t)
  BY <1>1, <1>2, <1>11 DEF Private!Ends, Private!Moves
<1>12. ASSUME ModeOf(t) = "call", ModeOf(t)' = "user", bytes' = bytes,
              \/ CpuOf(t)' = increase_program_counter(CpuOf(t))
              \/ CpuOf(t)' = increase_program_counter([CpuOf(t) EXCEPT !.r[2] = 0])
              \/ CpuOf(t)' = CpuOf(t)
       PROVE  Private!Returns(t)
  BY <1>1, <1>2, <1>4, <1>12 DEF Private!Returns, Private!Moves
<1>13. ASSUME ModeOf(t) = "call", ModeOf(t)' = "call", CpuOf(t).r[2] = 6,
              CpuOf(t)' = [CpuOf(t) EXCEPT !.r[2] = CpuOf(t).r[5]], bytes' = bytes
       PROVE  Private!Answers(t)
  BY <1>2, <1>3, <1>13 DEF Private!Answers
<1>14. ASSUME ModeOf(t) = "call", ModeOf(t)' = "call", CpuOf(t).r[2] = 6, CpuOf(t)' = CpuOf(t),
              NEW i \in 0 .. CpuOf(t).r[5] - 1, NEW b \in 0 .. Byte - 1,
              Unsigned(CpuOf(t).r[4] + i) \in DOMAIN bytes[t],
              bytes' = [bytes EXCEPT ![t][Unsigned(CpuOf(t).r[4] + i)] = b]
       PROVE  Private!Delivers(t)
  BY <1>2, <1>3, <1>4, <1>14 DEF Private!Delivers
<1>15. QED
  BY <1>5, <1>6, <1>7, <1>8, <1>9, <1>10, <1>11, <1>12, <1>13, <1>14
\* Hardware: an interrupt does the load of the program it comes upon early.
LEMMA HardwareShows ==
  ASSUME MachineTyped, OwnProcessor, Hardware
  PROVE  OwnProcessor' /\ Shows
<1>1. /\ current \in Threads /\ cpu \in Cpus
      /\ \A u \in Threads : Sound(u) /\ Reading(u)
  BY DEF MachineTyped, Registered, OwnProcessor
<1>2. UNCHANGED <<setup, bytes, place, fault, buf>> /\ AtHome'
  BY HardwareViews DEF OwnProcessor
<1>3. CASE \A u \in Threads : Quiet(u)
  BY <1>1, <1>2, <1>3, QuietShows, OneShows DEF OwnProcessor
<1>4. CASE UNCHANGED <<current, saved>> /\ cpu' = DelayedLoad(cpu, 0, 0)
  <2>0. PICK t \in Threads : t = current
    BY <1>1
  <2>1. View(t) = cpu /\ View(t)' = cpu'
    BY <2>0, <1>4 DEF View
  <2>2. \A u \in Threads \ {t} : Quiet(u)
    BY <2>0, <1>2, <1>4 DEF Quiet, View
  <2>3. \A u \in Threads \ {t} : /\ ModeOf(u)' = ModeOf(u) /\ CpuOf(u)' = CpuOf(u)
                                 /\ Sound(u)' /\ Reading(u)'
    BY <2>2, <1>1, QuietShows
  <2>4. CASE place[t] = "root" \/ cpu' = cpu
    <3>1. Quiet(t)
      BY <2>4, <2>1, <1>2 DEF Quiet
    <3>2. \A u \in Threads : Quiet(u)
      BY <3>1, <2>2
    <3>3. QED
      BY <3>2, <1>3
  <2>5. CASE place[t] # "root" /\ cpu' # cpu
    <3>1. ~Settled(cpu)
      BY <2>5, <1>1, <1>4, SettledFlush
    <3>2. ModeOf(t) \notin {"call", "ended"}
      BY <3>1, <2>1, <1>1 DEF Sound
    <3>3. \/ place[t] = "begin"
          \/ place[t] = "user"
          \/ place[t] = "pageIn" /\ fault[t].back = "user"
      BY <3>2, <2>1, <2>5, BothHold DEF ModesAre
    <3>4. ModeOf(t)' = ModeOf(t)
      BY <1>2, <2>1 DEF ModeOf
    <3>5. Sound(t)' /\ Reading(t)'
      BY <3>2, <3>3, <3>4, <1>2 DEF Sound, Reading, Reads
    <3>6. CASE ModeOf(t) = "new"
      <4>1. CpuOf(t) = InitRegisters(Space(t)) /\ CpuOf(t)' = InitRegisters(Space(t)')
        BY <3>4, <3>6, <2>1, BothHold DEF CpusAre
      <4>2. Space(t).bytes = Space(t)'.bytes
        BY <1>2 DEF Space
      <4>3. CpuOf(t)' = CpuOf(t)
        BY <4>1, <4>2 DEF InitRegisters
      <4>4. Shows
        BY <4>3, <3>4, <2>1, <2>3, <1>2, OneShows
      <4>5. QED
        BY <4>4, <3>5, <2>3, <1>2 DEF OwnProcessor
    <3>7. CASE ModeOf(t) = "user"
      <4>1. CpuOf(t) = View(t) /\ CpuOf(t)' = View(t)'
        BY <3>4, <3>7, <2>1, BothHold DEF CpusAre
      <4>2. CpuOf(t)' = DelayedLoad(CpuOf(t), 0, 0)
        BY <4>1, <2>1, <1>4
      <4>3. Shows
        BY <4>2, <3>4, <3>7, <2>1, <2>3, <1>2, OneShows
      <4>4. QED
        BY <4>3, <3>5, <2>3, <1>2 DEF OwnProcessor
    <3>8. ModeOf(t) \in {"new", "user"}
      BY <3>3, <2>1, BothHold DEF ModesAre
    <3>9. QED
      BY <3>6, <3>7, <3>8
  <2>6. QED
    BY <2>4, <2>5
<1>5. QED
  BY <1>3, <1>4, HardwareViews

\* With every page in memory the next instruction does what it does here.
LEMMA ResultPrivate ==
  ASSUME MachineTyped, AtHome, NEW t \in Threads, At(t, "user"), Result.outcome # "PageFault"
  PROVE  Private!Result(t) = Result /\ addressSpace = t
<1>1. addressSpace = t /\ place[t] = "user" /\ current = t /\ cpu \in Cpus
  BY DEF At, AtHome, MachineTyped, Registered
<1>2. PICK n \in 0 .. Word : Runnable(Setups[setup].code[t], Space(t), n)
  BY DEF MachineTyped, Programs
<1>3. AllIn(Private!Everything(t), Space(t))
  BY DEF AllIn, Private!Everything, Space
<1>4. CpuOf(t) = cpu
  BY <1>1, BothHold DEF ModesAre, CpusAre, View
<1>5. Result = OneInstruction(Setups[setup].code[t], cpu, Space(t))
  BY <1>1 DEF Result
<1>6. OneInstruction(Setups[setup].code[t], cpu, Private!Everything(t)) = Result
  BY <1>1, <1>2, <1>3, <1>5, OneInstructionAll
<1>7. Private!Result(t) = OneInstruction(Setups[setup].code[t], CpuOf(t), Private!Everything(t))
  BY DEF Private!Result
<1>8. QED
  BY <1>1, <1>4, <1>6, <1>7

\* What is left to show of a step of a thread: how far the thread itself gets.
LEMMA OwnStep ==
  ASSUME MachineTyped, OwnProcessor, NEW t \in Threads, Thread(t), Sound(t)', Reading(t)', Shows
  PROVE  OwnProcessor' /\ Shows
<1>1. AtHome' /\ \A u \in Threads \ {t} : Quiet(u)
  BY ThreadViews DEF OwnProcessor
<1>2. \A u \in Threads \ {t} : Sound(u)' /\ Reading(u)'
  BY <1>1, QuietShows DEF OwnProcessor
<1>3. QED
  BY <1>1, <1>2 DEF OwnProcessor
\* A step of a thread that does not show.
LEMMA OwnStutter ==
  ASSUME MachineTyped, OwnProcessor, NEW t \in Threads, Thread(t), bytes' = bytes,
         ModeOf(t)' = ModeOf(t), ModeOf(t) # "new" => View(t)' = View(t), Reading(t)'
  PROVE  OwnProcessor' /\ Shows
<1>1. setup' = setup /\ \A u \in Threads \ {t} : Quiet(u)
  BY ThreadViews DEF OwnProcessor
<1>2. \A u \in Threads \ {t} : ModeOf(u)' = ModeOf(u) /\ CpuOf(u)' = CpuOf(u)
  BY <1>1, QuietShows
<1>3. CpuOf(t)' = CpuOf(t)
  <2>1. CASE ModeOf(t) = "new"
    <3>1. CpuOf(t) = InitRegisters(Space(t)) /\ CpuOf(t)' = InitRegisters(Space(t)')
      BY <2>1, BothHold DEF CpusAre
    <3>2. Space(t).bytes = Space(t)'.bytes
      BY DEF Space
    <3>3. QED
      BY <3>1, <3>2 DEF InitRegisters
  <2>2. CASE ModeOf(t) # "new"
    BY <2>2, BothHold DEF CpusAre
  <2>3. QED
    BY <2>1, <2>2
<1>4. Shows
  BY <1>1, <1>2, <1>3, OneShows
<1>5. Sound(t)'
  <2>1. Sound(t)
    BY DEF OwnProcessor
  <2>2. ASSUME ModeOf(t) # "new"
        PROVE  Settled(View(t))' <=> Settled(View(t))
    BY <2>2 DEF Settled
  <2>3. QED
    BY <2>1, <2>2 DEF Sound
<1>6. QED
  BY <1>4, <1>5, OwnStep

\* The instructions, and what they raise.
LEMMA UserShows ==
  ASSUME MachineTyped, MachineTyped', OwnProcessor, NEW t \in Threads, Thread(t),
         Instruction(t) \/ HostStops(t) \/ UserFault(t) \/ Killed(t) \/ Syscall(t)
  PROVE  OwnProcessor' /\ Shows
<1> DEFINE flushed == DelayedLoad(cpu, 0, 0)
<1>1. /\ At(t, "user") /\ place[t] = "user" /\ current = t /\ cpu \in Cpus
      /\ place \in [Threads -> Places] /\ DOMAIN bytes = Threads
      /\ buf \in [Threads -> Seq(Int)]
      /\ fault \in [Threads -> [page : Int, back : {"user", "fill", "drain"}]]
      /\ AtHome
  <2>1. At(t, "user")
    BY DEF Instruction, HostStops, UserFault, Killed, Syscall
  <2>2. QED
    BY <2>1 DEF At, MachineTyped, Registered, Programs, OwnProcessor
<1>2. /\ ModeOf(t) = "user" /\ View(t) = cpu /\ CpuOf(t) = cpu
  BY <1>1, BothHold DEF ModesAre, CpusAre, View
<1>3. setup' = setup /\ \A u \in Threads \ {t} : Quiet(u)
  BY ThreadViews, <1>1
<1>4. \A u \in Threads \ {t} : ModeOf(u)' = ModeOf(u) /\ CpuOf(u)' = CpuOf(u)
  BY <1>3, QuietShows
<1>5. Settled(flushed) /\ flushed = DelayedLoad(CpuOf(t), 0, 0)
  BY <1>1, <1>2, SettledFlush
<1> HIDE DEF flushed
<1>6. UNCHANGED <<current, saved>> => View(t)' = cpu'
  BY <1>1 DEF View
<1>7. CpusAre' /\ ModesAre'
  BY BothHold
<1>8. CASE Instruction(t)
  <2>1. Private!Result(t) = Result /\ addressSpace = t
    BY <1>1, <1>8, ResultPrivate DEF Instruction
  <2>2. place'[t] = "user" /\ UNCHANGED <<current, saved>>
    BY <1>1, <1>8 DEF Instruction, TicksTo, Ticks, dispatch
  <2>3. ModeOf(t)' = "user" /\ CpuOf(t)' = cpu'
    BY <2>2, <1>6, <1>7 DEF ModesAre, CpusAre
  <2>4. /\ Result.outcome = "done" /\ cpu' = Result.cpu
        /\ bytes' = [bytes EXCEPT ![t] = Result.bytes]
    BY <2>1, <1>8 DEF Instruction
  <2>5. Shows
    BY <2>1, <2>3, <2>4, <1>2, <1>3, <1>4, OneShows
  <2>6. Sound(t)' /\ Reading(t)'
    BY <2>2, <2>3 DEF Sound, Reading, Reads
  <2>7. QED
    BY <2>5, <2>6, OwnStep
<1>9. CASE HostStops(t)
  <2>1. UNCHANGED <<place, bytes, fault, buf, cpu, current, saved>>
    BY <1>9 DEF HostStops, Aborts, memory, dispatch
  <2>2. ModeOf(t)' = ModeOf(t) /\ View(t)' = View(t) /\ Reading(t)'
    BY <2>1, <1>1 DEF ModeOf, View, Reading, Reads
  <2>3. QED
    BY <2>1, <2>2, OwnStutter
<1>10. CASE UserFault(t)
  <2>1. /\ place'[t] = "pageIn" /\ fault'[t].back = "user" /\ UNCHANGED <<bytes, current, saved>>
        /\ cpu' = flushed
    BY <1>1, <1>10 DEF UserFault, PageFault, Raises, Goto, dispatch, flushed
  <2>2. ModeOf(t)' = "user" /\ CpuOf(t)' = cpu'
    BY <2>1, <1>6, <1>7 DEF ModesAre, CpusAre
  <2>3. Shows
    BY <2>1, <2>2, <1>2, <1>3, <1>4, <1>5, OneShows
  <2>4. Sound(t)' /\ Reading(t)'
    BY <2>1, <2>2 DEF Sound, Reading, Reads
  <2>5. QED
    BY <2>3, <2>4, OwnStep
<1>11. CASE Killed(t)
  <2>1. /\ place'[t] = "exit" /\ UNCHANGED <<bytes, current, saved>> /\ cpu' = flushed
        /\ Result.outcome \in {"AddressError", "Overflow", "IllegalInstr"}
    BY <1>1, <1>11 DEF Killed, Traps, Raises, Goto, dispatch, memory, flushed
  <2>2. Private!Result(t) = Result
    BY <2>1, <1>1, ResultPrivate
  <2>3. ModeOf(t)' = "ended" /\ CpuOf(t)' = cpu'
    BY <2>1, <1>6, <1>7 DEF ModesAre, CpusAre
  <2>4. Private!Result(t).outcome # "done"
    BY <2>1, <2>2
  <2>5. Shows
    BY <2>1, <2>3, <2>4, <1>2, <1>3, <1>4, <1>5, OneShows
  <2>6. Settled(View(t))'
    BY <2>1, <1>5, <1>6 DEF Settled
  <2>7. Sound(t)' /\ Reading(t)'
    BY <2>1, <2>6 DEF Sound, Reading, Reads
  <2>8. QED
    BY <2>5, <2>7, OwnStep
<1>12. CASE Syscall(t)
  <2>1. /\ UNCHANGED <<bytes, current, saved>> /\ cpu' = flushed
        /\ Result.outcome = "Syscall" /\ buf'[t] = <<>>
    BY <1>1, <1>12 DEF Syscall, Traps, Raises, Goto, dispatch, memory, flushed
  <2>2. Private!Result(t) = Result
    BY <2>1, <1>1, ResultPrivate
  <2>3. \E p \in {"halt", "exit", "again", "get", "fail", "fill", "done", "unexpected"} :
          /\ place' = [place EXCEPT ![t] = p]
          /\ p = "get" => flushed.r[2] = 6 /\ flushed.r[5] >= 0
    <3> DEFINE r == flushed.r
               q == CASE r[2] = SC.Halt -> "halt"
                      [] r[2] = SC.Exit -> "exit"
                      [] r[2] \in {SC.Open, SC.Close} -> "again"
                      [] r[2] = SC.Read /\ r[5] >= 0 /\ r[6] = ConsoleInput -> "get"
                      [] r[2] = SC.Read /\ ~(r[5] >= 0 /\ r[6] = ConsoleInput) -> "fail"
                      [] r[2] = SC.Write /\ r[5] >= 0 /\ r[6] = ConsoleOutput -> "fill"
                      [] r[2] = SC.Write /\ ~(r[5] >= 0 /\ r[6] = ConsoleOutput) -> "done"
                      [] OTHER -> "unexpected"
    <3>1. place' = [place EXCEPT ![t] = q]
      BY <1>12 DEF Syscall, Traps, Goto, flushed
    <3> HIDE DEF r
    <3>2. q \in {"halt", "exit", "again", "get", "fail", "fill", "done", "unexpected"}
      OBVIOUS
    <3>3. SC.Read = 6 /\ (q = "get" => r[2] = SC.Read /\ r[5] >= 0)
      BY DEF SC
    <3> HIDE DEF q
    <3>4. q = "get" => flushed.r[2] = 6 /\ flushed.r[5] >= 0
      BY <3>3 DEF r
    <3>5. QED
      BY <3>1, <3>2, <3>4
  <2>4. PICK p \in {"halt", "exit", "again", "get", "fail", "fill", "done", "unexpected"} :
          /\ place'[t] = p
          /\ p = "get" => flushed.r[2] = 6 /\ flushed.r[5] >= 0
    BY <2>3, <1>1
  <2>5. View(t)' = flushed /\ Settled(View(t))'
    BY <2>1, <1>5, <1>6 DEF Settled
  <2>6. Sound(t)'
    BY <2>5 DEF Sound
  <2>7. Reading(t)'
    <3>1. CASE p = "get"
      <4>1. Reads(t)' => View(t)'.r[2] = 6 /\ Len(buf'[t]) <= View(t)'.r[5]
        BY <2>1, <2>4, <2>5, <3>1
      <4>2. QED
        BY <4>1, <3>1, <2>4 DEF Reading
    <3>2. CASE p # "get"
      BY <3>2, <2>4 DEF Reading, Reads
    <3>3. QED
      BY <3>1, <3>2
  <2>8. CASE p = "exit"
    <3>1. ModeOf(t)' = "ended" /\ CpuOf(t)' = cpu'
      BY <2>1, <2>4, <2>8, <1>6, <1>7 DEF ModesAre, CpusAre
    <3>2. Private!Result(t).outcome # "done"
      BY <2>1, <2>2
    <3>3. Shows
      BY <3>1, <3>2, <2>1, <1>2, <1>3, <1>4, <1>5, OneShows
    <3>4. QED
      BY <3>3, <2>6, <2>7, OwnStep
  <2>9. CASE p # "exit"
    <3>1. ModeOf(t)' = "call" /\ CpuOf(t)' = cpu'
      BY <2>1, <2>4, <2>9, <1>6, <1>7 DEF ModesAre, CpusAre
    <3>2. Private!Result(t).outcome = "Syscall"
      BY <2>1, <2>2
    <3>3. Shows
      BY <3>1, <3>2, <2>1, <1>2, <1>3, <1>4, <1>5, OneShows
    <3>4. QED
      BY <3>3, <2>6, <2>7, OwnStep
  <2>10. QED
    BY <2>8, <2>9
<1>13. QED
  BY <1>8, <1>9, <1>10, <1>11, <1>12
\* The steps of the kernel in which the registers and the memory of the program
\* stay as they are, and so does what a Read has still to do.
LEMMA QuietKernelShows ==
  ASSUME MachineTyped, OwnProcessor, NEW t \in Threads, Thread(t),
         \/ Root(t) \/ PageIn(t) \/ Exit(t) \/ Stop(t)
         \/ PutLast(t) \/ PutAcquire(t) \/ PutChar(t) \/ PutFails(t) \/ PutWaits(t) \/ PutRelease(t)
         \/ GetLast(t) \/ GetAcquire(t) \/ GetWaits(t) \/ GetChar(t) \/ GetRelease(t)
  PROVE  OwnProcessor' /\ Shows
<1>1. /\ Registered /\ current = t /\ place \in [Threads -> Places] /\ DOMAIN bytes = Threads
      /\ buf \in [Threads -> Seq(Int)] /\ buf[t] \in Seq(Int)
      /\ fault \in [Threads -> [page : Int, back : {"user", "fill", "drain"}]]
      /\ Reading(t) /\ View(t) = cpu
  BY ThreadViews DEF View, MachineTyped, Programs, OwnProcessor
<1>2. View(t).r[5] \in Int
  BY <1>1, SmallWords, MipsAssumption DEF Cpus, Registered
<1>3. ASSUME UNCHANGED <<cpu, current, saved>> \/ (Sleep /\ place[t] # "root")
      PROVE  View(t)' = View(t)
  BY <1>1, <1>3, SleepViews DEF View
<1>4. ModesAre /\ ModesAre'
  BY BothHold
<1>5. CASE Root(t)
  <2>1. place[t] = "root" /\ place'[t] = "begin" /\ bytes' = bytes
    BY <1>1, <1>5 DEF Root, At, Ticks, memory
  <2>2. ModeOf(t) = "new" /\ ModeOf(t)' = "new"
    BY <2>1, <1>4 DEF ModesAre
  <2>3. Reading(t)'
    BY <2>1 DEF Reading, Reads
  <2>4. QED
    BY <2>1, <2>2, <2>3, OwnStutter
<1>6. CASE PageIn(t)
  <2>1. /\ place[t] = "pageIn" /\ place'[t] = fault[t].back
        /\ UNCHANGED <<bytes, fault, buf, cpu, current, saved>>
    BY <1>1, <1>6 DEF PageIn, At, Goto, dispatch
  <2>2. fault[t].back \in {"user", "fill", "drain"}
    BY <1>1
  <2>3. ModeOf(t)' = ModeOf(t)
    BY <2>1, <2>2, <1>4 DEF ModesAre
  <2>4. View(t)' = View(t)
    BY <2>1, <1>3
  <2>5. Reading(t)'
    BY <2>1, <2>2, <2>4, <1>1 DEF Reading, Reads
  <2>6. QED
    BY <2>1, <2>3, <2>4, <2>5, OwnStutter
<1>7. CASE Exit(t)
  <2>1. place[t] = "exit" /\ place'[t] = "finished" /\ bytes' = bytes /\ Sleep
    BY <1>1, <1>7 DEF Exit, SleepsAt, At, Goto, memory
  <2>2. ModeOf(t) = "ended" /\ ModeOf(t)' = "ended"
    BY <2>1, <1>4 DEF ModesAre
  <2>3. View(t)' = View(t)
    BY <2>1, <1>3
  <2>4. Reading(t)'
    BY <2>1 DEF Reading, Reads
  <2>5. QED
    BY <2>1, <2>2, <2>3, <2>4, OwnStutter
<1>8. CASE Stop(t) \/ PutFails(t)
  <2>1. UNCHANGED <<place, bytes, fault, buf, cpu, current, saved>>
    BY <1>8 DEF Stop, PutFails, Aborts, memory, dispatch
  <2>2. ModeOf(t)' = ModeOf(t) /\ View(t)' = View(t) /\ Reading(t)'
    BY <2>1, <1>1 DEF ModeOf, View, Reading, Reads
  <2>3. QED
    BY <2>1, <2>2, OwnStutter
<1> DEFINE Call == {"put", "putAsleep", "putChar", "putDone", "putRelease", "get", "getAsleep",
                    "getWait", "getChar", "getRelease", "drain", "done"}
<1>9. ASSUME place[t] \in Call, place'[t] \in Call, bytes' = bytes,
             UNCHANGED <<cpu, current, saved>> \/ Sleep, View(t)' = View(t) => Reading(t)'
      PROVE  OwnProcessor' /\ Shows
  <2>1. ModeOf(t) = "call" /\ ModeOf(t)' = "call" /\ place[t] # "root"
    BY <1>9, <1>4 DEF ModesAre
  <2>2. View(t)' = View(t)
    BY <2>1, <1>3, <1>9
  <2>3. QED
    BY <2>1, <2>2, <1>9, OwnStutter
<1>10. ASSUME place'[t] \in {"put", "putAsleep", "putChar", "putDone", "putRelease", "done"}
       PROVE  Reading(t)'
  BY <1>10 DEF Reading, Reads
<1>11. ASSUME Reads(t), UNCHANGED buf,
              place'[t] \in {"get", "getAsleep", "getWait", "getChar", "getRelease", "drain"},
              place'[t] \in {"getAsleep", "getWait", "getChar"} => Len(buf[t]) < View(t).r[5]
       PROVE  View(t)' = View(t) => Reading(t)'
  BY <1>1, <1>11 DEF Reading, Reads
<1>12. CASE PutLast(t) \/ PutChar(t)
  <2>1. /\ place[t] \in Call /\ bytes' = bytes /\ UNCHANGED <<cpu, current, saved>>
        /\ place'[t] \in {"done", "putDone"}
    BY <1>1, <1>12 DEF PutLast, PutChar, Continues, Goto, At, memory, dispatch
  <2>2. QED
    BY <2>1, <1>9, <1>10
<1>13. CASE PutRelease(t)
  <2>1. /\ place[t] \in Call /\ bytes' = bytes /\ UNCHANGED <<cpu, current, saved>>
        /\ place'[t] = "put"
    BY <1>1, <1>13 DEF PutRelease, Ticks, At, memory
  <2>2. QED
    BY <2>1, <1>9, <1>10
<1>14. ASSUME NEW l, NEW p \in Places, NEW asleep \in Places, NEW next \in Places,
              Acquire(t, l, p, asleep, next)
       PROVE  /\ place[t] \in {p, asleep} /\ place'[t] \in {asleep, next}
              /\ UNCHANGED <<bytes, buf>>
              /\ UNCHANGED <<cpu, current, saved>> \/ Sleep
  BY <1>1, <1>14 DEF Acquire, At, TicksTo, Ticks, SleepsAt, Goto, memory, dispatch
<1>15. ASSUME NEW s, NEW p \in Places, NEW next \in Places, P(t, s, p, next)
       PROVE  /\ place[t] = p /\ place'[t] \in {p, next}
              /\ UNCHANGED <<bytes, buf>>
              /\ UNCHANGED <<cpu, current, saved>> \/ Sleep
  BY <1>1, <1>15 DEF P, At, TicksTo, Ticks, SleepsAt, Goto, memory, dispatch
<1>16. CASE PutAcquire(t)
  <2>1. /\ place[t] \in {"put", "putAsleep"} /\ place'[t] \in {"putAsleep", "putChar"}
        /\ UNCHANGED <<bytes, buf>> /\ (UNCHANGED <<cpu, current, saved>> \/ Sleep)
    BY <1>14, <1>16 DEF PutAcquire, Places
  <2>2. QED
    BY <2>1, <1>9, <1>10
<1>17. CASE PutWaits(t)
  <2>1. /\ place[t] = "putDone" /\ place'[t] \in {"putDone", "putRelease"}
        /\ UNCHANGED <<bytes, buf>> /\ (UNCHANGED <<cpu, current, saved>> \/ Sleep)
    BY <1>15, <1>17 DEF PutWaits, Places
  <2>2. QED
    BY <2>1, <1>9, <1>10
<1>18. CASE GetLast(t)
  <2>1. /\ place[t] = "get" /\ UNCHANGED <<bytes, buf, cpu, current, saved>>
        /\ place'[t] = "drain"
    BY <1>1, <1>18 DEF GetLast, Continues, Goto, At, memory, dispatch
  <2>2. QED
    BY <2>1, <1>9, <1>11 DEF Reads
<1>19. CASE GetAcquire(t)
  <2>1. /\ place[t] \in {"get", "getAsleep"} /\ place'[t] \in {"getAsleep", "getWait"}
        /\ UNCHANGED <<bytes, buf>> /\ (UNCHANGED <<cpu, current, saved>> \/ Sleep)
    BY <1>14, <1>19 DEF GetAcquire, Places
  <2>2. Len(buf[t]) < View(t).r[5]
    BY <1>1, <1>19 DEF GetAcquire
  <2>3. QED
    BY <2>1, <2>2, <1>9, <1>11 DEF Reads
<1>20. CASE GetWaits(t)
  <2>1. /\ place[t] = "getWait" /\ place'[t] \in {"getWait", "getChar"}
        /\ UNCHANGED <<bytes, buf>> /\ (UNCHANGED <<cpu, current, saved>> \/ Sleep)
    BY <1>15, <1>20 DEF GetWaits, Places
  <2>2. Len(buf[t]) < View(t).r[5]
    BY <2>1, <1>1 DEF Reading
  <2>3. QED
    BY <2>1, <2>2, <1>9, <1>11 DEF Reads
<1>21. CASE GetRelease(t)
  <2>1. /\ place[t] = "getRelease" /\ place'[t] = "get"
        /\ UNCHANGED <<bytes, buf, cpu, current, saved>>
    BY <1>1, <1>21 DEF GetRelease, Ticks, At, memory
  <2>2. QED
    BY <2>1, <1>9, <1>11 DEF Reads
<1>22. CASE GetChar(t)
  <2>1. /\ place[t] = "getChar" /\ place'[t] = "getRelease"
        /\ bytes' = bytes /\ UNCHANGED <<cpu, current, saved>>
        /\ buf'[t] = Append(buf[t], incoming)
    BY <1>1, <1>22 DEF GetChar, Continues, Goto, At, memory, dispatch
  <2>2. Len(buf'[t]) = Len(buf[t]) + 1
    BY <2>1, <1>1
  <2>3. Len(buf[t]) < View(t).r[5] /\ View(t).r[2] = 6 /\ Len(buf[t]) \in Nat
    BY <2>1, <1>1 DEF Reading, Reads
  <2>4. View(t)' = View(t) => Reading(t)'
    BY <2>1, <2>2, <2>3, <1>2 DEF Reading, Reads
  <2>5. QED
    BY <2>1, <2>4, <1>9
<1>23. QED
  BY <1>5, <1>6, <1>7, <1>8, <1>12, <1>13, <1>16, <1>17, <1>18, <1>19, <1>20, <1>21, <1>22
\* The steps of the kernel that show: the beginning of a program, the faults in
\* the kernel, the bytes a Read delivers, and the ends of the system calls.
LEMMA KernelShows ==
  ASSUME MachineTyped, OwnProcessor, NEW t \in Threads, Thread(t),
         \/ Begin(t) \/ ReturnAgain(t) \/ ReturnDone(t) \/ ReturnFail(t)
         \/ FillBuffer(t) \/ DrainBuffer(t)
  PROVE  OwnProcessor' /\ Shows
<1> DEFINE flushed == DelayedLoad(cpu, 0, 0)
<1>1. /\ cpu \in Cpus /\ saved \in [Threads -> Cpus] /\ current = t
      /\ place \in [Threads -> Places] /\ DOMAIN bytes = Threads
      /\ buf \in [Threads -> Seq(Int)] /\ buf[t] \in Seq(Int)
      /\ fault \in [Threads -> [page : Int, back : {"user", "fill", "drain"}]]
      /\ Reading(t) /\ Sound(t) /\ View(t) = cpu /\ AtHome
  BY ThreadViews DEF View, MachineTyped, Registered, Programs, OwnProcessor
<1>2. setup' = setup /\ \A u \in Threads \ {t} : Quiet(u)
  BY ThreadViews, <1>1
<1>3. \A u \in Threads \ {t} : ModeOf(u)' = ModeOf(u) /\ CpuOf(u)' = CpuOf(u)
  BY <1>2, QuietShows
<1>4. UNCHANGED <<current, saved>> => View(t)' = cpu'
  BY <1>1 DEF View
<1>5. ModesAre /\ ModesAre' /\ CpusAre /\ CpusAre'
  BY BothHold
<1>6. Settled(flushed) /\ (Settled(cpu) => flushed = cpu)
  BY <1>1, SettledFlush
<1> HIDE DEF flushed
<1>7. CASE Begin(t)
  <2>1. /\ place[t] = "begin" /\ place'[t] = "user" /\ bytes' = bytes
        /\ UNCHANGED <<current, saved>> /\ cpu' = InitRegisters(Space(t))
    BY <1>1, <1>7 DEF Begin, At, Goto, memory
  <2>2. ModeOf(t) = "new" /\ ModeOf(t)' = "user" /\ CpuOf(t) = InitRegisters(Space(t))
        /\ CpuOf(t)' = cpu'
    BY <2>1, <1>4, <1>5 DEF ModesAre, CpusAre
  <2>3. Shows
    BY <2>1, <2>2, <1>2, <1>3, OneShows
  <2>4. Sound(t)' /\ Reading(t)'
    BY <2>1, <2>2 DEF Sound, Reading, Reads
  <2>5. QED
    BY <2>3, <2>4, OwnStep
<1>8. ASSUME place[t] \in {"again", "done", "fail", "fill", "drain"}
      PROVE  /\ ModeOf(t) = "call" /\ CpuOf(t) = cpu /\ Settled(cpu) /\ flushed = cpu
             /\ addressSpace = t
  <2>1. ModeOf(t) = "call" /\ CpuOf(t) = cpu
    BY <1>1, <1>5, <1>8 DEF ModesAre, CpusAre
  <2>2. QED
    BY <2>1, <1>1, <1>6, <1>8 DEF Sound, AtHome
<1>9. ASSUME place[t] \in {"again", "done", "fail"}, NEW c, cpu' = c,
             place' = [place EXCEPT ![t] = "user"], UNCHANGED <<bytes, current, saved>>,
             c \in {increase_program_counter(cpu),
                    increase_program_counter([cpu EXCEPT !.r[2] = 0]), cpu}
      PROVE  OwnProcessor' /\ Shows
  <2>1. place'[t] = "user" /\ ModeOf(t) = "call" /\ CpuOf(t) = cpu
    BY <1>1, <1>8, <1>9
  <2>2. ModeOf(t)' = "user" /\ CpuOf(t)' = c
    BY <2>1, <1>4, <1>5, <1>9 DEF ModesAre, CpusAre
  <2>3. Shows
    BY <2>1, <2>2, <1>2, <1>3, <1>9, OneShows
  <2>4. Sound(t)' /\ Reading(t)'
    BY <2>1, <2>2 DEF Sound, Reading, Reads
  <2>5. QED
    BY <2>3, <2>4, OwnStep
<1>10. CASE ReturnAgain(t)
  BY <1>9, <1>10 DEF ReturnAgain, Return, Ticks, At, memory, dispatch
<1>11. CASE ReturnDone(t)
  BY <1>9, <1>11 DEF ReturnDone, Return, Ticks, At, memory, dispatch
<1>12. CASE ReturnFail(t)
  BY <1>9, <1>12 DEF ReturnFail, Return, Ticks, At, memory, dispatch
<1>13. ASSUME NEW addr, NEW back \in {"fill", "drain"}, place[t] = back, PageFault(t, addr, back)
       PROVE  OwnProcessor' /\ Shows
  <2>1. /\ place'[t] = "pageIn" /\ fault'[t].back = back /\ cpu' = flushed
        /\ UNCHANGED <<bytes, buf, current, saved>>
    BY <1>1, <1>13 DEF PageFault, Raises, Goto, dispatch, flushed
  <2>2. ModeOf(t) = "call" /\ flushed = cpu
    BY <1>8, <1>13
  <2>3. ModeOf(t)' = "call" /\ View(t)' = View(t)
    BY <2>1, <2>2, <1>1, <1>4, <1>5, <1>13 DEF ModesAre
  <2>4. Reading(t)'
    BY <2>1, <2>3, <1>1, <1>13 DEF Reading, Reads
  <2>5. QED
    BY <2>1, <2>2, <2>3, <2>4, OwnStutter
<1>14. ASSUME place[t] \in {"fill", "drain"}, Traps(t, "exit")
       PROVE  OwnProcessor' /\ Shows
  <2>1. /\ place'[t] = "exit" /\ cpu' = flushed /\ UNCHANGED <<bytes, current, saved>>
    BY <1>1, <1>14 DEF Traps, Raises, Goto, dispatch, memory, flushed
  <2>2. ModeOf(t) = "call" /\ CpuOf(t) = cpu
    BY <1>8, <1>14
  <2>3. ModeOf(t)' = "ended" /\ CpuOf(t)' = flushed
    BY <2>1, <1>4, <1>5 DEF ModesAre, CpusAre
  <2>4. CpuOf(t)' = DelayedLoad(CpuOf(t), 0, 0)
    BY <2>2, <2>3 DEF flushed
  <2>5. Shows
    BY <2>1, <2>2, <2>3, <2>4, <1>2, <1>3, OneShows
  <2>6. Settled(View(t))'
    BY <2>1, <1>4, <1>6 DEF Settled
  <2>7. Sound(t)' /\ Reading(t)'
    BY <2>1, <2>6 DEF Sound, Reading, Reads
  <2>8. QED
    BY <2>5, <2>7, OwnStep
<1>15. CASE FillBuffer(t)
  <2> DEFINE addr == Signed(cpu.r[4] + Len(buf[t]))
  <2>1. place[t] = "fill"
    BY <1>15 DEF FillBuffer, At
  <2>2. \/ PageFault(t, addr, "fill")
        \/ Traps(t, "exit")
        \/ /\ UNCHANGED <<bytes, cpu, current, saved>>
           /\ \E p \in {"put", "fill"} : place' = [place EXCEPT ![t] = p]
    BY <1>15 DEF FillBuffer, Continues, Goto, memory, dispatch
  <2> HIDE DEF addr
  <2>3. CASE /\ UNCHANGED <<bytes, cpu, current, saved>>
             /\ \E p \in {"put", "fill"} : place' = [place EXCEPT ![t] = p]
    <3>1. place'[t] \in {"put", "fill"}
      BY <2>3, <1>1
    <3>2. ModeOf(t) = "call" /\ ModeOf(t)' = "call" /\ View(t)' = View(t)
      BY <3>1, <2>1, <2>3, <1>1, <1>4, <1>5 DEF ModesAre
    <3>3. Reading(t)'
      BY <3>1 DEF Reading, Reads
    <3>4. QED
      BY <3>2, <3>3, <2>3, OwnStutter
  <2>4. QED
    BY <2>1, <2>2, <2>3, <1>13, <1>14
<1>16. CASE DrainBuffer(t)
  <2> DEFINE i == cpu.r[5] - Len(buf[t])
             addr == Signed(cpu.r[4] + i)
  <2>1. place[t] = "drain" /\ addressSpace = t
    <3>1. place[t] = "drain"
      BY <1>16 DEF DrainBuffer, At
    <3>2. QED
      BY <3>1, <1>8
  <2>2. /\ cpu.r[2] = 6 /\ Len(buf[t]) <= cpu.r[5]
        /\ ModeOf(t) = "call" /\ CpuOf(t) = cpu /\ Settled(cpu)
    BY <2>1, <1>1, <1>8 DEF Reading, Reads
  <2>3. cpu.r[4] \in Int /\ cpu.r[5] \in Int
    BY <1>1, SmallWords, MipsAssumption DEF Cpus
  <2>4. \/ PageFault(t, addr, "drain")
        \/ Traps(t, "exit")
        \/ /\ buf[t] = <<>> /\ cpu' = [cpu EXCEPT !.r[2] = cpu.r[5]]
           /\ place' = [place EXCEPT ![t] = "done"]
           /\ UNCHANGED <<bytes, current, saved>>
        \/ /\ buf[t] # <<>> /\ Translate(Space(t), addr, 1) = "NoException"
           /\ bytes' = [bytes EXCEPT ![t] = WriteMem(Space(t), addr, 1, Head(buf[t]))]
           /\ buf' = [buf EXCEPT ![t] = Tail(buf[t])]
           /\ place' = [place EXCEPT ![t] = "drain"]
           /\ UNCHANGED <<cpu, current, saved>>
    BY <2>1, <1>16 DEF DrainBuffer, Continues, Goto, memory, dispatch
  <2> HIDE DEF addr
  <2>5. CASE /\ buf[t] = <<>> /\ cpu' = [cpu EXCEPT !.r[2] = cpu.r[5]]
             /\ place' = [place EXCEPT ![t] = "done"]
             /\ UNCHANGED <<bytes, current, saved>>
    <3>1. place'[t] = "done" /\ View(t)' = cpu'
      BY <2>5, <1>1, <1>4
    <3>2. ModeOf(t)' = "call" /\ CpuOf(t)' = cpu'
      BY <3>1, <1>5 DEF ModesAre, CpusAre
    <3>3. Shows
      BY <3>2, <2>2, <2>5, <1>2, <1>3, OneShows
    <3>4. Settled(cpu')
      <4>1. cpu'.r = [cpu.r EXCEPT ![2] = cpu.r[5]] /\ cpu'.load = cpu.load
            /\ cpu'.loadValue = cpu.loadValue
        BY <2>5, <1>1 DEF Cpus
      <4>2. cpu'.r[0] = cpu.r[0]
        BY <4>1, <1>1, MipsAssumption DEF Cpus
      <4>3. QED
        BY <4>1, <4>2, <2>2 DEF Settled
    <3>5. Sound(t)' /\ Reading(t)'
      BY <3>1, <3>4 DEF Sound, Reading, Reads, Settled
    <3>6. QED
      BY <3>3, <3>5, OwnStep
  <2>6. CASE /\ buf[t] # <<>> /\ Translate(Space(t), addr, 1) = "NoException"
             /\ bytes' = [bytes EXCEPT ![t] = WriteMem(Space(t), addr, 1, Head(buf[t]))]
             /\ buf' = [buf EXCEPT ![t] = Tail(buf[t])]
             /\ place' = [place EXCEPT ![t] = "drain"]
             /\ UNCHANGED <<cpu, current, saved>>
    <3> DEFINE a == Unsigned(cpu.r[4] + i)
               b == Head(buf[t]) % Byte
    <3>1. /\ Len(buf[t]) \in Nat /\ Len(buf[t]) > 0 /\ Head(buf[t]) \in Int
          /\ Len(Tail(buf[t])) = Len(buf[t]) - 1
      BY <2>6, <1>1, HeadTailProperties
    <3>2. i \in 0 .. cpu.r[5] - 1
      BY <3>1, <2>2, <2>3
    <3>3. b \in 0 .. Byte - 1
      BY <3>1, Sizes
    <3>4. a \in Int /\ Unsigned(addr) = a
      <4>1. \A k \in Int : Unsigned(Signed(k)) = Unsigned(k) /\ Unsigned(k) \in Int
        BY SignedWord
      <4>2. cpu.r[4] + i \in Int
        BY <3>2, <2>3
      <4> HIDE DEF i
      <4>3. QED
        BY <4>1, <4>2 DEF addr
    <3>5. a \in DOMAIN bytes[t]
      BY <3>4, <2>6 DEF Translate, Space
    <3>6. WriteMem(Space(t), addr, 1, Head(buf[t])) = [bytes[t] EXCEPT ![a] = b]
      <4>1. a \in Int
        BY <3>4
      <4>2. ShiftRight(Head(buf[t]), ByteBits * (a - a)) % Byte = b
        <5>1. ByteBits * (a - a) = 0
          BY <4>1, MipsAssumption
        <5>2. 2 ^ 0 = 1
          BY Powers
        <5>3. Head(buf[t]) \div 1 = Head(buf[t])
          BY <3>1
        <5>4. QED
          BY <5>1, <5>2, <5>3 DEF ShiftRight
      <4> HIDE DEF a, b, i
      <4>3. a .. a + 1 - 1 = {a}
        BY <4>1
      <4>4. WriteMem(Space(t), addr, 1, Head(buf[t])) =
              [x \in DOMAIN bytes[t] |->
                 IF x \in a .. a + 1 - 1
                 THEN ShiftRight(Head(buf[t]), ByteBits * (x - a)) % Byte ELSE bytes[t][x]]
        BY <3>4 DEF WriteMem, Space
      <4>5. QED
        BY <4>2, <4>3, <4>4
    <3>7. /\ place'[t] = "drain" /\ buf'[t] = Tail(buf[t]) /\ View(t)' = cpu
      BY <2>6, <1>1, <1>4
    <3>8. ModeOf(t)' = "call" /\ CpuOf(t)' = CpuOf(t)
      BY <3>7, <2>2, <1>5 DEF ModesAre, CpusAre
    <3>9. \E j \in 0 .. CpuOf(t).r[5] - 1 : \E c \in 0 .. Byte - 1 :
            /\ Unsigned(CpuOf(t).r[4] + j) \in DOMAIN bytes[t]
            /\ bytes' = [bytes EXCEPT ![t][Unsigned(CpuOf(t).r[4] + j)] = c]
      <4>1. bytes' = [bytes EXCEPT ![t] = [bytes[t] EXCEPT ![a] = b]]
        BY <3>6, <2>6
      <4>2. bytes' = [bytes EXCEPT ![t][a] = b]
        BY <4>1
      <4>3. QED
        BY <4>2, <3>2, <3>3, <3>5, <2>2
    <3>10. Shows
      BY <3>8, <3>9, <2>2, <1>2, <1>3, OneShows
    <3>11. Sound(t)' /\ Reading(t)'
      <4>1. Len(buf'[t]) <= cpu.r[5]
        BY <3>1, <3>7, <2>2, <2>3
      <4>2. QED
        BY <4>1, <3>7, <2>2 DEF Sound, Reading, Reads, Settled
    <3>12. QED
      BY <3>10, <3>11, OwnStep
  <2>7. QED
    BY <2>1, <2>4, <2>5, <2>6, <1>13, <1>14
<1>17. QED
  BY <1>7, <1>10, <1>11, <1>12, <1>15, <1>16
\* The machine starts as private processors do.
LEMMA InitPrivate ==
  ASSUME Init
  PROVE  OwnProcessor /\ Private!Init
<1>1. /\ place = [t \in Threads |-> IF t = First THEN "begin" ELSE "root"] /\ current = First
      /\ bytes = Setups[setup].bytes
  BY DEF Init, InterruptInit
<1>2. \A t \in Threads : ModeOf(t) = "new"
  BY <1>1, BothHold DEF ModesAre
<1>3. AtHome
  BY <1>1, MachineAssumption DEF AtHome
<1>4. \A t \in Threads : Sound(t) /\ Reading(t)
  BY <1>1, <1>2 DEF Sound, Reading, Reads
<1>5. [t \in Threads |-> ModeOf(t)] = [t \in Threads |-> "new"]
  BY <1>2
<1>6. ASSUME NEW t \in Threads
      PROVE  CpuOf(t) = InitRegisters(Private!Everything(t))
  <2>1. CpuOf(t) = InitRegisters(Space(t))
    BY <1>2, BothHold DEF CpusAre
  <2>2. Space(t).bytes = Private!Everything(t).bytes
    BY DEF Space, Private!Everything
  <2>3. QED
    BY <2>1, <2>2 DEF InitRegisters
<1>7. QED
  BY <1>3, <1>4, <1>5, <1>6 DEF OwnProcessor, Private!Init

\* Each step of the machine is one of a private processor, or shows to no program.
LEMMA PrivateStep ==
  ASSUME MachineTyped, MachineTyped', OwnProcessor, [Next]_vars
  PROVE  OwnProcessor' /\ Shows
<1>1. CASE Hardware
  BY <1>1, HardwareShows
<1>2. ASSUME NEW t \in Threads, Thread(t)
      PROVE  OwnProcessor' /\ Shows
  BY <1>2, UserShows, QuietKernelShows, KernelShows DEF Thread
<1>3. CASE UNCHANGED vars
  <2>1. UNCHANGED <<setup, bytes, place, fault, buf, cpu, current, saved, addressSpace>>
    BY <1>3 DEF vars, dispatch, memory
  <2>2. \A u \in Threads : Quiet(u)
    BY <2>1 DEF Quiet, View
  <2>3. \A u \in Threads : /\ ModeOf(u)' = ModeOf(u) /\ CpuOf(u)' = CpuOf(u)
                           /\ Sound(u)' /\ Reading(u)'
    BY <2>2, QuietShows DEF OwnProcessor
  <2>4. AtHome'
    BY <2>1 DEF AtHome, OwnProcessor
  <2>5. UNCHANGED Private!vars
    BY <2>1, <2>3 DEF Private!vars
  <2>6. QED
    BY <2>3, <2>4, <2>5 DEF OwnProcessor, Shows
<1>4. QED
  BY <1>1, <1>2, <1>3 DEF Next

\* Each program runs as if it had the processor and its memory for itself
\* (Scheduler::Run, OneTick, RaiseException, exception.cc): whatever is done
\* between two of its instructions leaves its registers and its memory alone,
\* but for a load that is done early and what its own system calls promise.
THEOREM MachineImplementsPrivateCpu == Spec => ImplementsPrivateCpu
<1>1. Init => OwnProcessor /\ Private!Init
  BY InitPrivate
<1>2. MachineTyped /\ MachineTyped' /\ OwnProcessor /\ [Next]_vars
        => OwnProcessor' /\ [Private!Next]_(Private!vars)
  BY PrivateStep DEF Shows
<1>3. QED
  BY <1>1, <1>2, MachineIsTyped, PTL DEF Spec, ImplementsPrivateCpu, Private!Spec

-------------------------------------------------------------------------------
(* The product is exact.                                                   *)

\* A factor that reaches w makes the product reach w * k.
LEMMA ProductGrows ==
  ASSUME NEW w \in Nat, NEW k \in Nat, NEW s \in Int, s >= w
  PROVE  s * k >= w * k
<1>1. (s - w) * k >= 0
  <2> DEFINE d == s - w
  <2>1. d \in Nat
    OBVIOUS
  <2> HIDE DEF d
  <2>2. d * k \in Nat
    BY <2>1
  <2>3. QED
    BY <2>2 DEF d
<1>2. (s - w) * k = s * k - w * k
  OBVIOUS
<1>3. s * k \in Int /\ w * k \in Int
  OBVIOUS
<1>4. QED
  BY <1>1, <1>2, <1>3

\* Two words that are added by halves.
LEMMA TurnAdds ==
  ASSUME NEW w \in Nat \ {0},
         NEW lo \in 0 .. w - 1, NEW hi \in 0 .. w - 1, NEW bLo \in 0 .. w - 1, NEW bHi \in 0 .. w - 1,
         (hi * w + lo) + (bHi * w + bLo) < w * w
  PROVE  LET sum == (lo + bLo) % w
             carry == IF sum < bLo THEN 1 ELSE 0
         IN ((hi + carry + bHi) % w) * w + sum = (hi * w + lo) + (bHi * w + bLo)
<1> DEFINE sum == (lo + bLo) % w
           carry == IF sum < bLo THEN 1 ELSE 0
           high == hi + carry + bHi
<1>1. sum \in 0 .. w - 1 /\ w * carry + sum = lo + bLo
  <2>1. CASE lo + bLo < w
    <3>1. (w * 0 + (lo + bLo)) % w = lo + bLo
      BY <2>1, DivisionIs
    <3>2. w * 0 + (lo + bLo) = lo + bLo
      OBVIOUS
    <3>3. sum = lo + bLo
      BY <3>1, <3>2
    <3> HIDE DEF sum
    <3>4. carry = 0
      BY <3>3
    <3>5. QED
      BY <2>1, <3>3, <3>4
  <2>2. CASE lo + bLo >= w
    <3> DEFINE rest == lo + bLo - w
    <3>1. rest \in 0 .. w - 1 /\ w * 1 + rest = lo + bLo
      BY <2>2
    <3>2. (w * 1 + rest) % w = rest
      BY <3>1, DivisionIs, 1 \in Int
    <3>3. sum = rest
      BY <3>1, <3>2
    <3> HIDE DEF sum
    <3>4. carry = 1
      BY <3>3
    <3>5. QED
      BY <3>1, <3>3, <3>4
  <2>3. QED
    BY <2>1, <2>2
<1>2. carry \in 0 .. 1
  BY DEF carry
<1> HIDE DEF sum, carry
<1>3. high \in Nat
  BY <1>2
<1>4. high * w + sum = (hi * w + lo) + (bHi * w + bLo)
  <2>1. high * w = hi * w + carry * w + bHi * w
    BY <1>2
  <2>2. carry * w = w * carry
    BY <1>2
  <2>3. hi * w \in Int /\ bHi * w \in Int /\ carry * w \in Int /\ sum \in Int
    BY <1>1, <1>2
  <2> DEFINE x == high * w
             y == hi * w
             z == bHi * w
             v == w * carry
  <2>4. x = y + v + z /\ v + sum = lo + bLo
    BY <2>1, <2>2, <1>1
  <2>5. y \in Int /\ z \in Int /\ v \in Int
    BY <2>3, <2>2
  <2> HIDE DEF x, y, z, v
  <2>6. x + sum = (y + lo) + (z + bLo)
    BY <2>3, <2>4, <2>5
  <2>7. QED
    BY <2>6 DEF x, y, z
<1>5. high < w
  <2> SUFFICES ASSUME high >= w
               PROVE  FALSE
    BY <1>3
  <2> HIDE DEF high
  <2>1. high * w >= w * w
    BY <1>3, ProductGrows
  <2>2. high * w \in Int /\ w * w \in Int
    BY <1>3
  <2>3. QED
    BY <2>1, <2>2, <1>1, <1>4
<1> HIDE DEF high
<1>6. high % w = high
  <2>1. (w * 0 + high) % w = high
    BY <1>3, <1>5, DivisionIs
  <2>2. w * 0 + high = high
    BY <1>3
  <2>3. QED
    BY <2>1, <2>2
<1>7. QED
  BY <1>4, <1>6 DEF sum, carry, high

\* A double word that is shifted to the left.
LEMMA TurnDoubles ==
  ASSUME NEW w \in Nat \ {0}, NEW bLo \in 0 .. w - 1, NEW bHi \in 0 .. w - 1,
         2 * (bHi * w + bLo) < w * w
  PROVE  ((2 * bHi + (2 * bLo) \div w) % w) * w + ((2 * bLo) % w) = 2 * (bHi * w + bLo)
<1>1. PICK q \in Int, r \in 0 .. w - 1 :
        q = (2 * bLo) \div w /\ r = (2 * bLo) % w /\ 2 * bLo = w * q + r
  BY Division
<1> DEFINE high == 2 * bHi + q
<1>2. q >= 0
  <2> SUFFICES ASSUME q <= -1
               PROVE  FALSE
    OBVIOUS
  <2>1. w * (-q) >= w
    <3>1. (-q) * w >= 1 * w
      BY ProductGrows, 1 \in Nat
    <3>2. QED
      BY <3>1
  <2>2. w * (-q) = -(w * q) /\ w * q \in Int
    OBVIOUS
  <2>3. QED
    BY <1>1, <2>1, <2>2
<1>3. high \in Nat
  BY <1>2
<1>4. high * w + r = 2 * (bHi * w + bLo)
  <2>1. high * w = 2 * (bHi * w) + w * q
    OBVIOUS
  <2>2. bHi * w \in Int /\ w * q \in Int
    OBVIOUS
  <2>3. QED
    BY <2>1, <2>2, <1>1
<1> HIDE DEF high
<1>5. high < w
  <2> SUFFICES ASSUME high >= w
               PROVE  FALSE
    BY <1>3
  <2>1. high * w >= w * w
    BY <1>3, ProductGrows
  <2>2. high * w \in Int /\ w * w \in Int
    BY <1>3
  <2>3. QED
    BY <2>1, <2>2, <1>1, <1>4
<1>6. high % w = high
  <2>1. (w * 0 + high) % w = high
    BY <1>3, <1>5, DivisionIs
  <2>2. w * 0 + high = high
    BY <1>3
  <2>3. QED
    BY <2>1, <2>2
<1>7. QED
  BY <1>1, <1>4, <1>6 DEF high

\* A word has WordBits bits.
LEMMA WordPower == Word = 2 ^ WordBits
<1>1. ByteBits \in Nat /\ ByteBits + ByteBits \in Nat
  BY MipsAssumption
<1>2. 2 ^ (ByteBits + ByteBits) = Byte * Byte
  BY <1>1, PowerSum DEF Byte
<1>3. 2 ^ ((ByteBits + ByteBits) + (ByteBits + ByteBits)) =
        2 ^ (ByteBits + ByteBits) * 2 ^ (ByteBits + ByteBits)
  BY <1>1, PowerSum
<1>4. (ByteBits + ByteBits) + (ByteBits + ByteBits) = WordBits
  BY <1>1 DEF WordBits
<1>5. QED
  BY <1>2, <1>3, <1>4 DEF Half, Word

\* What a turn of Mult's loop keeps: a0 is what a has lost and what it has left,
\* the first of which is multiplied.
Shifted(a0, b, k, m) ==
  \E low \in 0 .. 2 ^ k - 1 : /\ a0 = 2 ^ k * m.a + low
                              /\ m.hi * Word + m.lo = low * b
                              /\ m.bHi * Word + m.bLo = 2 ^ k * b
Multiplied(a0, b, m) == m.hi * Word + m.lo = Unsigned(a0) * b

\* A turn keeps the product, or ends the loop with it.
LEMMA TurnExact ==
  ASSUME NEW a0 \in Words, NEW b \in 0 .. Word - 1, NEW k \in 0 .. WordBits - 1,
         NEW m \in MultStates, m.more, Shifted(a0, b, k, m)
  PROVE  \/ MultTurn(m).more /\ Shifted(a0, b, k + 1, MultTurn(m))
         \/ ~MultTurn(m).more /\ Multiplied(a0, b, MultTurn(m))
<1> DEFINE w == Word
           p == 2 ^ k
<1>1. w \in Nat \ {0} /\ WordBits \in Nat /\ k \in Nat
  BY Sizes
<1>2. /\ m.a \in Int /\ m.bLo \in 0 .. w - 1 /\ m.bHi \in 0 .. w - 1
      /\ m.lo \in 0 .. w - 1 /\ m.hi \in 0 .. w - 1
      /\ m = [a |-> m.a, bLo |-> m.bLo, bHi |-> m.bHi, lo |-> m.lo, hi |-> m.hi,
              more |-> m.more]
  BY DEF MultStates
<1>3. p \in Nat \ {0} /\ 2 ^ (k + 1) = 2 * p
  BY <1>1, Powers
<1>4. 2 * p <= w
  <2> DEFINE j == WordBits - (k + 1)
             f == 2 ^ j
  <2>1. j \in Nat /\ k + 1 \in Nat /\ (k + 1) + j = WordBits
    BY <1>1
  <2>2. 2 ^ WordBits = 2 ^ (k + 1) * 2 ^ j
    <3> HIDE DEF j
    <3>1. 2 ^ ((k + 1) + j) = 2 ^ (k + 1) * 2 ^ j
      BY <2>1, PowerSum
    <3>2. QED
      BY <2>1, <3>1
  <2>3. w = 2 ^ WordBits
    BY WordPower
  <2>4. f \in Nat \ {0}
    <3> HIDE DEF j
    <3>1. QED
      BY <2>1, Powers
  <2>5. w = f * (2 * p)
    <3> HIDE DEF j, p, f, w
    <3>1. w = (2 * p) * f
      BY <1>3, <2>2, <2>3 DEF f
    <3>2. QED
      BY <3>1, <1>3, <2>4
  <2> HIDE DEF f, p, w
  <2>6. f * (2 * p) >= 1 * (2 * p)
    BY <1>3, <2>4, ProductGrows, 1 \in Nat
  <2>7. QED
    BY <2>5, <2>6, <1>3
<1>5. PICK low \in 0 .. p - 1 : /\ a0 = p * m.a + low
                                /\ m.hi * w + m.lo = low * b
                                /\ m.bHi * w + m.bLo = p * b
  BY DEF Shifted
<1>6. b \in 0 .. w - 1 /\ b \in Nat
  BY <1>1
<1>7. a0 \in Int /\ (a0 >= 0 => Unsigned(a0) = a0)
  <2>1. a0 \in Int /\ Signed(a0) = a0
    BY WordSigned
  <2>2. Unsigned(a0) \in 0 .. w - 1 /\ (a0 = Unsigned(a0) \/ a0 = Unsigned(a0) - w)
    BY <2>1, SignedWord
  <2> HIDE DEF w
  <2>3. QED
    BY <2>1, <2>2, <1>1
<1> DEFINE odd == m.a % 2 = 1
           lo == IF odd THEN (m.lo + m.bLo) % w ELSE m.lo
           carry == IF lo < m.bLo THEN 1 ELSE 0
           hi == IF odd THEN (m.hi + carry + m.bHi) % w ELSE m.hi
           bHi == (2 * m.bHi + (2 * m.bLo) \div w) % w
           bLo == (2 * m.bLo) % w
           over == odd /\ m.a - (m.a % 2) = 0
           last == [m EXCEPT !.lo = lo, !.hi = hi, !.more = FALSE]
           next == [m EXCEPT !.lo = lo, !.hi = hi, !.a = ShiftRight(m.a, 1),
                             !.bHi = bHi, !.bLo = bLo]
<1>8. MultTurn(m) = IF over THEN last ELSE next
  BY DEF MultTurn, w
<1> HIDE DEF w, p
<1>9. PICK q \in Int, r \in 0 .. 1 : m.a = 2 * q + r /\ q = m.a \div 2 /\ r = m.a % 2
  <2>1. \E q \in Int, r \in 0 .. 2 - 1 : q = m.a \div 2 /\ r = m.a % 2 /\ m.a = 2 * q + r
    <3>1. 2 \in Nat \ {0} /\ m.a \in Int
      BY <1>2
    <3>2. \A x \in Int, d \in Nat \ {0} :
            \E q \in Int, r \in 0 .. d - 1 : q = x \div d /\ r = x % d /\ x = d * q + r
      BY Division
    <3>3. QED
      BY <3>1, <3>2
  <2>2. QED
    BY <2>1
<1>10. ShiftRight(m.a, 1) = q
  <2>1. 2 ^ 1 = 2
    OBVIOUS
  <2>2. QED
    BY <2>1, <1>9 DEF ShiftRight
<1> DEFINE low1 == low + p * r
<1>11. low1 \in 0 .. 2 * p - 1 /\ a0 = (2 * p) * q + low1
  <2>1. CASE r = 0
    <3>1. p * r = 0 /\ m.a = 2 * q
      BY <2>1, <1>3, <1>9
    <3>2. p * m.a = (2 * p) * q
      BY <3>1, <1>3
    <3>3. (2 * p) * q \in Int
      BY <1>3
    <3>4. QED
      BY <3>1, <3>2, <3>3, <1>3, <1>5
  <2>2. CASE r = 1
    <3>1. p * r = p /\ m.a = 2 * q + 1
      BY <2>2, <1>3, <1>9
    <3>2. p * m.a = (2 * p) * q + p
      BY <3>1, <1>3
    <3>3. (2 * p) * q \in Int
      BY <1>3
    <3>4. QED
      BY <3>1, <3>2, <3>3, <1>3, <1>5
  <2>3. QED
    BY <2>1, <2>2
<1>12. low * b \in Int /\ p * b \in Int /\ (low + p) * b = low * b + p * b
  BY <1>3, <1>6
<1>13. (2 * p) * b < w * w /\ (low + p) * b < w * w
  <2>1. w * b >= (2 * p) * b
    BY <1>1, <1>3, <1>4, <1>6, ProductGrows
  <2>2. w * b >= (low + p) * b
    <3>1. low + p \in Nat /\ w >= low + p
      BY <1>1, <1>3, <1>4
    <3>2. QED
      BY <3>1, <1>1, <1>6, ProductGrows
  <2>3. w * b < w * w
    <3>1. w * (b + 1) <= w * w
      <4>1. w * w >= (b + 1) * w
        BY <1>1, <1>6, ProductGrows
      <4>2. QED
        BY <4>1, <1>1, <1>6
    <3>2. w * (b + 1) = w * b + w
      BY <1>1, <1>6
    <3>3. w * b \in Int /\ w * w \in Int
      BY <1>1, <1>6
    <3>4. QED
      BY <3>1, <3>2, <3>3, <1>1
  <2>4. w * b \in Int /\ w * w \in Int /\ (2 * p) * b \in Int /\ (low + p) * b \in Int
    BY <1>1, <1>3, <1>6
  <2>5. QED
    BY <2>1, <2>2, <2>3, <2>4
<1>14. hi * w + lo = low1 * b
  <2>1. CASE odd
    <3>1. r = 1 /\ low1 = low + p
      BY <2>1, <1>3, <1>9
    <3>2. (m.hi * w + m.lo) + (m.bHi * w + m.bLo) = (low + p) * b
      <4> DEFINE x == m.hi * w + m.lo
                 y == m.bHi * w + m.bLo
      <4>1. x = low * b /\ y = p * b
        BY <1>5
      <4> HIDE DEF x, y
      <4>2. x + y = (low + p) * b
        BY <4>1, <1>12
      <4>3. QED
        BY <4>2 DEF x, y
    <3>3. (m.hi * w + m.lo) + (m.bHi * w + m.bLo) < w * w
      BY <3>2, <1>13
    <3>4. LET sum == (m.lo + m.bLo) % w
              c == IF sum < m.bLo THEN 1 ELSE 0
          IN ((m.hi + c + m.bHi) % w) * w + sum = (m.hi * w + m.lo) + (m.bHi * w + m.bLo)
      BY <3>3, <1>1, <1>2, TurnAdds
    <3>5. lo = (m.lo + m.bLo) % w
      BY <2>1
    <3>6. hi = (m.hi + (IF (m.lo + m.bLo) % w < m.bLo THEN 1 ELSE 0) + m.bHi) % w
      BY <2>1, <3>5
    <3> HIDE DEF lo, hi
    <3>7. hi * w + lo = (m.hi * w + m.lo) + (m.bHi * w + m.bLo)
      BY <3>4, <3>5, <3>6
    <3>8. QED
      BY <3>1, <3>2, <3>7
  <2>2. CASE ~odd
    <3>1. r = 0 /\ lo = m.lo /\ hi = m.hi
      BY <2>2, <1>9
    <3>2. low1 = low
      BY <3>1, <1>3
    <3>3. QED
      BY <3>1, <3>2, <1>5
  <2>3. QED
    BY <2>1, <2>2
<1>15. bHi * w + bLo = (2 * p) * b
  <2> DEFINE y == m.bHi * w + m.bLo
  <2>1. y = p * b
    BY <1>5
  <2>2. 2 * y = (2 * p) * b
    <3> HIDE DEF y
    <3>1. QED
      BY <2>1, <1>3, <1>6
  <2>3. 2 * (m.bHi * w + m.bLo) < w * w
    BY <2>2, <1>13
  <2>4. bHi * w + bLo = 2 * (m.bHi * w + m.bLo)
    BY <2>3, <1>1, <1>2, TurnDoubles
  <2>5. QED
    BY <2>2, <2>4
<1>16. CASE over
  <2>1. r = 1 /\ q = 0
    BY <1>9, <1>16
  <2>2. a0 = low1
    BY <2>1, <1>3, <1>11
  <2>3. Unsigned(a0) = low1
    BY <2>2, <1>3, <1>7, <1>11
  <2> HIDE DEF over, hi, lo, low1, bHi, bLo
  <2>4. last.hi = hi /\ last.lo = lo /\ last.more = FALSE
    BY <1>2
  <2>5. last.hi * w + last.lo = Unsigned(a0) * b
    BY <2>3, <2>4, <1>14
  <2> HIDE DEF last
  <2>6. MultTurn(m) = last
    BY <1>8, <1>16
  <2>7. QED
    BY <2>4, <2>5, <2>6 DEF Multiplied, w
<1>17. CASE ~over
  <2> HIDE DEF over, hi, lo, low1, bHi, bLo
  <2>1. /\ next.a = q /\ next.hi = hi /\ next.lo = lo /\ next.bHi = bHi /\ next.bLo = bLo
        /\ next.more = m.more
    BY <1>2, <1>10
  <2> HIDE DEF next
  <2>2. MultTurn(m) = next
    BY <1>8, <1>17
  <2>3. /\ low1 \in 0 .. 2 ^ (k + 1) - 1 /\ a0 = 2 ^ (k + 1) * next.a + low1
        /\ next.hi * w + next.lo = low1 * b
        /\ next.bHi * w + next.bLo = 2 ^ (k + 1) * b
    BY <2>1, <1>3, <1>11, <1>14, <1>15
  <2>4. Shifted(a0, b, k + 1, next)
    BY <2>3 DEF Shifted, w
  <2>5. QED
    BY <2>1, <2>2, <2>4
<1>18. QED
  BY <1>16, <1>17

\* Words that have no sign, and the words that have the same bits.
LEMMA UnsignedIs ==
  ASSUME NEW x \in 0 .. Word - 1
  PROVE  /\ Unsigned(x) = x /\ Unsigned(Signed(x)) = x
         /\ x < Word \div 2 => Signed(x) = x
         /\ x >= Word \div 2 => Signed(x) = x - Word
<1> DEFINE w == Word
<1>1. w \in Nat \ {0} /\ x \in 0 .. w - 1
  BY Sizes
<1>2. Signed(x) = IF Unsigned(x) >= w \div 2 THEN Unsigned(x) - w ELSE Unsigned(x)
  BY DEF Signed, SignExtend
<1>3. Unsigned(x) = x % w
  BY DEF Unsigned
<1> HIDE DEF w
<1>4. (w * 0 + x) % w = x
  BY <1>1, DivisionIs
<1>5. w * 0 + x = x
  BY <1>1
<1>6. Unsigned(x) = x
  BY <1>3, <1>4, <1>5
<1>7. Unsigned(Signed(x)) = x
  BY <1>1, <1>6, SignedWord
<1>8. QED
  BY <1>1, <1>2, <1>6, <1>7 DEF w

\* When the loop ends the double word is the product of the factors.
LEMMA LoopExact ==
  ASSUME NEW a0 \in Words, NEW b \in 0 .. Word - 1, NEW g \in [0 .. WordBits -> MultStates],
         g[0] = [a |-> a0, bLo |-> b, bHi |-> 0, lo |-> 0, hi |-> 0, more |-> TRUE],
         \A k \in 1 .. WordBits : g[k] = IF g[k - 1].more THEN MultTurn(g[k - 1]) ELSE g[k - 1]
  PROVE  Multiplied(a0, b, g[WordBits])
<1> DEFINE Held(k) == IF g[k].more THEN Shifted(a0, b, k, g[k]) ELSE Multiplied(a0, b, g[k])
           Good == {k \in 0 .. WordBits : Held(k)}
<1>1. WordBits \in Nat /\ Word \in Nat \ {0} /\ a0 \in Int
  BY Sizes, WordSigned
<1>2. Held(0)
  <2>1. g[0].more /\ g[0].a = a0 /\ g[0].bLo = b /\ g[0].bHi = 0 /\ g[0].lo = 0 /\ g[0].hi = 0
    OBVIOUS
  <2>2. 2 ^ 0 = 1
    OBVIOUS
  <2>3. /\ 0 \in 0 .. 1 - 1 /\ a0 = 1 * a0 + 0
        /\ 0 * Word + 0 = 0 * b /\ 0 * Word + b = 1 * b
    BY <1>1
  <2>4. Shifted(a0, b, 0, g[0])
    BY <2>1, <2>2, <2>3 DEF Shifted
  <2>5. QED
    BY <2>1, <2>4
<1>3. ASSUME NEW k \in 1 .. WordBits, Held(k - 1)
      PROVE  Held(k)
  <2> DEFINE j == k - 1
  <2>1. j \in 0 .. WordBits - 1 /\ j \in 0 .. WordBits /\ j + 1 = k
    BY <1>1
  <2>2. g[j] \in MultStates
    BY <2>1
  <2>3. Held(j) /\ g[k] = IF g[j].more THEN MultTurn(g[j]) ELSE g[j]
    BY <1>3
  <2> HIDE DEF j
  <2>4. CASE g[j].more
    <3>1. Shifted(a0, b, j, g[j])
      BY <2>3, <2>4
    <3>2. \/ MultTurn(g[j]).more /\ Shifted(a0, b, j + 1, MultTurn(g[j]))
          \/ ~MultTurn(g[j]).more /\ Multiplied(a0, b, MultTurn(g[j]))
      BY <3>1, <2>1, <2>2, <2>4, TurnExact
    <3>3. g[k] = MultTurn(g[j])
      BY <2>3, <2>4
    <3>4. QED
      BY <3>2, <3>3, <2>1
  <2>5. CASE ~g[j].more
    <3>1. g[k] = g[j] /\ Multiplied(a0, b, g[j])
      BY <2>3, <2>5
    <3>2. QED
      BY <3>1, <2>5
  <2>6. QED
    BY <2>4, <2>5
<1> HIDE DEF Held
<1>4. Good = 0 .. WordBits
  <2>1. 0 \in Good
    BY <1>1, <1>2
  <2>2. \A k \in 1 .. WordBits : k - 1 \in Good => k \in Good
    BY <1>1, <1>3
  <2>3. Good \in SUBSET (0 .. WordBits)
    OBVIOUS
  <2> HIDE DEF Good
  <2>4. QED
    BY <2>1, <2>2, <2>3, <1>1, IterationKeeps
<1>5. Held(WordBits)
  BY <1>1, <1>4
<1>6. CASE g[WordBits].more
  <2> DEFINE m == g[WordBits]
             w == Word
  <2>1. w = 2 ^ WordBits /\ m \in MultStates /\ w \in Nat \ {0}
    BY WordPower, <1>1
  <2>2. m.a \in Int
    BY <2>1 DEF MultStates
  <2>3. PICK low \in 0 .. w - 1 : a0 = w * m.a + low /\ m.hi * w + m.lo = low * b
    BY <1>5, <1>6, <2>1 DEF Held, Shifted
  <2>4. Unsigned(a0) = a0 % w
    BY DEF Unsigned
  <2> HIDE DEF m, w
  <2>5. a0 % w = low
    BY <2>1, <2>2, <2>3, DivisionIs
  <2>6. m.hi * w + m.lo = Unsigned(a0) * b
    BY <2>3, <2>4, <2>5
  <2>7. QED
    BY <2>6 DEF Multiplied, m, w
<1>7. CASE ~g[WordBits].more
  BY <1>5, <1>7 DEF Held
<1>8. QED
  BY <1>6, <1>7

\* The bits of a positive word are those of its absolute value.
LEMMA PositiveWord ==
  ASSUME NEW n \in Words
  PROVE  LET positive == IF n < 0 THEN Signed(-n) ELSE n
         IN positive \in Words /\ Unsigned(positive) = Abs(n) /\ Abs(n) \in 0 .. Word \div 2
<1> DEFINE w == Word
           h == w \div 2
<1>1. w \in Nat \ {0} /\ h \in Nat /\ h >= 2 /\ w = 2 * h
  BY Sizes
<1>2. n \in -h .. h - 1
  BY DEF Words
<1>3. \A x \in 0 .. w - 1 : Unsigned(x) = x /\ Unsigned(Signed(x)) = x
  BY UnsignedIs
<1>4. \A x \in Int : Signed(x) \in Words
  BY SignedWord
<1> HIDE DEF h, w
<1>5. n \in Int /\ -n \in Int
  BY <1>1, <1>2
<1>6. CASE n < 0
  <2>1. -n \in 0 .. w - 1 /\ Abs(n) = -n /\ -n \in 0 .. h
    BY <1>1, <1>2, <1>6 DEF Abs
  <2>2. Unsigned(Signed(-n)) = -n
    BY <2>1, <1>3
  <2>3. QED
    BY <2>1, <2>2, <1>4, <1>5, <1>6 DEF h, w
<1>7. CASE ~(n < 0)
  <2>1. n \in 0 .. w - 1 /\ Abs(n) = n /\ n \in 0 .. h
    BY <1>1, <1>2, <1>7 DEF Abs
  <2>2. Unsigned(n) = n
    BY <2>1, <1>3
  <2>3. QED
    BY <2>1, <2>2, <1>7 DEF h, w
<1>8. QED
  BY <1>6, <1>7

\* A double word that is complemented, and read with its sign.
Complemented(h, w, hi, lo) ==
  LET lo1 == (w - lo) % w
      hi1 == ((w - 1 - hi) + (IF lo1 = 0 THEN 1 ELSE 0)) % w
  IN /\ hi < h
     /\ lo1 \in 0 .. w - 1 /\ hi1 \in h .. w - 1
     /\ (hi1 - w) * w + lo1 = -(hi * w + lo)

\* The complement of a double word puts the sign back.
LEMMA SignBack ==
  ASSUME NEW h \in Nat \ {0}, NEW w \in Nat, w = 2 * h,
         NEW hi \in 0 .. w - 1, NEW lo \in 0 .. w - 1,
         hi * w + lo <= h * h, hi * w + lo # 0
  PROVE  Complemented(h, w, hi, lo)
<1> DEFINE lo1 == (w - lo) % w
           high == (w - 1 - hi) + (IF lo1 = 0 THEN 1 ELSE 0)
           hi1 == high % w
<1>1. hi < h
  <2> SUFFICES ASSUME hi >= h
               PROVE  FALSE
    OBVIOUS
  <2>1. hi * w >= h * w
    BY ProductGrows
  <2>2. h * w = 2 * (h * h)
    OBVIOUS
  <2>3. h * h >= 1 * h
    BY ProductGrows, 1 \in Nat
  <2> DEFINE x == hi * w
             y == h * h
  <2>4. x \in Int /\ y \in Int /\ x >= 2 * y /\ y >= h /\ x + lo <= y
    BY <2>1, <2>2, <2>3
  <2> HIDE DEF x, y
  <2>5. QED
    BY <2>4
<1>2. \A r \in 0 .. w - 1 : r % w = r
  <2>1. ASSUME NEW r \in 0 .. w - 1
        PROVE  r % w = r
    <3>1. (w * 0 + r) % w = r
      BY DivisionIs
    <3>2. w * 0 + r = r
      OBVIOUS
    <3>3. QED
      BY <3>1, <3>2
  <2>2. QED
    BY <2>1
<1>3. CASE lo = 0
  <2>1. lo1 = 0
    <3>1. (w * 1 + 0) % w = 0
      BY DivisionIs, 1 \in Int, 0 \in 0 .. w - 1
    <3>2. w * 1 + 0 = w - lo
      BY <1>3
    <3>3. QED
      BY <3>1, <3>2
  <2> HIDE DEF lo1
  <2>2. hi # 0
    BY <1>3
  <2>3. high = w - hi /\ high \in h .. w - 1
    BY <2>1, <2>2, <1>1
  <2> HIDE DEF high
  <2>4. hi1 = w - hi
    BY <2>3, <1>2
  <2>5. hi1 \in h .. w - 1
    BY <2>3, <2>4
  <2> HIDE DEF hi1
  <2>6. hi1 - w = -hi /\ (-hi) * w = -(hi * w)
    BY <2>4
  <2>7. (hi1 - w) * w = -(hi * w)
    BY <2>6
  <2>8. QED
    BY <2>1, <2>5, <2>7, <1>1, <1>3 DEF hi1, high, lo1, Complemented
<1>4. CASE lo # 0
  <2>1. w - lo \in 0 .. w - 1 /\ w - lo # 0
    BY <1>4
  <2>2. lo1 = w - lo
    BY <2>1, <1>2
  <2> HIDE DEF lo1
  <2>3. high = w - 1 - hi /\ high \in h .. w - 1
    BY <2>1, <2>2, <1>1
  <2> HIDE DEF high
  <2>4. hi1 = w - 1 - hi
    BY <2>3, <1>2
  <2>5. hi1 \in h .. w - 1
    BY <2>3, <2>4
  <2> HIDE DEF hi1
  <2>6. hi1 - w = -hi - 1 /\ (-hi - 1) * w = -(hi * w) - w
    BY <2>4
  <2>7. (hi1 - w) * w = -(hi * w) - w
    BY <2>6
  <2>8. hi * w \in Int
    OBVIOUS
  <2>9. -(hi * w) - w + lo1 = -(hi * w + lo)
    BY <2>2, <2>8
  <2>10. (hi1 - w) * w + lo1 = -(hi * w + lo)
    BY <2>7, <2>9
  <2>11. lo1 \in 0 .. w - 1
    BY <2>1, <2>2
  <2>12. QED
    BY <2>5, <2>10, <2>11, <1>1 DEF hi1, high, lo1, Complemented
<1>5. QED
  BY <1>3, <1>4

\* The product of MULT and MULTU is exact: no bit of it is lost.
LEMMA MultExact ==
  ASSUME NEW a \in Words, NEW b \in Words, NEW signedArith \in BOOLEAN
  PROVE  LET m == Mult(a, b, signedArith)
         IN /\ signedArith => m.hi * Word + Unsigned(m.lo) = a * b
            /\ ~signedArith =>
                 Unsigned(m.hi) * Word + Unsigned(m.lo) = Unsigned(a) * Unsigned(b)
<1> DEFINE w == Word
           h == w \div 2
           positive(n) == IF signedArith /\ n < 0 THEN Signed(-n) ELSE n
           negative == signedArith /\ (a < 0) # (b < 0)
           Low(m) == IF negative THEN (w - m.lo) % w ELSE m.lo
           High(m) == IF negative
                      THEN ((w - 1 - m.hi) + (IF Low(m) = 0 THEN 1 ELSE 0)) % w ELSE m.hi
           Out(m) == IF a = 0 \/ b = 0 THEN [hi |-> 0, lo |-> 0]
                     ELSE [hi |-> Signed(High(m)), lo |-> Signed(Low(m))]
<1>1. w \in Nat \ {0} /\ h \in Nat \ {0} /\ h >= 2 /\ w = 2 * h /\ WordBits \in Nat
  BY Sizes
<1>2. a \in Int /\ b \in Int
  BY WordSigned
<1>3. /\ \A n \in Words : positive(n) \in Words
      /\ \A n \in Words : signedArith =>
           Unsigned(positive(n)) = Abs(n) /\ Abs(n) \in 0 .. h
      /\ \A n \in Words : ~signedArith => positive(n) = n
  BY PositiveWord
<1>4. \A n \in Words : Unsigned(n) \in 0 .. w - 1
  BY SignedWord, WordSigned
<1>5. PICK g \in [0 .. WordBits -> MultStates] :
        /\ g[0] = [a |-> positive(a), bLo |-> Unsigned(positive(b)), bHi |-> 0,
                   lo |-> 0, hi |-> 0, more |-> TRUE]
        /\ \A k \in 1 .. WordBits :
             g[k] = IF g[k - 1].more THEN MultTurn(g[k - 1]) ELSE g[k - 1]
        /\ Mult(a, b, signedArith) = Out(g[WordBits])
  BY MultRuns
<1> DEFINE a0 == positive(a)
           b0 == Unsigned(positive(b))
           m == g[WordBits]
<1>6. a0 \in Words /\ b0 \in 0 .. Word - 1
  BY <1>3, <1>4
<1>7. m.hi * w + m.lo = Unsigned(a0) * b0
  <2>1. g[0] = [a |-> a0, bLo |-> b0, bHi |-> 0, lo |-> 0, hi |-> 0, more |-> TRUE]
    BY <1>5
  <2> HIDE DEF a0, b0
  <2>2. Multiplied(a0, b0, g[WordBits])
    BY <1>5, <1>6, <2>1, LoopExact
  <2>3. QED
    BY <2>2 DEF Multiplied
<1>8. m.hi \in 0 .. w - 1 /\ m.lo \in 0 .. w - 1 /\ m.hi \in Int /\ m.lo \in Int
  <2>1. m \in MultStates
    BY <1>1, <1>5
  <2>2. m.hi \in 0 .. w - 1 /\ m.lo \in 0 .. w - 1
    BY <2>1 DEF MultStates
  <2> HIDE DEF m, w
  <2>3. QED
    BY <2>2, <1>1
<1>9. Mult(a, b, signedArith) = Out(m)
  BY <1>5
<1>10. \A x \in 0 .. w - 1 : /\ Unsigned(x) = x /\ Unsigned(Signed(x)) = x
                             /\ (x < h => Signed(x) = x) /\ (x >= h => Signed(x) = x - w)
  BY UnsignedIs
<1> DEFINE both == Mult(a, b, signedArith)
<1>11. CASE a = 0 \/ b = 0
  <2>1. both.hi = 0 /\ both.lo = 0
    BY <1>9, <1>11
  <2>2. Unsigned(0) = 0
    BY <1>1, <1>10
  <2>3. a * b = 0 /\ Unsigned(a) * Unsigned(b) = 0
    <3>1. Unsigned(a) \in Int /\ Unsigned(b) \in Int
      BY <1>1, <1>4
    <3>2. Unsigned(a) = 0 \/ Unsigned(b) = 0
      BY <2>2, <1>11
    <3>3. \A x, y \in Int : x = 0 \/ y = 0 => x * y = 0
      OBVIOUS
    <3>4. QED
      BY <3>1, <3>2, <3>3, <1>2, <1>11
  <2>4. 0 * w + 0 = 0
    BY <1>1
  <2> HIDE DEF both, w
  <2>5. QED
    BY <2>1, <2>2, <2>3, <2>4 DEF both, w
<1>12. CASE ~(a = 0 \/ b = 0) /\ ~signedArith
  <2>1. both.hi = Signed(m.hi) /\ both.lo = Signed(m.lo)
    BY <1>9, <1>12
  <2>2. Unsigned(both.hi) = m.hi /\ Unsigned(both.lo) = m.lo
    BY <2>1, <1>8, <1>10
  <2>3. a0 = a /\ b0 = Unsigned(b)
    BY <1>3, <1>12
  <2> HIDE DEF both, m, a0, b0, w
  <2>4. Unsigned(both.hi) * w + Unsigned(both.lo) = Unsigned(a) * Unsigned(b)
    BY <2>2, <2>3, <1>7
  <2>5. QED
    BY <2>4, <1>12 DEF both, w
<1>13. CASE ~(a = 0 \/ b = 0) /\ signedArith
  <2> DEFINE x == Abs(a)
             y == Abs(b)
  <2>1. Unsigned(a0) = x /\ b0 = y /\ x \in 0 .. h /\ y \in 0 .. h
    BY <1>3, <1>13
  <2>2. /\ x # 0 /\ y # 0
        /\ a = (IF a < 0 THEN -x ELSE x) /\ b = (IF b < 0 THEN -y ELSE y)
    BY <1>2, <1>13 DEF Abs
  <2>3. m.hi * w + m.lo = x * y
    BY <2>1, <1>7
  <2> HIDE DEF x, y, m, a0, b0, w, h
  <2>4. x \in Nat /\ y \in Nat /\ h >= x /\ h >= y
    BY <2>1, <1>1
  <2>5. x * y <= h * h /\ x * y # 0 /\ x * y \in Int
    <3>1. h * y >= x * y
      BY <2>4, <1>1, ProductGrows
    <3>2. h * h >= y * h
      BY <2>4, <1>1, ProductGrows
    <3>3. y * h = h * y /\ h * y \in Int /\ x * y \in Int /\ h * h \in Int
      BY <2>4, <1>1
    <3>4. x * y >= 1 * y
      BY <2>2, <2>4, ProductGrows, 1 \in Nat
    <3>5. QED
      BY <3>1, <3>2, <3>3, <3>4, <2>2, <2>4
  <2>6. LET lo1 == (w - m.lo) % w
            hi1 == ((w - 1 - m.hi) + (IF lo1 = 0 THEN 1 ELSE 0)) % w
        IN /\ m.hi < h
           /\ lo1 \in 0 .. w - 1 /\ hi1 \in h .. w - 1
           /\ (hi1 - w) * w + lo1 = -(m.hi * w + m.lo)
    <3>1. m.hi * w + m.lo <= h * h /\ m.hi * w + m.lo # 0
      BY <2>3, <2>5
    <3>2. w \in Nat /\ h \in Nat \ {0} /\ w = 2 * h /\ m.hi \in 0 .. w - 1 /\ m.lo \in 0 .. w - 1
      BY <1>1, <1>8
    <3>3. m.hi \in 0 .. w - 1 /\ m.lo \in 0 .. w - 1
      BY <1>8
    <3>4. Complemented(h, w, m.hi, m.lo)
      BY <3>1, <3>2, <3>3, SignBack
    <3>5. QED
      BY <3>4 DEF Complemented
  <2>7. CASE negative
    <3> DEFINE lo1 == (w - m.lo) % w
               hi1 == ((w - 1 - m.hi) + (IF lo1 = 0 THEN 1 ELSE 0)) % w
    <3>1. both.hi = Signed(hi1) /\ both.lo = Signed(lo1)
      BY <1>9, <1>13, <2>7
    <3>2. lo1 \in 0 .. w - 1 /\ hi1 \in h .. w - 1 /\ (hi1 - w) * w + lo1 = -(x * y)
      BY <2>3, <2>6
    <3> HIDE DEF lo1, hi1
    <3>3. hi1 \in 0 .. w - 1 /\ hi1 >= h
      BY <3>2, <1>1
    <3>4. both.hi = hi1 - w /\ Unsigned(both.lo) = lo1
      BY <3>1, <3>2, <3>3, <1>10
    <3>5. a * b = -(x * y)
      <4>1. (a < 0) # (b < 0)
        BY <2>7
      <4>2. \A p, q \in Int : (-p) * q = -(p * q) /\ p * (-q) = -(p * q)
        OBVIOUS
      <4>3. CASE a < 0
        <5>1. a = -x /\ b = y
          BY <4>1, <4>3, <2>2
        <5>2. QED
          BY <5>1, <4>2, <2>4
      <4>4. CASE ~(a < 0)
        <5>1. a = x /\ b = -y
          BY <4>1, <4>4, <2>2
        <5>2. QED
          BY <5>1, <4>2, <2>4
      <4>5. QED
        BY <4>3, <4>4
    <3> HIDE DEF both
    <3>6. both.hi * w + Unsigned(both.lo) = a * b
      BY <3>2, <3>4, <3>5
    <3>7. QED
      BY <3>6, <1>13 DEF both, w
  <2>8. CASE ~negative
    <3>1. both.hi = Signed(m.hi) /\ both.lo = Signed(m.lo)
      BY <1>9, <1>13, <2>8
    <3>2. both.hi = m.hi /\ Unsigned(both.lo) = m.lo
      BY <3>1, <2>6, <1>8, <1>10
    <3>3. a * b = x * y
      <4>1. (a < 0) = (b < 0)
        BY <2>8, <1>13
      <4>2. \A p, q \in Int : (-p) * (-q) = p * q
        OBVIOUS
      <4>3. CASE a < 0
        <5>1. a = -x /\ b = -y
          BY <4>1, <4>3, <2>2
        <5>2. QED
          BY <5>1, <4>2, <2>4
      <4>4. CASE ~(a < 0)
        BY <4>1, <4>4, <2>2
      <4>5. QED
        BY <4>3, <4>4
    <3> HIDE DEF both
    <3>4. both.hi * w + Unsigned(both.lo) = a * b
      BY <2>3, <3>2, <3>3
    <3>5. QED
      BY <3>4, <1>13 DEF both, w
  <2>9. QED
    BY <2>7, <2>8
<1>14. QED
  BY <1>11, <1>12, <1>13

-------------------------------------------------------------------------------
(* Quotient and remainder are exact.                                       *)

\* What \div and % give for naturals.
LEMMA NaturalQuotient ==
  ASSUME NEW x \in Nat, NEW y \in Nat \ {0}
  PROVE  \E p \in Nat, r \in 0 .. y - 1 :
           x \div y = p /\ x = y * p + r /\ p <= x /\ (p = x /\ x # 0 => y = 1)
<1>1. PICK p \in Int, r \in 0 .. y - 1 : p = x \div y /\ x = y * p + r
  BY Division
<1>2. y * p \in Int
  OBVIOUS
<1>3. p \in Nat
  <2> SUFFICES ASSUME p <= -1
               PROVE  FALSE
    BY <1>1
  <2>1. (-p) * y >= 1 * y
    BY ProductGrows, 1 \in Nat
  <2>2. (-p) * y = -(y * p)
    OBVIOUS
  <2>3. QED
    BY <1>1, <1>2, <2>1, <2>2
<1>4. y * p >= 1 * p
  BY <1>3, ProductGrows, 1 \in Nat
<1>5. y >= 2 => y * p >= 2 * p
  BY <1>3, ProductGrows, 2 \in Nat
<1>6. p <= x
  BY <1>1, <1>2, <1>3, <1>4
<1>7. ASSUME p = x, x # 0, y # 1
      PROVE  FALSE
  <2>1. y * p >= 2 * p
    BY <1>5, <1>7
  <2>2. QED
    BY <1>1, <1>2, <1>7, <2>1
<1>8. QED
  BY <1>1, <1>3, <1>6, <1>7

\* What Quotient promises of two ints.
Truncates(a, b, q, r) ==
  /\ q \in Int /\ r \in Int /\ a = q * b + r /\ Abs(r) < Abs(b)
  /\ r = 0 \/ (r < 0) = (a < 0)
  /\ Abs(q) <= Abs(a)
  /\ Abs(q) = Abs(a) /\ a # 0 => Abs(b) = 1
  /\ q > 0 => (a < 0) = (b < 0)
  /\ a >= 0 /\ b >= 0 => q >= 0

\* Division truncates for any signs.
LEMMA QuotientTruncates ==
  ASSUME NEW a \in Int, NEW b \in Int, b # 0
  PROVE  Truncates(a, b, Quotient(a, b), a - Quotient(a, b) * b)
<1> DEFINE x == Abs(a)
           y == Abs(b)
<1>1. /\ x \in Nat /\ y \in Nat \ {0}
      /\ a < 0 => a = -x /\ x > 0
      /\ ~(a < 0) => a = x
      /\ b < 0 => b = -y
      /\ ~(b < 0) => b = y
  BY DEF Abs
<1>2. Quotient(a, b) = IF (a < 0) = (b < 0) THEN x \div y ELSE -(x \div y)
  BY DEF Quotient
<1>3. /\ Truncates(a, b, Quotient(a, b), a - Quotient(a, b) * b)
           <=> LET q == Quotient(a, b)
                   r == a - q * b
               IN /\ q \in Int /\ r \in Int /\ a = q * b + r /\ Abs(r) < y
                  /\ r = 0 \/ (r < 0) = (a < 0)
                  /\ Abs(q) <= x
                  /\ Abs(q) = x /\ a # 0 => y = 1
                  /\ q > 0 => (a < 0) = (b < 0)
                  /\ a >= 0 /\ b >= 0 => q >= 0
  BY DEF Truncates
<1> DEFINE q == Quotient(a, b)
           r == a - q * b
<1> HIDE DEF x, y, q
<1>4. PICK p \in Nat, z \in 0 .. y - 1 :
        x \div y = p /\ x = y * p + z /\ p <= x /\ (p = x /\ x # 0 => y = 1)
  BY <1>1, NaturalQuotient
<1>5. q = IF (a < 0) = (b < 0) THEN p ELSE -p
  BY <1>2, <1>4 DEF q
<1>6. /\ p * y = y * p /\ y * p \in Int
      /\ p * (-y) = -(y * p) /\ (-p) * y = -(y * p) /\ (-p) * (-y) = y * p
  BY <1>1
<1> HIDE DEF r
<1>7. r = a - q * b
  BY DEF r
<1>8. /\ q \in Int /\ a = q * b + r
      /\ r = IF a < 0 THEN -z ELSE z
      /\ q \in {p, -p} /\ (q > 0 => (a < 0) = (b < 0)) /\ (a >= 0 /\ b >= 0 => q >= 0)
  <2>1. CASE a < 0 /\ b < 0
    <3>1. q = p /\ q * b = -(y * p) /\ a = -(y * p) - z
      BY <2>1, <1>1, <1>4, <1>5, <1>6
    <3>2. r = -z
      BY <3>1, <1>6, <1>7
    <3>3. QED
      BY <3>1, <3>2, <2>1, <1>6
  <2>2. CASE a < 0 /\ ~(b < 0)
    <3>1. q = -p /\ q * b = -(y * p) /\ a = -(y * p) - z
      BY <2>2, <1>1, <1>4, <1>5, <1>6
    <3>2. r = -z
      BY <3>1, <1>6, <1>7
    <3>3. QED
      BY <3>1, <3>2, <2>2, <1>6
  <2>3. CASE ~(a < 0) /\ b < 0
    <3>1. q = -p /\ q * b = y * p /\ a = y * p + z
      BY <2>3, <1>1, <1>4, <1>5, <1>6
    <3>2. r = z
      BY <3>1, <1>6, <1>7
    <3>3. QED
      BY <3>1, <3>2, <2>3, <1>6
  <2>4. CASE ~(a < 0) /\ ~(b < 0)
    <3>1. q = p /\ q * b = y * p /\ a = y * p + z
      BY <2>4, <1>1, <1>4, <1>5, <1>6
    <3>2. r = z
      BY <3>1, <1>6, <1>7
    <3>3. QED
      BY <3>1, <3>2, <2>4, <1>6
  <2>5. QED
    BY <2>1, <2>2, <2>3, <2>4
<1>9. Abs(r) = z /\ Abs(q) = p /\ r \in Int
  BY <1>4, <1>8 DEF Abs
<1>10. r = 0 \/ (r < 0) = (a < 0)
  BY <1>4, <1>8
<1>11. Abs(r) < y /\ Abs(q) <= x
  BY <1>1, <1>4, <1>9
<1>12. Abs(q) = x /\ a # 0 => y = 1
  BY <1>1, <1>4, <1>9
<1>13. QED
  BY <1>3, <1>8, <1>9, <1>10, <1>11, <1>12 DEF q, r

\* The registers of DIV and DIVU hold the quotient and the remainder.
LEMMA QuotientFits ==
  ASSUME NEW a, NEW b, NEW q, NEW r, Truncates(a, b, q, r), b # 0
  PROVE  /\ a \in Words /\ b \in Words /\ ~(a = -(Word \div 2) /\ b = -1) =>
              Signed(q) = q /\ Signed(r) = r
         /\ a \in 0 .. Word - 1 /\ b \in 0 .. Word - 1 =>
              Unsigned(Signed(q)) = q /\ Unsigned(Signed(r)) = r
<1> DEFINE w == Word
           h == w \div 2
<1>1. w \in Nat \ {0} /\ h \in Nat \ {0} /\ h >= 2 /\ w = 2 * h
  BY Sizes
<1>2. Words = -h .. h - 1
  BY DEF Words
<1>3. \A x \in Words : Signed(x) = x
  BY WordSigned
<1>4. \A x \in 0 .. w - 1 : Unsigned(Signed(x)) = x
  BY UnsignedIs
<1>5. /\ q \in Int /\ r \in Int /\ Abs(r) < Abs(b)
      /\ r = 0 \/ (r < 0) = (a < 0)
      /\ Abs(q) <= Abs(a)
      /\ Abs(q) = Abs(a) /\ a # 0 => Abs(b) = 1
      /\ q > 0 => (a < 0) = (b < 0)
      /\ a >= 0 /\ b >= 0 => q >= 0
  BY DEF Truncates
<1>6. ASSUME a \in Words, b \in Words, ~(a = -h /\ b = -1)
      PROVE  q \in Words /\ r \in Words
  <2> HIDE DEF w, h
  <2>1. a \in -h .. h - 1 /\ b \in -h .. h - 1
    BY <1>2, <1>6
  <2>2. r \in -h .. h - 1
    BY <2>1, <1>1, <1>5 DEF Abs
  <2>3. q \in -h .. h
    BY <2>1, <1>1, <1>5 DEF Abs
  <2>4. q # h
    <3> SUFFICES ASSUME q = h
                 PROVE  FALSE
      OBVIOUS
    <3>1. a = -h
      BY <2>1, <1>1, <1>5 DEF Abs
    <3>2. b = -1
      BY <3>1, <2>1, <1>1, <1>5 DEF Abs
    <3>3. QED
      BY <3>1, <3>2, <1>6
  <2>5. q \in -h .. h - 1
    BY <2>3, <2>4, <1>1
  <2>6. QED
    BY <2>2, <2>5, <1>2
<1>7. ASSUME a \in 0 .. w - 1, b \in 0 .. w - 1
      PROVE  q \in 0 .. w - 1 /\ r \in 0 .. w - 1
  <2> HIDE DEF w, h
  <2>1. q \in 0 .. w - 1
    BY <1>1, <1>5, <1>7 DEF Abs
  <2>2. r \in 0 .. w - 1
    BY <1>1, <1>5, <1>7 DEF Abs
  <2>3. QED
    BY <2>1, <2>2
<1>8. QED
  BY <1>3, <1>4, <1>6, <1>7

-------------------------------------------------------------------------------
(* Sums and differences trap exactly when they have no word.               *)

\* What Signed makes of the sum or the difference of two words.
LEMMA SignedNear ==
  ASSUME NEW x \in -Word .. Word - 1
  PROVE  /\ x \in Words => Signed(x) = x
         /\ x >= Word \div 2 => Signed(x) = x - Word
         /\ x < -(Word \div 2) => Signed(x) = x + Word
<1> DEFINE w == Word
           h == w \div 2
<1>1. w \in Nat \ {0} /\ h \in Nat \ {0} /\ w = 2 * h /\ x \in -w .. w - 1
  BY Sizes
<1>2. \A y \in 0 .. w - 1 : y >= h => Signed(y) = y - w
  BY UnsignedIs
<1>3. Unsigned(x) = x % w /\ Signed(x) = IF Unsigned(x) >= h THEN Unsigned(x) - w ELSE Unsigned(x)
  BY DEF Unsigned, Signed, SignExtend
<1>4. x \in Words => Signed(x) = x
  BY WordSigned
<1> HIDE DEF w, h
<1>5. x >= h => Signed(x) = x - w
  BY <1>1, <1>2
<1>6. ASSUME x < -h
      PROVE  Signed(x) = x + w
  <2>1. x + w \in 0 .. w - 1 /\ x + w < h /\ w * (-1) + (x + w) = x
    BY <1>1, <1>6
  <2>2. (w * (-1) + (x + w)) % w = x + w
    BY <2>1, <1>1, DivisionIs
  <2>3. Unsigned(x) = x + w
    BY <2>1, <2>2, <1>3
  <2>4. QED
    BY <2>1, <2>3, <1>1, <1>3
<1>7. QED
  BY <1>4, <1>5, <1>6 DEF h, w

\* The signs AddTrapping and SubTrapping compare tell whether the result fits.
LEMMA TrapsExact ==
  ASSUME NEW a \in Words, NEW b \in Words
  PROVE  /\ (a < 0) = (b < 0) /\ (a < 0) # (Signed(a + b) < 0) <=> a + b # Signed(a + b)
         /\ (a < 0) # (b < 0) /\ (a < 0) # (Signed(a - b) < 0) <=> a - b # Signed(a - b)
<1> DEFINE w == Word
           h == w \div 2
<1>1. w \in Nat \ {0} /\ h \in Nat \ {0} /\ w = 2 * h
  BY Sizes
<1>2. Words = -h .. h - 1 /\ a \in -h .. h - 1 /\ b \in -h .. h - 1
  BY DEF Words
<1>3. \A x \in -w .. w - 1 : /\ x \in -h .. h - 1 => Signed(x) = x
                             /\ x >= h => Signed(x) = x - w
                             /\ x < -h => Signed(x) = x + w
  BY <1>2, SignedNear
<1> HIDE DEF w, h
<1> DEFINE s == a + b
           d == a - b
<1>4. s \in -w .. w - 1 /\ d \in -w .. w - 1
  BY <1>1, <1>2
<1>5. /\ s \in -h .. h - 1 => Signed(s) = s
      /\ s >= h => Signed(s) = s - w
      /\ s < -h => Signed(s) = s + w
      /\ d \in -h .. h - 1 => Signed(d) = d
      /\ d >= h => Signed(d) = d - w
      /\ d < -h => Signed(d) = d + w
  BY <1>3, <1>4
<1> DEFINE S == Signed(s)
           D == Signed(d)
<1>6. /\ s \in -h .. h - 1 => S = s
      /\ s >= h => S = s - w
      /\ s < -h => S = s + w
      /\ d \in -h .. h - 1 => D = d
      /\ d >= h => D = d - w
      /\ d < -h => D = d + w
  BY <1>5
<1> HIDE DEF S, D
<1>7. (a < 0) = (b < 0) /\ (a < 0) # (S < 0) <=> s # S
  BY <1>1, <1>2, <1>6
<1>8. (a < 0) # (b < 0) /\ (a < 0) # (D < 0) <=> d # D
  BY <1>1, <1>2, <1>6
<1>9. QED
  BY <1>7, <1>8 DEF S, D

\* The immediate of ADDI is a word.
LEMMA ImmediateIsWord ==
  ASSUME NEW w \in Instructions, Decode(w).opCode = "ADDI"
  PROVE  Decode(w).extra \in Words
<1> DEFINE op == opTable[w.op + 1]
<1>1. w.op \in 0 .. 63 /\ w.funct \in 0 .. 63 /\ w.rt \in 0 .. 31 /\ w.imm \in 0 .. Half - 1
  BY DEF Instructions
<1>2. /\ Decode(w).opCode = CASE op = "SPECIAL" -> specialTable[w.funct + 1]
                              [] op = "BCOND" -> branchTable[w.rt]
                              [] OTHER -> op
      /\ Decode(w).extra = CASE op = "SPECIAL" -> w.shamt
                             [] op \in {"J", "JAL"} -> w.target
                             [] OTHER -> SignExtend(w.imm, Half)
  BY DEF Decode
<1>3. specialTable[w.funct + 1] # "ADDI" /\ branchTable[w.rt] # "ADDI"
  <2>1. specialTable[w.funct + 1] \in SpecialNames /\ branchTable[w.rt] \in BranchNames
    BY <1>1, Tables
  <2>2. "ADDI" \notin SpecialNames /\ "ADDI" \notin BranchNames
    BY DEF SpecialNames, BranchNames
  <2>3. QED
    BY <2>1, <2>2
<1> HIDE DEF op
<1>4. op = "ADDI"
  BY <1>2, <1>3
<1>5. Decode(w).extra = SignExtend(w.imm, Half)
  BY <1>2, <1>4
<1>6. QED
  BY <1>1, <1>5, SmallWords

\* Only ADD, ADDI and SUB trap.
Goes(r) == DOMAIN r = {"outcome", "addr", "cpu", "bytes", "pcAfter", "load", "loadValue"}
           /\ r.outcome = "done"

\* An instruction that does not stop is done.
LEMMA GoesOn ==
  ASSUME NEW s, Goes(s)
  PROVE  /\ \A reg, v : Goes(Sets(s, reg, v))
         /\ \A v : Goes([s EXCEPT !.pcAfter = v]) /\ Goes([s EXCEPT !.bytes = v])
         /\ \A reg, v : Goes([s EXCEPT !.load = reg, !.loadValue = v])
         /\ \A v : Goes([s EXCEPT !.cpu.hi = v]) /\ Goes([s EXCEPT !.cpu.lo = v])
         /\ \A u, v : Goes([s EXCEPT !.cpu.hi = u, !.cpu.lo = v])
         /\ \A u, v : Goes([s EXCEPT !.cpu.lo = u, !.cpu.hi = v])
         /\ \A outcome, addr : Stops(s, outcome, addr).outcome = outcome
  BY DEF Goes, Sets, Stops

\* Only ADD, ADDI and SUB trap.
LEMMA OnlySumsTrap ==
  ASSUME NEW s, Goes(s), NEW i, NEW space,
         i.opCode \in DirectNames \cup SpecialNames \cup BranchNames,
         i.opCode \notin {"ADD", "ADDI", "SUB"}
  PROVE  Execute(i, s, space).outcome # "Overflow"
<1> DEFINE Well(r) == r.outcome # "Overflow"
<1>1. \A r : Goes(r) => Well(r)
  BY DEF Goes
<1>2. /\ \A reg, v : Goes(Sets(s, reg, v))
      /\ \A v : Goes([s EXCEPT !.pcAfter = v]) /\ Goes([s EXCEPT !.bytes = v])
      /\ \A reg, v : Goes([s EXCEPT !.load = reg, !.loadValue = v])
      /\ \A v : Goes([s EXCEPT !.cpu.hi = v]) /\ Goes([s EXCEPT !.cpu.lo = v])
      /\ \A u, v : Goes([s EXCEPT !.cpu.hi = u, !.cpu.lo = v])
      /\ \A u, v : Goes([s EXCEPT !.cpu.lo = u, !.cpu.hi = v])
  BY GoesOn
<1>3. \A outcome, addr : Stops(s, outcome, addr).outcome = outcome
  BY GoesOn
<1>4. \A r, v : Goes(r) => Goes([r EXCEPT !.pcAfter = v])
  BY GoesOn
<1>5. \A addr, size : Translate(space, addr, size) # "Overflow"
  BY DEF Translate
<1>6. /\ \A addr, size : Well(Stops(s, Translate(space, addr, size), addr))
      /\ Well(Stops(s, "abort", 0)) /\ Well(Stops(s, "Syscall", 0))
      /\ Well(Stops(s, "IllegalInstr", 0))
  BY <1>3, <1>5
<1> HIDE DEF Well
<1>7. ASSUME i.opCode \in {"ADDIU", "ADDU", "AND", "ANDI"}
      PROVE  Well(AddAnd(i, s))
  BY <1>1, <1>2, <1>7 DEF AddAnd
<1>8. Well(Branch(i, s))
  <2> DEFINE linked == IF i.opCode \in {"BGEZAL", "BLTZAL"} THEN Sets(s, 31, s.cpu.nextPC + 4)
                       ELSE s
  <2>1. Goes(linked)
    BY <1>2
  <2>2. \E v : Branch(i, s) \in {linked, [linked EXCEPT !.pcAfter = v]}
    BY DEF Branch
  <2> HIDE DEF linked
  <2>3. QED
    BY <2>1, <2>2, <1>1, <1>4
<1>9. Well(Divide(i, s))
  BY <1>1, <1>2, <1>6 DEF Divide
<1>10. Well(Jump(i, s))
  <2> DEFINE linked == CASE i.opCode = "JAL" -> Sets(s, 31, s.cpu.nextPC + 4)
                         [] i.opCode = "JALR" -> Sets(s, i.rd, s.cpu.nextPC + 4)
                         [] OTHER -> s
  <2>1. Goes(linked)
    BY <1>2
  <2>2. \E v : Jump(i, s) = [linked EXCEPT !.pcAfter = v]
    BY DEF Jump
  <2> HIDE DEF linked
  <2>3. QED
    BY <2>1, <2>2, <1>1, <1>4
<1>11. Well(Load(i, s, space))
  BY <1>1, <1>2, <1>6 DEF Load
<1>12. Well(Lui(i, s))
  BY <1>1, <1>2 DEF Lui
<1>13. Well(LoadUnaligned(i, s, space))
  <2> DEFINE addr == Signed(s.cpu.r[i.rs] + i.extra)
  <2>1. \/ LoadUnaligned(i, s, space) = Stops(s, "abort", 0)
        \/ LoadUnaligned(i, s, space) = Stops(s, Translate(space, addr, 4), addr)
        \/ \E v : LoadUnaligned(i, s, space) = [s EXCEPT !.load = i.rt, !.loadValue = v]
    BY DEF LoadUnaligned
  <2>2. QED
    BY <2>1, <1>1, <1>2, <1>6
<1>14. ASSUME i.opCode \in {"MFHI", "MFLO", "MTHI", "MTLO"}
       PROVE  Well(MoveHiLo(i, s))
  BY <1>1, <1>2, <1>14 DEF MoveHiLo
<1>15. Well(Multiply(i, s))
  BY <1>1, <1>2 DEF Multiply
<1>16. ASSUME i.opCode \in {"NOR", "OR", "ORI"}
       PROVE  Well(OrNor(i, s))
  BY <1>1, <1>2, <1>16 DEF OrNor
<1>17. Well(Store(i, s, space))
  BY <1>1, <1>2, <1>6 DEF Store
<1>18. Well(Shift(i, s))
  BY <1>1, <1>2 DEF Shift
<1>19. Well(SetLess(i, s))
  BY <1>1, <1>2 DEF SetLess
<1>20. Well(Subu(i, s))
  BY <1>1, <1>2 DEF Subu
<1>21. Well(StoreUnaligned(i, s, space))
  <2> DEFINE addr == Signed(s.cpu.r[i.rs] + i.extra)
  <2>1. \/ StoreUnaligned(i, s, space) = Stops(s, "abort", 0)
        \/ StoreUnaligned(i, s, space) = Stops(s, Translate(space, addr, 4), addr)
        \/ \E v : StoreUnaligned(i, s, space) = [s EXCEPT !.bytes = v]
    BY DEF StoreUnaligned
  <2>2. QED
    BY <2>1, <1>1, <1>2, <1>6
<1>22. Well(XorXori(i, s))
  BY <1>1, <1>2 DEF XorXori
<1>23. Well(Execute(i, s, space))
  BY <1>6, <1>7, <1>8, <1>9, <1>10, <1>11, <1>12, <1>13, <1>14, <1>15, <1>16, <1>17, <1>18,
     <1>19, <1>20, <1>21, <1>22 DEF Execute, DirectNames, SpecialNames, BranchNames
<1>24. QED
  BY <1>23 DEF Well

-------------------------------------------------------------------------------
(* What an instruction makes of the registers c it finds: r is the result. *)

Sum(i, c) == CASE i.opCode = "ADD" -> c.r[i.rs] + c.r[i.rt]
               [] i.opCode = "ADDI" -> c.r[i.rs] + i.extra
               [] i.opCode = "SUB" -> c.r[i.rs] - c.r[i.rt]
               [] OTHER -> 0

SumExact(i, c, r) ==
  r.outcome \in {"done", "Overflow"} => (r.outcome = "Overflow") = (Sum(i, c) # Signed(Sum(i, c)))

ProductExact(i, c, r) ==
  r.outcome = "done" =>
    /\ i.opCode = "MULT" => r.cpu.hi * Word + Unsigned(r.cpu.lo) = c.r[i.rs] * c.r[i.rt]
    /\ i.opCode = "MULTU" =>
         Unsigned(r.cpu.hi) * Word + Unsigned(r.cpu.lo) = Unsigned(c.r[i.rs]) * Unsigned(c.r[i.rt])

DivisionExact(i, c, r) ==
  r.outcome = "done" =>
    /\ i.opCode = "DIV" /\ c.r[i.rt] # 0 => Truncates(c.r[i.rs], c.r[i.rt], r.cpu.lo, r.cpu.hi)
    /\ i.opCode = "DIVU" /\ Unsigned(c.r[i.rt]) # 0 =>
         Truncates(Unsigned(c.r[i.rs]), Unsigned(c.r[i.rt]), Unsigned(r.cpu.lo), Unsigned(r.cpu.hi))

\* Sums and differences.
LEMMA ExecuteSums ==
  ASSUME NEW n, NEW c \in Cpus, NEW s \in Results(n), s.cpu = c, Goes(s), NEW i, FieldsFit(i),
         i.opCode \in DirectNames \cup SpecialNames \cup BranchNames,
         i.opCode = "ADDI" => i.extra \in Words, NEW space
  PROVE  SumExact(i, c, Execute(i, s, space))
<1>1. CASE i.opCode \in {"ADD", "ADDI"}
  <2> DEFINE a == c.r[i.rs]
             b == IF i.opCode = "ADD" THEN c.r[i.rt] ELSE i.extra
             reg == IF i.opCode = "ADD" THEN i.rd ELSE i.rt
  <2>1. a \in Words /\ b \in Words
    <3>1. i.rs \in Registers /\ i.rt \in Registers
      BY <1>1 DEF FieldsFit
    <3>2. QED
      BY <3>1, <1>1 DEF Cpus
  <2>2. Execute(i, s, space) = AddTrapping(i, s)
    BY <1>1 DEF Execute
  <2>3. AddTrapping(i, s) = IF (a < 0) = (b < 0) /\ (a < 0) # (Signed(a + b) < 0)
                            THEN Stops(s, "Overflow", 0) ELSE Sets(s, reg, a + b)
    BY DEF AddTrapping
  <2>4. (a < 0) = (b < 0) /\ (a < 0) # (Signed(a + b) < 0) <=> a + b # Signed(a + b)
    BY <2>1, TrapsExact
  <2>5. Stops(s, "Overflow", 0).outcome = "Overflow" /\ Sets(s, reg, a + b).outcome = "done"
    BY GoesOn DEF Goes
  <2>6. Sum(i, c) = a + b
    BY <1>1 DEF Sum
  <2> HIDE DEF a, b, reg
  <2>7. (Execute(i, s, space).outcome = "Overflow") = (a + b # Signed(a + b))
    BY <2>2, <2>3, <2>4, <2>5
  <2>8. QED
    BY <2>6, <2>7 DEF SumExact
<1>2. CASE i.opCode = "SUB"
  <2> DEFINE a == c.r[i.rs]
             b == c.r[i.rt]
  <2>1. a \in Words /\ b \in Words
    <3>1. i.rs \in Registers /\ i.rt \in Registers
      BY <1>2 DEF FieldsFit
    <3>2. QED
      BY <3>1 DEF Cpus
  <2>2. Execute(i, s, space) = SubTrapping(i, s)
    BY <1>2 DEF Execute
  <2>3. SubTrapping(i, s) = IF (a < 0) # (b < 0) /\ (a < 0) # (Signed(a - b) < 0)
                            THEN Stops(s, "Overflow", 0) ELSE Sets(s, i.rd, a - b)
    BY DEF SubTrapping
  <2>4. (a < 0) # (b < 0) /\ (a < 0) # (Signed(a - b) < 0) <=> a - b # Signed(a - b)
    BY <2>1, TrapsExact
  <2>5. Stops(s, "Overflow", 0).outcome = "Overflow" /\ Sets(s, i.rd, a - b).outcome = "done"
    BY GoesOn DEF Goes
  <2>6. Sum(i, c) = a - b
    BY <1>2 DEF Sum
  <2> HIDE DEF a, b
  <2>7. (Execute(i, s, space).outcome = "Overflow") = (a - b # Signed(a - b))
    BY <2>2, <2>3, <2>4, <2>5
  <2>8. QED
    BY <2>6, <2>7 DEF SumExact
<1>3. CASE i.opCode \notin {"ADD", "ADDI", "SUB"}
  <2>1. Execute(i, s, space).outcome # "Overflow"
    BY <1>3, OnlySumsTrap
  <2>2. Sum(i, c) = 0
    BY <1>3 DEF Sum
  <2>3. Signed(0) = 0
    BY SmallWords, WordSigned
  <2>4. QED
    BY <2>1, <2>2, <2>3 DEF SumExact
<1>4. QED
  BY <1>1, <1>2, <1>3

\* Products.
LEMMA ExecuteProducts ==
  ASSUME NEW n, NEW c \in Cpus, NEW s \in Results(n), s.cpu = c, NEW i, FieldsFit(i), NEW space
  PROVE  ProductExact(i, c, Execute(i, s, space))
<1> SUFFICES ASSUME i.opCode \in {"MULT", "MULTU"}
             PROVE  ProductExact(i, c, Execute(i, s, space))
  BY DEF ProductExact
<1> DEFINE a == c.r[i.rs]
           b == c.r[i.rt]
           signedArith == i.opCode = "MULT"
           m == Mult(a, b, signedArith)
           r == Execute(i, s, space)
<1>1. a \in Words /\ b \in Words
  <2>1. i.rs \in Registers /\ i.rt \in Registers
    BY DEF FieldsFit
  <2>2. QED
    BY <2>1 DEF Cpus
<1>2. signedArith \in BOOLEAN
  OBVIOUS
<1>3. /\ signedArith => m.hi * Word + Unsigned(m.lo) = a * b
      /\ ~signedArith => Unsigned(m.hi) * Word + Unsigned(m.lo) = Unsigned(a) * Unsigned(b)
  <2> HIDE DEF a, b, signedArith
  <2>1. QED
    BY <1>1, <1>2, MultExact
<1>4. r = [s EXCEPT !.cpu.hi = m.hi, !.cpu.lo = m.lo]
  BY DEF Execute, Multiply
<1> HIDE DEF m, r
<1>5. r.cpu.hi = m.hi /\ r.cpu.lo = m.lo
  BY <1>4 DEF Results, Cpus
<1>6. i.opCode = "MULT" <=> signedArith
  OBVIOUS
<1>7. i.opCode = "MULTU" <=> ~signedArith
  OBVIOUS
<1> HIDE DEF signedArith
<1>8. QED
  BY <1>3, <1>5, <1>6, <1>7 DEF ProductExact, r

\* Quotients and remainders.
LEMMA ExecuteQuotients ==
  ASSUME NEW n, NEW c \in Cpus, NEW s \in Results(n), s.cpu = c, NEW i, FieldsFit(i), NEW space
  PROVE  DivisionExact(i, c, Execute(i, s, space))
<1> SUFFICES ASSUME i.opCode \in {"DIV", "DIVU"}
             PROVE  DivisionExact(i, c, Execute(i, s, space))
  BY DEF DivisionExact
<1> DEFINE a == IF i.opCode = "DIV" THEN c.r[i.rs] ELSE Unsigned(c.r[i.rs])
           b == IF i.opCode = "DIV" THEN c.r[i.rt] ELSE Unsigned(c.r[i.rt])
           q == Quotient(a, b)
           r == a - q * b
           e == Execute(i, s, space)
           traps == a = -(Word \div 2) /\ b = -1
<1>1. c.r[i.rs] \in Words /\ c.r[i.rt] \in Words
  <2>1. i.rs \in Registers /\ i.rt \in Registers
    BY DEF FieldsFit
  <2>2. QED
    BY <2>1 DEF Cpus
<1>2. /\ i.opCode = "DIV" => a \in Words /\ b \in Words
      /\ i.opCode = "DIVU" => a \in 0 .. Word - 1 /\ b \in 0 .. Word - 1
  BY <1>1, SignedWord, WordSigned
<1>3. a \in Int /\ b \in Int
  <2>1. \A x \in 0 .. Word - 1 : x \in Int
    OBVIOUS
  <2>2. \A x \in Words : x \in Int
    BY SmallWords
  <2> HIDE DEF a, b
  <2>3. CASE i.opCode = "DIV"
    BY <2>2, <2>3, <1>2
  <2>4. CASE i.opCode = "DIVU"
    BY <2>1, <2>4, <1>2
  <2>5. QED
    BY <2>3, <2>4
<1>4. /\ i.opCode = "DIV" => a = c.r[i.rs] /\ b = c.r[i.rt]
      /\ i.opCode = "DIVU" => a = Unsigned(c.r[i.rs]) /\ b = Unsigned(c.r[i.rt])
  OBVIOUS
<1>5. e = Divide(i, s)
  BY DEF Execute
<1> DEFINE Both(x, y) == [s EXCEPT !.cpu.lo = x, !.cpu.hi = y]
<1>6. /\ b # 0 /\ traps => e = Stops(s, "abort", 0)
      /\ b # 0 /\ ~traps => e = Both(Signed(q), Signed(r))
  BY <1>5 DEF Divide
<1>7. \A x, y : Both(x, y).cpu.lo = x /\ Both(x, y).cpu.hi = y
  BY DEF Results, Cpus
<1>8. Stops(s, "abort", 0).outcome = "abort"
  BY DEF Stops, Results
<1>9. b # 0 => Truncates(a, b, q, r)
  <2> HIDE DEF a, b
  <2>1. QED
    BY <1>3, QuotientTruncates
<1> HIDE DEF a, b, q, r, e, Both
<1>10. SUFFICES ASSUME e.outcome = "done", b # 0
                PROVE  /\ i.opCode = "DIV" => Truncates(a, b, e.cpu.lo, e.cpu.hi)
                       /\ i.opCode = "DIVU" =>
                            Truncates(a, b, Unsigned(e.cpu.lo), Unsigned(e.cpu.hi))
  <2>1. /\ i.opCode = "DIV" /\ c.r[i.rt] # 0 =>
             b # 0 /\ a = c.r[i.rs] /\ b = c.r[i.rt]
        /\ i.opCode = "DIVU" /\ Unsigned(c.r[i.rt]) # 0 =>
             b # 0 /\ a = Unsigned(c.r[i.rs]) /\ b = Unsigned(c.r[i.rt])
    BY <1>4
  <2>2. QED
    BY <2>1 DEF DivisionExact, e
<1>11. ~traps
  <2> HIDE DEF traps
  <2>1. QED
    BY <1>6, <1>8, <1>10
<1>12. e.cpu.lo = Signed(q) /\ e.cpu.hi = Signed(r)
  <2> HIDE DEF traps
  <2>1. QED
    BY <1>6, <1>7, <1>10, <1>11
<1>13. /\ a \in Words /\ b \in Words => Signed(q) = q /\ Signed(r) = r
       /\ a \in 0 .. Word - 1 /\ b \in 0 .. Word - 1 =>
            Unsigned(Signed(q)) = q /\ Unsigned(Signed(r)) = r
  BY <1>9, <1>10, <1>11, QuotientFits
<1>14. CASE i.opCode = "DIV"
  <2>1. Signed(q) = q /\ Signed(r) = r
    BY <1>2, <1>13, <1>14
  <2>2. QED
    BY <2>1, <1>9, <1>10, <1>12, <1>14
<1>15. CASE i.opCode = "DIVU"
  <2>1. Unsigned(Signed(q)) = q /\ Unsigned(Signed(r)) = r
    BY <1>2, <1>13, <1>15
  <2>2. QED
    BY <2>1, <1>9, <1>10, <1>12, <1>15
<1>16. QED
  BY <1>14, <1>15

-------------------------------------------------------------------------------
(* The commit keeps what Execute made of the registers.                    *)
Exact(i, c, r) == SumExact(i, c, r) /\ ProductExact(i, c, r) /\ DivisionExact(i, c, r)

\* What one instruction makes is exact.
LEMMA OneInstructionExact ==
  ASSUME NEW code, NEW c \in Cpus, NEW space, NEW n, Runnable(code, space, n)
  PROVE  Exact(Decode(code[Unsigned(c.pc)]), c, OneInstruction(code, c, space))
<1> DEFINE i == Decode(code[Unsigned(c.pc)])
           s == Execute(i, Started(c, space), space)
           fetch == Translate(space, c.pc, 4)
           r == OneInstruction(code, c, space)
<1>1. Started(c, space) \in Results(n) /\ Started(c, space).cpu = c /\ Goes(Started(c, space))
  <2>1. Started(c, space) \in Results(n)
    BY StartedType DEF Runnable
  <2>2. QED
    BY <2>1 DEF Started, Goes
<1>2. c.pc \in Int /\ c.nextPC \in Words
  BY SmallWords DEF Cpus
<1>3. CASE fetch # "NoException"
  <2>1. r = Stops(Started(c, space), fetch, c.pc)
    BY <1>3 DEF OneInstruction, Commit
  <2>2. fetch \in {"AddressError", "PageFault"}
    BY <1>3 DEF Translate
  <2>3. r.outcome \notin {"done", "Overflow"}
    <3> DEFINE x == Started(c, space)
    <3> HIDE DEF x, fetch, r
    <3>1. Stops(x, fetch, c.pc).outcome = fetch
      BY <1>1, GoesOn DEF x
    <3>2. r = Stops(x, fetch, c.pc)
      BY <2>1 DEF x
    <3>3. QED
      BY <2>2, <3>1, <3>2
  <2>4. QED
    BY <2>3 DEF Exact, SumExact, ProductExact, DivisionExact
<1>4. CASE fetch = "NoException"
  <2>1. c.pc % 4 = 0 /\ Unsigned(c.pc) \in 0 .. n - 1
    <3>1. DOMAIN space.bytes = 0 .. n - 1
      BY DEF Runnable, Memories
    <3>2. c.pc % 4 = 0 /\ Unsigned(c.pc) \in DOMAIN space.bytes
      BY <1>4 DEF Translate
    <3>3. QED
      BY <3>1, <3>2
  <2>2. Unsigned(c.pc) % 4 = 0
    BY <2>1, <1>2, SignedWord
  <2>3. code[Unsigned(c.pc)] \in Instructions
    BY <2>1, <2>2 DEF Runnable
  <2>4. /\ FieldsFit(i) /\ i.opCode \in DirectNames \cup SpecialNames \cup BranchNames
        /\ i.opCode = "ADDI" => i.extra \in Words
    BY <2>3, DecodeType, ImmediateIsWord
  <2>5. /\ s.outcome # "done" => r = [s EXCEPT !.cpu = c, !.bytes = space.bytes]
        /\ s.outcome = "done" => r = [s EXCEPT !.cpu = [DelayedLoad(s.cpu, s.load, s.loadValue)
                                                         EXCEPT !.pc = c.nextPC, !.nextPC = s.pcAfter]]
    BY <1>4 DEF OneInstruction, Commit
  <2> HIDE DEF i, r
  <2>6. s \in Results(n)
    BY <2>4, <1>1, ExecuteType DEF Runnable
  <2>7. SumExact(i, c, s) /\ ProductExact(i, c, s) /\ DivisionExact(i, c, s)
    BY <2>4, <1>1, ExecuteSums, ExecuteProducts, ExecuteQuotients
  <2> HIDE DEF s
  <2>8. r.outcome = s.outcome
    BY <2>5, <2>6 DEF Results
  <2>9. s.outcome = "done" => r.cpu.hi = s.cpu.hi /\ r.cpu.lo = s.cpu.lo
    <3> SUFFICES ASSUME s.outcome = "done"
                 PROVE  r.cpu.hi = s.cpu.hi /\ r.cpu.lo = s.cpu.lo
      OBVIOUS
    <3> DEFINE d == DelayedLoad(s.cpu, s.load, s.loadValue)
               e == [d EXCEPT !.pc = c.nextPC, !.nextPC = s.pcAfter]
    <3>1. s.cpu \in Cpus /\ s.load \in Registers /\ s.loadValue \in Words
      BY <2>6 DEF Results
    <3>2. d \in Cpus
      BY <3>1, DelayedLoadType
    <3>3. d.hi = s.cpu.hi /\ d.lo = s.cpu.lo
      BY <3>1 DEF DelayedLoad, Cpus
    <3>4. r = [s EXCEPT !.cpu = e]
      BY <2>5
    <3> HIDE DEF d
    <3>5. e.hi = d.hi /\ e.lo = d.lo
      BY <3>2 DEF Cpus
    <3> HIDE DEF e
    <3>6. r.cpu = e
      BY <3>4, <2>6 DEF Results
    <3>7. QED
      BY <3>3, <3>5, <3>6
  <2>10. QED
    <3>1. Exact(i, c, r)
      BY <2>7, <2>8, <2>9 DEF Exact, SumExact, ProductExact, DivisionExact
    <3>2. QED
      BY <3>1 DEF i, r
<1>5. QED
  BY <1>3, <1>4

\* The arithmetic of the simulated processor is exact: ADD, ADDI and SUB trap
\* when the result is no word and only then, no bit of a product is lost, and
\* DIV and DIVU truncate (mipssim.cc, Mult), whatever the size of a byte and
\* whatever the registers hold.
THEOREM ArithmeticIsExact == Spec => []ArithmeticExact
<1>1. MachineTyped => ArithmeticExact
  <2> SUFFICES ASSUME MachineTyped
               PROVE  ArithmeticExact
    OBVIOUS
  <2> DEFINE i == Decode(Word0)
             c == Flushed
             r == Outcome
  <2>1. PICK n \in 0 .. Word : Runnable(Setups[setup].code[addressSpace], Space(addressSpace), n)
    BY DEF MachineTyped, Programs, Registered
  <2>2. cpu \in Cpus
    BY DEF MachineTyped, Registered
  <2>3. c \in Cpus /\ c.pc = cpu.pc
    <3>1. Flushed.pc = cpu.pc
      BY <2>2 DEF Flushed, DelayedLoad, Cpus
    <3>2. QED
      BY <2>2, <3>1, FlushedType DEF Flushed
  <2>4. Exact(Decode(Setups[setup].code[addressSpace][Unsigned(c.pc)]), c,
              OneInstruction(Setups[setup].code[addressSpace], c, Space(addressSpace)))
    <3> HIDE DEF c
    <3>1. QED
      BY <2>1, <2>3, OneInstructionExact
  <2>5. Exact(i, c, r)
    BY <2>3, <2>4 DEF Word0, Outcome
  <2> DEFINE Seen(x) == IF i.opCode \in {"MULTU", "DIVU"} THEN Unsigned(x) ELSE x
             a == Seen(c.r[i.rs])
             b == Seen(c.r[i.rt])
             high == Seen(r.cpu.hi)
             low == Seen(r.cpu.lo)
             sum == CASE i.opCode = "ADD" -> a + b
                      [] i.opCode = "ADDI" -> a + i.extra
                      [] i.opCode = "SUB" -> a - b
                      [] OTHER -> 0
  <2>6. SUFFICES
          /\ r.outcome \in {"done", "Overflow"} => (r.outcome = "Overflow") = ~(sum = Signed(sum))
          /\ r.outcome = "done" /\ i.opCode \in {"MULT", "MULTU"} =>
               high * Word + Unsigned(low) = a * b
          /\ r.outcome = "done" /\ i.opCode \in {"DIV", "DIVU"} /\ b # 0 =>
               a = low * b + high /\ Abs(high) < Abs(b) /\ (high = 0 \/ (high < 0) = (a < 0))
    BY DEF ArithmeticExact
  <2> HIDE DEF i, c, r
  <2>7. sum = Sum(i, c)
    BY DEF Sum
  <2>8. r.outcome \in {"done", "Overflow"} => (r.outcome = "Overflow") = ~(sum = Signed(sum))
    BY <2>5, <2>7 DEF Exact, SumExact
  <2>9. r.outcome = "done" /\ i.opCode = "MULT" => high * Word + Unsigned(low) = a * b
    BY <2>5 DEF Exact, ProductExact
  <2>10. r.outcome = "done" /\ i.opCode = "MULTU" => high * Word + Unsigned(low) = a * b
    <3>1. r.outcome = "done" => r.cpu.lo \in Int
      <4>1. r \in Results(n)
        BY <2>1, <2>3, OneInstructionType DEF r, c, Outcome
      <4>2. QED
        BY <4>1, SmallWords DEF Results, Cpus
    <3>2. r.outcome = "done" => Unsigned(Unsigned(r.cpu.lo)) = Unsigned(r.cpu.lo)
      BY <3>1, SignedWord, UnsignedIs
    <3>3. QED
      BY <3>2, <2>5 DEF Exact, ProductExact
  <2>11. r.outcome = "done" /\ i.opCode \in {"DIV", "DIVU"} /\ b # 0 => Truncates(a, b, low, high)
    BY <2>5 DEF Exact, DivisionExact
  <2>12. r.outcome = "done" /\ i.opCode \in {"DIV", "DIVU"} /\ b # 0 =>
           a = low * b + high /\ Abs(high) < Abs(b) /\ (high = 0 \/ (high < 0) = (a < 0))
    <3> HIDE DEF a, b, low, high
    <3>1. QED
      BY <2>11 DEF Truncates
  <2> HIDE DEF sum, a, b, low, high
  <2>13. QED
    BY <2>8, <2>9, <2>10, <2>12
<1>2. QED
  BY <1>1, MachineIsTyped, PTL

===============================================================================
