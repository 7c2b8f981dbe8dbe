------------------------- MODULE ByteStringsProofs --------------------------
(***************************************************************************)
(* Facts about the operators of ByteStrings, for any bytes: where a text   *)
(* stands in another, numbers and their digits, and texts joined.          *)
(***************************************************************************)
EXTENDS ByteStrings, SequenceTheorems, WellFoundedInduction, TLAPS

-----------------------------------------------------------------------------
\* Induction.

\* A set of naturals that is not empty has a least element.
LEMMA Least ==
  ASSUME NEW T, T \subseteq Nat, T # {}
  PROVE  \E x \in T : \A y \in T : x <= y
  <1> DEFINE R == {pair \in Nat \X Nat : pair[1] < pair[2]}
  <1>1. IsWellFoundedOn(R, Nat)
    BY NatLessThanWellFounded DEF OpToRel
  <1> HIDE DEF R
  <1>2. PICK x \in T : \A y \in T : <<y, x>> \notin R
    BY ZenonT(30), <1>1, WFMin
  <1>3. ASSUME NEW y \in T
        PROVE  x <= y
    <2>1. <<y, x>> \in Nat \X Nat /\ <<y, x>>[1] = y /\ <<y, x>>[2] = x
      OBVIOUS
    <2>2. ~(y < x)
      BY Zenon, <1>2, <2>1 DEF R
    <2> QED
      BY <2>2
  <1> QED
    BY <1>3

\* Induction over the naturals, for a property given as the set where it holds.
LEMMA Induction ==
  ASSUME NEW T, 0 \in T, \A n \in Nat : n \in T => n + 1 \in T
  PROVE  Nat \subseteq T
  <1> SUFFICES ASSUME Nat \ T # {}
               PROVE  FALSE
    OBVIOUS
  <1>1. PICK m \in Nat \ T : \A n \in Nat \ T : m <= n
    BY ZenonT(30), Least
  <1>2. m - 1 \in Nat /\ m - 1 \in T /\ (m - 1) + 1 = m
    BY <1>1
  <1> QED
    BY <1>2

-----------------------------------------------------------------------------
\* Recursion: the functions that the definitions below choose exist.

\* The first rounds of a loop from x on.
Rounds(h, n, x, step) ==
  /\ DOMAIN h = 0 .. n /\ h[0] = x
  /\ \A k \in 1 .. n : h[k] = step[k][h[k - 1]]

\* Two runs of a loop agree as far as both go.
LEMMA SameRounds ==
  ASSUME NEW x, NEW step, NEW n \in Nat, NEW m \in Nat, NEW h, NEW i,
         Rounds(h, n, x, step), Rounds(i, m, x, step)
  PROVE  \A k \in Nat : k <= n /\ k <= m => h[k] = i[k]
  <1> DEFINE K == {k \in Nat : k <= n /\ k <= m => h[k] = i[k]}
  <1>1. 0 \in K
    BY DEF Rounds
  <1>2. ASSUME NEW k \in Nat, k \in K
        PROVE  k + 1 \in K
    <2> SUFFICES ASSUME k + 1 <= n, k + 1 <= m
                 PROVE  h[k + 1] = i[k + 1]
      OBVIOUS
    <2>1. h[k] = i[k] /\ k + 1 \in 1 .. n /\ k + 1 \in 1 .. m /\ (k + 1) - 1 = k
      BY <1>2
    <2> QED
      BY Zenon, <2>1 DEF Rounds
  <1> HIDE DEF K
  <1>3. Nat \subseteq K
    BY Zenon, <1>1, <1>2, Induction
  <1> QED
    BY <1>3 DEF K

\* A loop can be run for any number of rounds.
LEMMA SomeRounds ==
  ASSUME NEW S, NEW x \in S, NEW n \in Nat, NEW step, \A k \in 1 .. n : \A s \in S : step[k][s] \in S
  PROVE  \E h \in [0 .. n -> S] : Rounds(h, n, x, step)
  <1> DEFINE N == {m \in Nat : m <= n => \E h \in [0 .. m -> S] : Rounds(h, m, x, step)}
  <1>1. 0 \in N
    <2> DEFINE h == [k \in 0 .. 0 |-> x]
    <2>1. h \in [0 .. 0 -> S] /\ Rounds(h, 0, x, step)
      BY DEF Rounds
    <2> QED
      BY <2>1
  <1>2. ASSUME NEW m \in Nat, m \in N
        PROVE  m + 1 \in N
    <2> SUFFICES ASSUME m + 1 <= n
                 PROVE  \E h \in [0 .. m + 1 -> S] : Rounds(h, m + 1, x, step)
      OBVIOUS
    <2>0. m <= n /\ m + 1 \in 1 .. n
      OBVIOUS
    <2>1. PICK h \in [0 .. m -> S] : Rounds(h, m, x, step)
      BY Zenon, <1>2, <2>0
    <2> DEFINE i == [k \in 0 .. m + 1 |-> IF k = m + 1 THEN step[m + 1][h[m]] ELSE h[k]]
    <2>2. step[m + 1][h[m]] \in S
      BY <2>0, <2>1
    <2>3. i \in [0 .. m + 1 -> S] /\ i[0] = x
      BY <2>1, <2>2 DEF Rounds
    <2>4. ASSUME NEW k \in 1 .. m + 1
          PROVE  i[k] = step[k][i[k - 1]]
      <3>1. CASE k = m + 1
        BY <3>1
      <3>2. CASE k # m + 1
        <4>1. k \in 1 .. m /\ i[k] = h[k] /\ i[k - 1] = h[k - 1]
          BY <3>2
        <4> QED
          BY Zenon, <2>1, <4>1 DEF Rounds
      <3> QED
        BY Zenon, <3>1, <3>2
    <2>5. DOMAIN i = 0 .. m + 1
      OBVIOUS
    <2> HIDE DEF i
    <2>6. Rounds(i, m + 1, x, step)
      BY Zenon, <2>3, <2>4, <2>5 DEF Rounds
    <2> QED
      BY Zenon, <2>3, <2>6
  <1> HIDE DEF N
  <1>3. Nat \subseteq N
    BY Zenon, <1>1, <1>2, Induction
  <1> QED
    BY <1>3 DEF N

\* A function that is defined from its value one below.
Iterates(g, x, step) == g[0] = x /\ \A n \in Nat : g[n + 1] = step[n + 1][g[n]]

\* A loop can be run for ever.
LEMMA Iteration ==
  ASSUME NEW S, NEW x \in S, NEW step \in [Nat -> [S -> S]]
  PROVE  \E g \in [Nat -> S] : Iterates(g, x, step)
  <1> DEFINE run(n) == CHOOSE h \in [0 .. n -> S] : Rounds(h, n, x, step)
             g == [n \in Nat |-> run(n)[n]]
  <1>1. ASSUME NEW n \in Nat
        PROVE  run(n) \in [0 .. n -> S] /\ Rounds(run(n), n, x, step)
    <2>1. \A k \in 1 .. n : \A s \in S : step[k][s] \in S
      OBVIOUS
    <2> QED
      BY Zenon, <2>1, SomeRounds
  <1> HIDE DEF run
  <1>2. g \in [Nat -> S]
    BY <1>1
  <1>3. g[0] = x
    BY <1>1 DEF Rounds
  <1>4. ASSUME NEW n \in Nat
        PROVE  g[n + 1] = step[n + 1][g[n]]
    <2>1. n + 1 \in Nat /\ n + 1 \in 1 .. n + 1 /\ (n + 1) - 1 = n /\ n <= n /\ n <= n + 1
      OBVIOUS
    <2>2. run(n + 1)[n + 1] = step[n + 1][run(n + 1)[n]]
      BY Zenon, <1>1, <2>1 DEF Rounds
    <2>3. \A k \in Nat : k <= n + 1 /\ k <= n => run(n + 1)[k] = run(n)[k]
      <3>1. Rounds(run(n), n, x, step) /\ Rounds(run(n + 1), n + 1, x, step)
        BY Zenon, <1>1, <2>1
      <3> QED
        BY <2>1, <3>1, SameRounds
    <2> QED
      BY Zenon, <2>1, <2>2, <2>3
  <1> HIDE DEF g
  <1> QED
    BY Zenon, <1>2, <1>3, <1>4 DEF Iterates

\* A function that is defined from its values at smaller arguments.
UsesSmaller(D, S, size, step) ==
  \A x \in D : \A f, g \in [D -> S] :
    (\A y \in D : size[y] < size[x] => f[y] = g[y]) => step[x][f] = step[x][g]

Solves(f, D, step) == \A x \in D : f[x] = step[x][f]

\* Such a function exists.
LEMMA Recursion ==
  ASSUME NEW D, NEW S, NEW some \in S, NEW size \in [D -> Nat], NEW step \in [D -> [[D -> S] -> S]],
         UsesSmaller(D, S, size, step)
  PROVE  \E f \in [D -> S] : Solves(f, D, step)
  <1> DEFINE F == [D -> S]
             once == [n \in Nat |-> [f \in F |-> [x \in D |-> step[x][f]]]]
             first == [x \in D |-> some]
  <1>1. once \in [Nat -> [F -> F]] /\ first \in F
    OBVIOUS
  <1>2. \A n \in Nat : \A f \in F : once[n][f] = [x \in D |-> step[x][f]]
    OBVIOUS
  <1> HIDE DEF F, once, first
  <1>3. PICK g \in [Nat -> F] : Iterates(g, first, once)
    BY Zenon, <1>1, Iteration
  <1>4. ASSUME NEW n \in Nat
        PROVE  g[n] \in F /\ \A x \in D : g[n + 1][x] = step[x][g[n]]
    <2>1. n + 1 \in Nat /\ g[n] \in F
      BY <1>3
    <2>2. g[n + 1] = [x \in D |-> step[x][g[n]]]
      BY Zenon, <1>2, <1>3, <2>1 DEF Iterates
    <2> QED
      BY Zenon, <2>1, <2>2
  <1> DEFINE N == {n \in Nat : \A x \in D : size[x] < n => g[n][x] = g[n + 1][x]}
  <1>5. 0 \in N
    OBVIOUS
  <1>6. ASSUME NEW n \in Nat, n \in N
        PROVE  n + 1 \in N
    <2> SUFFICES ASSUME NEW x \in D, size[x] < n + 1
                 PROVE  g[n + 1][x] = g[(n + 1) + 1][x]
      OBVIOUS
    <2>1. \A y \in D : size[y] < size[x] => g[n][y] = g[n + 1][y]
      BY <1>6
    <2>2. n + 1 \in Nat
      OBVIOUS
    <2>3. step[x][g[n]] = step[x][g[n + 1]]
      BY Zenon, <1>4, <2>1, <2>2 DEF F, UsesSmaller
    <2> QED
      BY Zenon, <1>4, <2>2, <2>3
  <1> HIDE DEF N
  <1>7. Nat \subseteq N
    BY Zenon, <1>5, <1>6, Induction
  <1>8. ASSUME NEW x \in D
        PROVE  \A n \in Nat : g[(size[x] + 1) + n][x] = g[size[x] + 1][x]
    <2> DEFINE M == {n \in Nat : g[(size[x] + 1) + n][x] = g[size[x] + 1][x]}
    <2>1. 0 \in M
      OBVIOUS
    <2>2. ASSUME NEW n \in Nat, n \in M
          PROVE  n + 1 \in M
      <3>1. /\ (size[x] + 1) + n \in Nat /\ size[x] < (size[x] + 1) + n
            /\ ((size[x] + 1) + n) + 1 = (size[x] + 1) + (n + 1)
        OBVIOUS
      <3>2. g[(size[x] + 1) + n][x] = g[(size[x] + 1) + (n + 1)][x]
        BY Zenon, <1>7, <3>1 DEF N
      <3> QED
        BY <2>2, <3>2
    <2> HIDE DEF M
    <2>3. Nat \subseteq M
      BY Zenon, <2>1, <2>2, Induction
    <2> QED
      BY <2>3 DEF M
  <1> DEFINE f == [x \in D |-> g[size[x] + 1][x]]
  <1>9. f \in F
    BY <1>4 DEF F
  <1>10. ASSUME NEW x \in D
         PROVE  f[x] = step[x][f]
    <2>1. ASSUME NEW y \in D, size[y] < size[x]
          PROVE  g[size[x]][y] = f[y]
      <3>1. size[x] - (size[y] + 1) \in Nat /\ (size[y] + 1) + (size[x] - (size[y] + 1)) = size[x]
        BY <2>1
      <3>2. g[(size[y] + 1) + (size[x] - (size[y] + 1))][y] = g[size[y] + 1][y]
        BY Zenon, <1>8, <3>1
      <3> QED
        BY Zenon, <3>1, <3>2
    <2>2. size[x] \in Nat /\ f[x] = g[size[x] + 1][x]
      OBVIOUS
    <2> HIDE DEF f
    <2>3. step[x][g[size[x]]] = step[x][f]
      BY Zenon, <1>4, <1>9, <2>1, <2>2 DEF F, UsesSmaller
    <2> QED
      BY Zenon, <1>4, <2>2, <2>3
  <1> HIDE DEF f
  <1> QED
    BY Zenon, <1>9, <1>10 DEF F, Solves

-----------------------------------------------------------------------------
\* Bytes.

\* A set of naturals has its least element for a minimum.
LEMMA MinFacts ==
  ASSUME NEW T, T \subseteq Nat, T # {}
  PROVE  Min(T) \in T /\ \A y \in T : Min(T) <= y
  <1>1. \E x \in T : \A y \in T : x <= y
    BY Zenon, Least
  <1> QED
    BY Zenon, <1>1 DEF Min

\* One sequence behind another.
LEMMA BothTogether ==
  ASSUME NEW x \in Seq(Byte), NEW y \in Seq(Byte)
  PROVE  x \o y \in Seq(Byte) /\ Len(x \o y) = Len(x) + Len(y) /\ Len(x) \in Nat /\ Len(y) \in Nat
  OBVIOUS

\* Three sequences in a row.
LEMMA BytesAssociative ==
  ASSUME NEW x \in Seq(Byte), NEW y \in Seq(Byte), NEW z \in Seq(Byte)
  PROVE  (x \o y) \o z = x \o (y \o z)
  BY SMTT(30), ConcatAssociative

\* Nowhere from at on, or first at f.
Nowhere(buffer, what, at) ==
  \A i \in at .. Len(buffer) - Len(what) + 1 : SubSeq(buffer, i, i + Len(what) - 1) # what

FirstAt(buffer, what, at, f) ==
  /\ f \in at .. Len(buffer) - Len(what) + 1 /\ SubSeq(buffer, f, f + Len(what) - 1) = what
  /\ \A i \in at .. f - 1 : SubSeq(buffer, i, i + Len(what) - 1) # what

\* Find returns the first place where what stands.
LEMMA FindFacts ==
  ASSUME NEW buffer \in Seq(Byte), NEW what \in Seq(Byte), NEW at \in Nat \ {0}
  PROVE  \/ Find(buffer, what, at) = 0 /\ Nowhere(buffer, what, at)
         \/ FirstAt(buffer, what, at, Find(buffer, what, at))
  <1> DEFINE end == Len(buffer) - Len(what) + 1
             Stands(i) == SubSeq(buffer, i, i + Len(what) - 1) = what
             places == {i \in at .. end : Stands(i)}
             f == Find(buffer, what, at)
  <1>1. f = IF places = {} THEN 0 ELSE Min(places)
    BY Zenon DEF Find
  <1>2. places \subseteq Nat /\ end \in Int
    OBVIOUS
  <1>3. CASE places = {}
    <2>1. \A i \in at .. end : ~Stands(i)
      BY Zenon, <1>3
    <2> QED
      BY Zenon, <1>1, <1>3, <2>1 DEF Nowhere
  <1>4. CASE places # {}
    <2>1. f \in places /\ \A y \in places : f <= y
      BY Zenon, <1>1, <1>2, <1>4, MinFacts
    <2>2. ASSUME NEW i \in at .. f - 1
          PROVE  ~Stands(i)
      <3>1. i \in at .. end /\ ~(f <= i)
        BY <1>2, <2>1
      <3> QED
        BY Zenon, <2>1, <3>1
    <2> QED
      BY Zenon, <2>1, <2>2 DEF FirstAt
  <1> QED
    BY Zenon, <1>3, <1>4

\* There is only one such place.
LEMMA FindUnique ==
  ASSUME NEW buffer \in Seq(Byte), NEW what \in Seq(Byte), NEW at \in Nat \ {0},
         NEW f, FirstAt(buffer, what, at, f)
  PROVE  Find(buffer, what, at) = f
  <1> DEFINE end == Len(buffer) - Len(what) + 1
             Stands(i) == SubSeq(buffer, i, i + Len(what) - 1) = what
             g == Find(buffer, what, at)
  <1>1. \/ g = 0 /\ Nowhere(buffer, what, at)
        \/ FirstAt(buffer, what, at, g)
    BY Zenon, FindFacts
  <1>2. end \in Int
    OBVIOUS
  <1>3. f \in at .. end /\ Stands(f) /\ \A i \in at .. f - 1 : ~Stands(i)
    BY Zenon DEF FirstAt
  <1>4. CASE Nowhere(buffer, what, at)
    BY Zenon, <1>3, <1>4 DEF Nowhere
  <1>5. CASE FirstAt(buffer, what, at, g)
    <2>1. g \in at .. end /\ Stands(g) /\ \A i \in at .. g - 1 : ~Stands(i)
      BY Zenon, <1>5 DEF FirstAt
    <2> HIDE DEF g, end, Stands
    <2>2. ~(f < g) /\ ~(g < f)
      BY <1>2, <1>3, <2>1
    <2>3. g = f
      BY <1>2, <1>3, <2>1, <2>2
    <2> QED
      BY Zenon, <2>3 DEF g
  <1> QED
    BY Zenon, <1>1, <1>4, <1>5

\* The places that FirstNotIn reports.
LEMMA FirstNotInFacts ==
  ASSUME NEW bytes \in Seq(Byte), NEW set
  PROVE  \/ FirstNotIn(bytes, set) = 0 /\ \A i \in 1 .. Len(bytes) : bytes[i] \in set
         \/ /\ FirstNotIn(bytes, set) \in 1 .. Len(bytes) /\ bytes[FirstNotIn(bytes, set)] \notin set
            /\ \A i \in 1 .. Len(bytes) : bytes[i] \notin set => FirstNotIn(bytes, set) <= i
  <1> DEFINE places == {i \in DOMAIN bytes : bytes[i] \notin set}
  <1>1. FirstNotIn(bytes, set) = IF places = {} THEN 0 ELSE Min(places)
    BY Zenon DEF FirstNotIn
  <1>2. DOMAIN bytes = 1 .. Len(bytes) /\ places \subseteq Nat
    OBVIOUS
  <1>3. CASE places = {}
    BY Zenon, <1>1, <1>2, <1>3
  <1>4. CASE places # {}
    <2>1. FirstNotIn(bytes, set) \in places /\ \A y \in places : FirstNotIn(bytes, set) <= y
      BY Zenon, <1>1, <1>2, <1>4, MinFacts
    <2> QED
      BY Zenon, <1>2, <2>1
  <1> QED
    BY Zenon, <1>3, <1>4

\* w stands in the buffer from at on.
Occurs(b, at, w) == at + Len(w) - 1 <= Len(b) /\ \A i \in 1 .. Len(w) : b[at + i - 1] = w[i]

\* What stands in the buffer stands there part by part.
LEMMA OccursParts ==
  ASSUME NEW b \in Seq(Byte), NEW u \in Seq(Byte), NEW v \in Seq(Byte), NEW at \in Nat \ {0}, Occurs(b, at, u \o v)
  PROVE  Occurs(b, at, u) /\ Occurs(b, at + Len(u), v)
  <1>1. /\ Len(u \o v) = Len(u) + Len(v) /\ Len(u) \in Nat /\ Len(v) \in Nat
        /\ \A i \in 1 .. Len(u) : (u \o v)[i] = u[i]
        /\ \A i \in 1 .. Len(v) : (u \o v)[Len(u) + i] = v[i]
    OBVIOUS
  <1>2. /\ at + Len(u \o v) - 1 <= Len(b)
        /\ \A i \in 1 .. Len(u \o v) : b[at + i - 1] = (u \o v)[i]
    BY Zenon DEF Occurs
  <1>3. at + Len(u) - 1 <= Len(b) /\ at + Len(u) + Len(v) - 1 <= Len(b)
    BY <1>1, <1>2
  <1>4. ASSUME NEW i \in 1 .. Len(u)
        PROVE  b[at + i - 1] = u[i]
    <2>1. i \in 1 .. Len(u \o v)
      BY <1>1
    <2> QED
      BY Zenon, <1>1, <1>2, <2>1
  <1>5. ASSUME NEW i \in 1 .. Len(v)
        PROVE  b[at + Len(u) + i - 1] = v[i]
    <2>1. Len(u) + i \in 1 .. Len(u \o v) /\ at + (Len(u) + i) - 1 = at + Len(u) + i - 1
      BY <1>1
    <2> QED
      BY Zenon, <1>1, <1>2, <2>1
  <1> QED
    BY Zenon, <1>3, <1>4, <1>5 DEF Occurs

\* What stands in the buffer can be cut out of it.
LEMMA OccursCut ==
  ASSUME NEW b \in Seq(Byte), NEW w \in Seq(Byte), NEW at \in Nat \ {0}, Occurs(b, at, w)
  PROVE  SubSeq(b, at, at + Len(w) - 1) = w
  <1> DEFINE L == Len(w)
             s == SubSeq(b, at, at + L - 1)
  <1>1. at + L - 1 <= Len(b) /\ L \in Nat /\ \A i \in 1 .. L : b[at + i - 1] = w[i]
    BY DEF Occurs
  <1>2. s \in Seq(Byte) /\ Len(s) = L /\ \A i \in 1 .. L : s[i] = b[at + i - 1]
    <2>0. Len(b) \in Nat
      OBVIOUS
    <2> HIDE DEF L
    <2>1. \A i \in at .. at + L - 1 : b[i] \in Byte
      BY <1>1
    <2>2. Len(s) = IF at <= at + L - 1 THEN (at + L - 1) - at + 1 ELSE 0
      BY <1>1, <2>1, SubSeqProperties
    <2>3. s \in Seq(Byte) /\ \A i \in 1 .. (at + L - 1) - at + 1 : s[i] = b[at + i - 1]
      BY <1>1, <2>1, SubSeqProperties
    <2>4. (at + L - 1) - at + 1 = L
      BY <1>1
    <2> QED
      BY <1>1, <2>2, <2>3, <2>4
  <1> HIDE DEF s
  <1>3. \A i \in 1 .. L : s[i] = w[i]
    BY Zenon, <1>1, <1>2
  <1>4. s = w
    BY <1>2, <1>3, SeqEqual
  <1> QED
    BY Zenon, <1>4 DEF s

-----------------------------------------------------------------------------
\* Numbers in digits.

\* A digit stands for a number below 10.
LEMMA DigitFacts ==
  /\ \A d \in Range(Digits) : DigitValue(d) \in 0 .. 9 /\ d \in Byte
  /\ \A i \in 0 .. 9 : Digits[i + 1] \in Range(Digits) /\ DigitValue(Digits[i + 1]) = i
  <1>1. ASSUME NEW d \in Range(Digits)
        PROVE  \E i \in 0 .. 9 : Digits[i + 1] = d
    <2>1. PICK k \in DOMAIN Digits : d = Digits[k]
      BY Zenon DEF Range
    <2>2. k \in 1 .. 10
      BY <2>1 DEF Digits
    <2>3. k - 1 \in 0 .. 9 /\ (k - 1) + 1 = k
      BY <2>2
    <2> QED
      BY Zenon, <2>1, <2>3
  <1>2. ASSUME NEW i \in 0 .. 9
        PROVE  Digits[i + 1] \in Range(Digits)
    <2>1. i + 1 \in DOMAIN Digits
      BY DEF Digits
    <2> QED
      BY Zenon, <2>1 DEF Range
  <1>3. ASSUME NEW i \in 0 .. 9, NEW j \in 0 .. 9, Digits[i + 1] = Digits[j + 1]
        PROVE  i = j
    BY <1>3 DEF Digits
  <1> QED
    BY Zenon, <1>1, <1>2, <1>3, ByteAssumption DEF DigitValue

\* Digits are not white space.
LEMMA DigitsNotSpace == \A d \in Range(Digits) : d \notin Space
  <1> SUFFICES ASSUME NEW d \in Range(Digits)
               PROVE  d \notin Space
    OBVIOUS
  <1>1. PICK k \in DOMAIN Digits : d = Digits[k]
    BY Zenon DEF Range
  <1>2. k \in 1 .. 10
    BY <1>1 DEF Digits
  <1>3. d \in {"0", "1", "2", "3", "4", "5", "6", "7", "8", "9"}
    BY <1>1, <1>2 DEF Digits
  <1> QED
    BY Zenon, <1>3 DEF Space

\* A digit is no sign and does not end a string.
LEMMA DigitsPlain == \A d \in Range(Digits) : d \notin {"+", "-", "NUL"}
  <1> SUFFICES ASSUME NEW d \in Range(Digits)
               PROVE  d \notin {"+", "-", "NUL"}
    OBVIOUS
  <1>1. PICK k \in DOMAIN Digits : d = Digits[k]
    BY Zenon DEF Range
  <1>2. k \in 1 .. 10
    BY <1>1 DEF Digits
  <1>3. d \in {"0", "1", "2", "3", "4", "5", "6", "7", "8", "9"}
    BY <1>1, <1>2 DEF Digits
  <1> QED
    BY Zenon, <1>3

\* Number is what the loop over the digits computes.
LEMMA NumberIs ==
  ASSUME NEW digits \in Seq(Range(Digits)), NEW f \in [0 .. Len(digits) -> Nat], f[0] = 0,
         \A n \in 1 .. Len(digits) : f[n] = 10 * f[n - 1] + DigitValue(digits[n])
  PROVE  Number(digits) = f[Len(digits)]
  <1> DEFINE D == 0 .. Len(digits)
             u == CHOOSE u : u = [n \in D |-> IF n = 0 THEN 0 ELSE 10 * u[n - 1] + DigitValue(digits[n])]
  <1>0. Len(digits) \in Nat
    OBVIOUS
  <1>1. f = [n \in D |-> IF n = 0 THEN 0 ELSE 10 * f[n - 1] + DigitValue(digits[n])]
    <2> DEFINE F == [n \in D |-> IF n = 0 THEN 0 ELSE 10 * f[n - 1] + DigitValue(digits[n])]
    <2>1. ASSUME NEW n \in D
          PROVE  f[n] = F[n]
      <3>1. n = 0 \/ n \in 1 .. Len(digits)
        BY <1>0
      <3> QED
        BY Zenon, <3>1
    <2>2. f = [n \in D |-> f[n]] /\ F = [n \in D |-> F[n]]
      BY Zenon
    <2> HIDE DEF F
    <2>3. f = F
      BY Zenon, <2>1, <2>2
    <2> QED
      BY Zenon, <2>3 DEF F
  <1>2. u = [n \in D |-> IF n = 0 THEN 0 ELSE 10 * u[n - 1] + DigitValue(digits[n])]
    BY Zenon, <1>1
  <1>3. Number(digits) = u[Len(digits)]
    BY Zenon DEF Number
  <1> DEFINE N == {n \in Nat : n <= Len(digits) => u[n] = f[n]}
  <1> HIDE DEF u
  <1>4. 0 \in N
    BY <1>0, <1>2
  <1>5. ASSUME NEW n \in Nat, n \in N
        PROVE  n + 1 \in N
    <2> SUFFICES ASSUME n + 1 <= Len(digits)
                 PROVE  u[n + 1] = f[n + 1]
      OBVIOUS
    <2>1. n + 1 \in D /\ n + 1 \in 1 .. Len(digits) /\ n + 1 # 0 /\ (n + 1) - 1 = n /\ u[n] = f[n]
      BY <1>0, <1>5
    <2>2. u[n + 1] = 10 * u[n] + DigitValue(digits[n + 1])
      BY Zenon, <1>2, <2>1
    <2> QED
      BY Zenon, <2>1, <2>2
  <1> HIDE DEF N
  <1>6. Nat \subseteq N
    BY Zenon, <1>4, <1>5, Induction
  <1> QED
    BY <1>0, <1>3, <1>6 DEF N

\* What is left of n after so many divisions by 10.
Divided(left, n) == left \in [Nat -> Nat] /\ left[0] = n /\ \A m \in Nat : left[m + 1] = left[m] \div 10

\* The digits of n from the last one that is not a leading zero.
DigitsOf(left, size) == [i \in 1 .. size |-> Digits[(left[size - i] % 10) + 1]]

\* Nothing is left after so many divisions, and not before.
Shortest(left, size) == left[size] = 0 /\ \A m \in 1 .. size - 1 : left[m] # 0

\* Unsigned divides until nothing is left, and no longer.
LEMMA UnsignedFacts ==
  ASSUME NEW n \in Nat
  PROVE  \E left : \E size \in 1 .. n + 1 :
           Divided(left, n) /\ Shortest(left, size) /\ Unsigned(n) = DigitsOf(left, size)
  <1> DEFINE step == [k \in Nat |-> [x \in Nat |-> x \div 10]]
             u == CHOOSE u : u = [m \in Nat |-> IF m = 0 THEN n ELSE u[m - 1] \div 10]
  <1>1. \A x \in Nat : x \div 10 \in Nat /\ (x = 0 => x \div 10 = 0) /\ (x # 0 => x \div 10 < x)
    OBVIOUS
  <1>2. step \in [Nat -> [Nat -> Nat]] /\ \A k \in Nat : \A x \in Nat : step[k][x] = x \div 10
    BY Zenon, <1>1
  <1> HIDE DEF step
  <1>3. PICK g \in [Nat -> Nat] : Iterates(g, n, step)
    BY Zenon, <1>2, Iteration
  <1>4. g = [m \in Nat |-> IF m = 0 THEN n ELSE g[m - 1] \div 10]
    <2> DEFINE G == [m \in Nat |-> IF m = 0 THEN n ELSE g[m - 1] \div 10]
    <2>1. ASSUME NEW m \in Nat
          PROVE  g[m] = G[m]
      <3>1. CASE m = 0
        BY Zenon, <1>3, <3>1 DEF Iterates
      <3>2. CASE m # 0
        <4>1. m - 1 \in Nat /\ (m - 1) + 1 = m
          BY <3>2
        <4>2. g[m - 1] \in Nat /\ g[m] = step[m][g[m - 1]]
          BY Zenon, <1>3, <4>1 DEF Iterates
        <4> QED
          BY Zenon, <1>2, <3>2, <4>2
      <3> QED
        BY Zenon, <3>1, <3>2
    <2>2. g = [m \in Nat |-> g[m]] /\ G = [m \in Nat |-> G[m]]
      BY Zenon, <1>3
    <2> HIDE DEF G
    <2>3. g = G
      BY Zenon, <2>1, <2>2
    <2> QED
      BY Zenon, <2>3 DEF G
  <1>5. u = [m \in Nat |-> IF m = 0 THEN n ELSE u[m - 1] \div 10]
    BY Zenon, <1>4
  <1> DEFINE zeros == {m \in 1 .. n + 1 : u[m] = 0}
  <1>6. Unsigned(n) = DigitsOf(u, Min(zeros))
    BY Zenon DEF Unsigned, DigitsOf
  <1> HIDE DEF u
  <1>7. u[0] = n
    BY Zenon, <1>5
  <1>8. \A m \in Nat : u[m + 1] = u[m] \div 10
    <2> TAKE m \in Nat
    <2>1. m + 1 \in Nat /\ m + 1 # 0 /\ (m + 1) - 1 = m
      OBVIOUS
    <2> QED
      BY Zenon, <1>5, <2>1
  <1> DEFINE N == {m \in Nat : u[m] \in Nat /\ (u[m] = 0 \/ u[m] + m <= n)}
  <1>9. 0 \in N
    BY <1>7
  <1>10. ASSUME NEW m \in Nat, m \in N
         PROVE  m + 1 \in N
    <2>1. u[m] \in Nat /\ (u[m] = 0 \/ u[m] + m <= n) /\ u[m + 1] = u[m] \div 10
      BY Zenon, <1>8, <1>10
    <2>2. u[m + 1] \in Nat /\ (u[m] = 0 => u[m + 1] = 0) /\ (u[m] # 0 => u[m + 1] < u[m])
      BY Zenon, <1>1, <2>1
    <2> QED
      BY <2>1, <2>2
  <1> HIDE DEF N
  <1>11. Nat \subseteq N
    BY Zenon, <1>9, <1>10, Induction
  <1>12. \A m \in Nat : u[m] \in Nat
    BY Zenon, <1>11 DEF N
  <1>13. u \in [Nat -> Nat]
    BY Zenon, <1>5, <1>12
  <1>14. u[n + 1] = 0
    <2>1. n + 1 \in N
      BY <1>11
    <2> QED
      BY <2>1 DEF N
  <1>15. Min(zeros) \in zeros /\ \A m \in zeros : Min(zeros) <= m
    <2>1. n + 1 \in zeros /\ zeros \subseteq Nat
      BY <1>14
    <2> HIDE DEF zeros
    <2> QED
      BY Zenon, <2>1, MinFacts
  <1>16. Min(zeros) \in 1 .. n + 1 /\ u[Min(zeros)] = 0
    BY Zenon, <1>15
  <1>17. Shortest(u, Min(zeros))
    <2> DEFINE size == Min(zeros)
    <2>1. ASSUME NEW m \in 1 .. size - 1
          PROVE  u[m] # 0
      <3>1. size \in 1 .. n + 1 /\ \A k \in 1 .. n + 1 : u[k] = 0 => size <= k
        BY Zenon, <1>15
      <3> HIDE DEF size
      <3>2. m \in 1 .. n + 1 /\ ~(size <= m)
        BY <3>1
      <3> QED
        BY Zenon, <3>1, <3>2
    <2> QED
      BY Zenon, <1>16, <2>1 DEF Shortest
  <1> HIDE DEF zeros
  <1>18. Divided(u, n)
    BY Zenon, <1>7, <1>8, <1>13 DEF Divided
  <1> QED
    BY Zenon, <1>6, <1>16, <1>17, <1>18

\* What Number makes of the first k digits.
FrontReads(left, size, k) ==
  /\ SubSeq(DigitsOf(left, size), 1, k) \in Seq(Range(Digits))
  /\ Number(SubSeq(DigitsOf(left, size), 1, k)) = left[size - k]

\* Number reads the first digits as what is left after the divisions for the others.
LEMMA DigitsRead ==
  ASSUME NEW n \in Nat, NEW left, Divided(left, n), NEW size \in Nat, left[size] = 0
  PROVE  /\ DigitsOf(left, size) \in Seq(Range(Digits)) /\ Len(DigitsOf(left, size)) = size
         /\ \A k \in 0 .. size : FrontReads(left, size, k)
  <1> DEFINE digits == DigitsOf(left, size)
             R == Range(Digits)
  <1>1. ASSUME NEW i \in 1 .. size
        PROVE  /\ size - i \in Nat /\ left[size - i] \in Nat /\ left[size - i] % 10 \in 0 .. 9
               /\ left[size - (i - 1)] = left[size - i] \div 10
    <2>1. size - i \in Nat /\ (size - i) + 1 = size - (i - 1)
      OBVIOUS
    <2>2. left[size - i] \in Nat /\ left[(size - i) + 1] = left[size - i] \div 10
      BY Zenon, <2>1 DEF Divided
    <2>3. left[size - i] % 10 \in 0 .. 9
      BY <2>2
    <2> QED
      BY Zenon, <2>1, <2>2, <2>3
  <1>2. ASSUME NEW i \in 1 .. size
        PROVE  digits[i] \in R /\ DigitValue(digits[i]) = left[size - i] % 10
    <2>1. digits[i] = Digits[(left[size - i] % 10) + 1]
      BY Zenon DEF DigitsOf
    <2> QED
      BY Zenon, <1>1, <2>1, DigitFacts
  <1>3. digits = [i \in 1 .. size |-> digits[i]]
    BY Zenon DEF DigitsOf
  <1> HIDE DEF digits, R
  <1>4. digits \in Seq(R) /\ Len(digits) = size
    <2>1. digits \in [1 .. size -> R]
      BY Zenon, <1>2, <1>3
    <2> QED
      BY <2>1
  <1>5. ASSUME NEW k \in 0 .. size
        PROVE  SubSeq(digits, 1, k) \in Seq(R) /\ Number(SubSeq(digits, 1, k)) = left[size - k]
    <2> DEFINE front == SubSeq(digits, 1, k)
               f == [i \in 0 .. k |-> left[size - i]]
    <2>1. front \in Seq(R) /\ Len(front) = k /\ \A i \in 1 .. k : front[i] = digits[i]
      BY <1>4
    <2> HIDE DEF front
    <2>2. \A i \in 0 .. k : size - i \in Nat
      OBVIOUS
    <2>3. f \in [0 .. k -> Nat]
      BY Zenon, <2>2 DEF Divided
    <2>4. f[0] = 0 /\ f[k] = left[size - k]
      <3>1. 0 \in 0 .. k /\ k \in 0 .. k /\ size - 0 = size
        OBVIOUS
      <3> QED
        BY Zenon, <3>1
    <2>5. ASSUME NEW i \in 1 .. k
          PROVE  f[i] = 10 * f[i - 1] + DigitValue(front[i])
      <3>1. i \in 0 .. k /\ i - 1 \in 0 .. k /\ i \in 1 .. size
        OBVIOUS
      <3>2. f[i] = left[size - i] /\ f[i - 1] = left[size - (i - 1)] /\ front[i] = digits[i]
        BY Zenon, <2>1, <3>1
      <3> DEFINE x == left[size - i]
      <3>3. x \in Nat /\ f[i - 1] = x \div 10 /\ f[i] = x /\ DigitValue(front[i]) = x % 10
        BY Zenon, <1>1, <1>2, <3>1, <3>2
      <3> HIDE DEF x, f
      <3>4. x = 10 * (x \div 10) + (x % 10)
        BY <3>3
      <3> QED
        BY Zenon, <3>3, <3>4
    <2> HIDE DEF f
    <2>6. Number(front) = f[k]
      BY Zenon, <2>1, <2>3, <2>4, <2>5, NumberIs DEF R
    <2> QED
      BY Zenon, <2>1, <2>4, <2>6 DEF front
  <1> QED
    BY Zenon, <1>4, <1>5 DEF digits, R, FrontReads

\* Number reads what Unsigned writes.
LEMMA UnsignedRead ==
  ASSUME NEW n \in Nat
  PROVE  /\ Unsigned(n) \in Seq(Range(Digits)) /\ Len(Unsigned(n)) \in Nat \ {0}
         /\ Number(Unsigned(n)) = n
  <1>1. PICK left : \E size \in 1 .. n + 1 :
           Divided(left, n) /\ Shortest(left, size) /\ Unsigned(n) = DigitsOf(left, size)
    BY Zenon, UnsignedFacts
  <1>2. PICK size \in 1 .. n + 1 : Divided(left, n) /\ left[size] = 0 /\ Unsigned(n) = DigitsOf(left, size)
    BY Zenon, <1>1 DEF Shortest
  <1> DEFINE digits == Unsigned(n)
             R == Range(Digits)
  <1>3. size \in Nat \ {0} /\ size \in Nat /\ size \in 0 .. size /\ size - size = 0
    OBVIOUS
  <1>4. digits \in Seq(R) /\ Len(digits) = size /\ Number(SubSeq(digits, 1, size)) = left[0]
    <2>1. /\ DigitsOf(left, size) \in Seq(R) /\ Len(DigitsOf(left, size)) = size
          /\ FrontReads(left, size, size)
      BY Zenon, <1>2, <1>3, DigitsRead
    <2> QED
      BY Zenon, <1>2, <1>3, <2>1 DEF FrontReads
  <1> HIDE DEF digits, R
  <1>5. SubSeq(digits, 1, size) = digits
    BY <1>4, SubSeqFull
  <1>6. left[0] = n
    BY Zenon, <1>2 DEF Divided
  <1> QED
    BY Zenon, <1>3, <1>4, <1>5, <1>6 DEF digits, R

\* A number on the wire.
LEMMA DecimalFacts ==
  ASSUME NEW n \in Nat
  PROVE  /\ Decimal(n) = Unsigned(n) /\ Decimal(n) \in Seq(Byte) /\ Len(Decimal(n)) \in Nat \ {0}
         /\ \A i \in 1 .. Len(Decimal(n)) : Decimal(n)[i] \in Range(Digits)
  <1>1. ~(n < 0)
    OBVIOUS
  <1>2. Decimal(n) = Unsigned(n)
    BY Zenon, <1>1 DEF Decimal
  <1> DEFINE d == Unsigned(n)
             R == Range(Digits)
  <1>3. d \in Seq(R) /\ Len(d) \in Nat \ {0} /\ R \subseteq Byte
    BY Zenon, UnsignedRead, DigitFacts
  <1> HIDE DEF d, R
  <1>4. d \in Seq(Byte) /\ \A i \in 1 .. Len(d) : d[i] \in R
    BY <1>3
  <1> QED
    BY Zenon, <1>2, <1>3, <1>4 DEF d, R

-----------------------------------------------------------------------------
\* Joined.

\* What Joined has after each of the parts.
Piles(g, parts) ==
  /\ g \in [0 .. Len(parts) -> Seq(Byte)] /\ g[0] = <<>>
  /\ \A n \in 1 .. Len(parts) : g[n] = g[n - 1] \o parts[n]

\* The parts can be piled up.
LEMMA SomePile ==
  ASSUME NEW parts \in Seq(Seq(Byte))
  PROVE  \E g : Piles(g, parts)
  <1> DEFINE L == Len(parts)
             step == [n \in 1 .. L |-> [x \in Seq(Byte) |-> x \o parts[n]]]
  <1>1. L \in Nat /\ <<>> \in Seq(Byte)
    OBVIOUS
  <1>2. ASSUME NEW n \in 1 .. L, NEW x \in Seq(Byte)
        PROVE  x \o parts[n] \in Seq(Byte)
    <2>1. parts[n] \in Seq(Byte)
      BY ElementOfSeq
    <2> QED
      BY <2>1
  <1>3. \A n \in 1 .. L : \A x \in Seq(Byte) : step[n][x] \in Seq(Byte) /\ step[n][x] = x \o parts[n]
    BY Zenon, <1>2
  <1> HIDE DEF step, L
  <1>4. PICK g \in [0 .. L -> Seq(Byte)] : Rounds(g, L, <<>>, step)
    BY Zenon, <1>1, <1>3, SomeRounds
  <1>5. g[0] = <<>>
    BY Zenon, <1>4 DEF Rounds
  <1>6. ASSUME NEW n \in 1 .. L
        PROVE  g[n] = g[n - 1] \o parts[n]
    <2>1. n - 1 \in 0 .. L
      BY <1>1
    <2>2. g[n - 1] \in Seq(Byte)
      BY Zenon, <2>1
    <2> QED
      BY Zenon, <1>3, <1>4, <2>2 DEF Rounds
  <1> QED
    BY Zenon, <1>4, <1>5, <1>6 DEF Piles, L

\* Joined has all of the parts.
LEMMA JoinedIs ==
  ASSUME NEW parts \in Seq(Seq(Byte)), NEW g, Piles(g, parts)
  PROVE  Joined(parts) = g[Len(parts)]
  <1> DEFINE L == Len(parts)
             u == CHOOSE u : u = [n \in 1 .. L |-> IF n = 1 THEN parts[1] ELSE u[n - 1] \o parts[n]]
             h == [n \in 1 .. L |-> g[n]]
  <1>0. L \in Nat
    OBVIOUS
  <1>1. g[0] = <<>> /\ \A n \in 1 .. L : g[n] = g[n - 1] \o parts[n]
    BY Zenon DEF Piles
  <1>2. 1 <= L => g[1] = parts[1]
    <2> SUFFICES ASSUME 1 <= L
                 PROVE  g[1] = parts[1]
      OBVIOUS
    <2>1. 1 \in 1 .. L /\ 1 - 1 = 0
      BY <1>0
    <2>2. g[1] = <<>> \o parts[1]
      BY Zenon, <1>1, <2>1
    <2>3. parts[1] \in Seq(Byte)
      BY <2>1, ElementOfSeq
    <2> QED
      BY <2>2, <2>3
  <1>3. h = [n \in 1 .. L |-> IF n = 1 THEN parts[1] ELSE h[n - 1] \o parts[n]]
    <2>1. ASSUME NEW n \in 1 .. L
          PROVE  g[n] = IF n = 1 THEN parts[1] ELSE h[n - 1] \o parts[n]
      <3>1. CASE n = 1
        BY <1>0, <1>2, <3>1
      <3>2. CASE n # 1
        <4>1. n - 1 \in 1 .. L
          BY <1>0, <3>2
        <4>2. h[n - 1] = g[n - 1]
          BY Zenon, <4>1
        <4> QED
          BY Zenon, <1>1, <3>2, <4>2
      <3> QED
        BY Zenon, <3>1, <3>2
    <2> QED
      BY Zenon, <2>1
  <1> HIDE DEF h
  <1>4. u = [n \in 1 .. L |-> IF n = 1 THEN parts[1] ELSE u[n - 1] \o parts[n]]
    BY Zenon, <1>3
  <1>5. Joined(parts) = IF parts = <<>> THEN <<>> ELSE u[L]
    BY Zenon DEF Joined
  <1> DEFINE N == {n \in Nat : n + 1 <= L => u[n + 1] = g[n + 1]}
  <1> HIDE DEF u
  <1>6. 0 \in N
    <2> SUFFICES ASSUME 1 <= L
                 PROVE  u[1] = g[1]
      OBVIOUS
    <2>1. 1 \in 1 .. L
      BY <1>0
    <2> QED
      BY Zenon, <1>2, <1>4, <2>1
  <1>7. ASSUME NEW n \in Nat, n \in N
        PROVE  n + 1 \in N
    <2> SUFFICES ASSUME (n + 1) + 1 <= L
                 PROVE  u[(n + 1) + 1] = g[(n + 1) + 1]
      OBVIOUS
    <2>1. (n + 1) + 1 \in 1 .. L /\ (n + 1) + 1 # 1 /\ ((n + 1) + 1) - 1 = n + 1 /\ u[n + 1] = g[n + 1]
      BY <1>0, <1>7
    <2>2. u[(n + 1) + 1] = u[n + 1] \o parts[(n + 1) + 1]
      BY Zenon, <1>4, <2>1
    <2> QED
      BY Zenon, <1>1, <2>1, <2>2
  <1> HIDE DEF N
  <1>8. Nat \subseteq N
    BY Zenon, <1>6, <1>7, Induction
  <1>9. CASE parts = <<>>
    <2>1. L = 0
      BY <1>9 DEF L
    <2> QED
      BY Zenon, <1>1, <1>5, <1>9, <2>1
  <1>10. CASE parts # <<>>
    <2>1. L - 1 \in Nat /\ (L - 1) + 1 = L /\ L <= L
      BY <1>10
    <2>2. u[L] = g[L]
      BY Zenon, <1>8, <2>1 DEF N
    <2> QED
      BY Zenon, <1>5, <1>10, <2>2
  <1> QED
    BY Zenon, <1>9, <1>10

\* Joined makes bytes of bytes.
LEMMA JoinedType ==
  ASSUME NEW parts \in Seq(Seq(Byte))
  PROVE  Joined(parts) \in Seq(Byte)
  <1>1. PICK g : Piles(g, parts)
    BY Zenon, SomePile
  <1>2. Len(parts) \in 0 .. Len(parts)
    OBVIOUS
  <1>3. Joined(parts) = g[Len(parts)]
    BY Zenon, <1>1, JoinedIs
  <1> QED
    BY Zenon, <1>1, <1>2, <1>3 DEF Piles

\* x stands in front of y.
Begins(x, y) == \E rest \in Seq(Byte) : y = x \o rest

\* A pile stands in front of every later one.
LEMMA PilePrefix ==
  ASSUME NEW parts \in Seq(Seq(Byte)), NEW g, Piles(g, parts), NEW m \in 0 .. Len(parts)
  PROVE  \A n \in m .. Len(parts) : Begins(g[m], g[n])
  <1> DEFINE L == Len(parts)
             N == {k \in Nat : m + k <= L => Begins(g[m], g[m + k])}
  <1>0. L \in Nat /\ g[m] \in Seq(Byte)
    BY DEF Piles
  <1>1. 0 \in N
    <2>1. m + 0 = m /\ <<>> \in Seq(Byte) /\ g[m] = g[m] \o <<>>
      BY <1>0
    <2> QED
      BY Zenon, <2>1 DEF Begins
  <1>2. ASSUME NEW k \in Nat, k \in N
        PROVE  k + 1 \in N
    <2> SUFFICES ASSUME m + (k + 1) <= L
                 PROVE  Begins(g[m], g[m + (k + 1)])
      OBVIOUS
    <2>1. m + (k + 1) \in 1 .. L /\ (m + (k + 1)) - 1 = m + k /\ m + k <= L
      BY <1>0
    <2>2. PICK rest \in Seq(Byte) : g[m + k] = g[m] \o rest
      BY Zenon, <1>2, <2>1 DEF Begins
    <2>3. g[m + (k + 1)] = (g[m] \o rest) \o parts[m + (k + 1)]
      BY Zenon, <2>1, <2>2 DEF Piles
    <2>4. parts[m + (k + 1)] \in Seq(Byte)
      BY <2>1, ElementOfSeq
    <2> DEFINE x == g[m]
               p == parts[m + (k + 1)]
    <2>5. x \in Seq(Byte) /\ p \in Seq(Byte)
      BY Zenon, <1>0, <2>4
    <2> HIDE DEF x, p
    <2>6. rest \o p \in Seq(Byte) /\ (x \o rest) \o p = x \o (rest \o p)
      <3>1. rest \o p \in Seq(Byte)
        BY Zenon, <2>5, BothTogether
      <3>2. (x \o rest) \o p = x \o (rest \o p)
        BY Zenon, <2>5, BytesAssociative
      <3> QED
        BY Zenon, <3>1, <3>2
    <2> QED
      BY Zenon, <2>3, <2>6 DEF Begins, x, p
  <1> HIDE DEF N
  <1>3. Nat \subseteq N
    BY Zenon, <1>1, <1>2, Induction
  <1>4. ASSUME NEW n \in m .. L
        PROVE  Begins(g[m], g[n])
    <2>1. n - m \in Nat /\ m + (n - m) = n /\ n <= L
      BY <1>0
    <2> QED
      BY Zenon, <1>3, <2>1 DEF N
  <1> QED
    BY Zenon, <1>4

=============================================================================
