--------------------------- MODULE FormatsProofs ----------------------------
(***************************************************************************)
(* Proofs about KeyPattern for any keys and patterns, and about Parser for *)
(* any bytes, cut into any pieces.                                         *)
(***************************************************************************)
EXTENDS KeyPattern, Parser, ByteStringsProofs

-----------------------------------------------------------------------------
\* matchesPattern.

\* The first bytes of the pattern laid out over the first bytes of the value, so
\* that byte j of the pattern comes next at place i.
Path(at, value, pattern, j, i) ==
  /\ at \in [1 .. j -> 1 .. Len(value) + 1] /\ at[1] = 1 /\ at[j] = i
  /\ \A k \in 1 .. j - 1 : Takes(value, pattern, k, at[k], at[k + 1])

Reached(value, pattern, j, i) == \E at : Path(at, value, pattern, j, i)

\* A layout of the whole pattern.
Whole(at, value, pattern) ==
  at \in [1 .. Len(pattern) + 1 -> 1 .. Len(value) + 1] /\ Covers(at, value, pattern)

Starless(value) == "*" \notin Range(value)

\* The types of the locals, and where they may point.
Locals ==
  [value : Seq(STRING), pattern : Seq(STRING), valueIndex : Nat, patternIndex : Nat,
   starIndex : Nat, matchIndex : Nat, result : {"none", "yes", "no"}]

MatchTypes ==
  /\ match \in Locals
  /\ match.valueIndex \in 1 .. Len(match.value) + 1
  /\ match.patternIndex \in 1 .. Len(match.pattern) + 1
  /\ match.matchIndex \in 1 .. match.valueIndex
  /\ match.starIndex < match.patternIndex
  /\ match.starIndex # 0 => match.pattern[match.starIndex] = "*"

\* What has been matched is a layout, and so is what the last star has taken.
MatchSound ==
  /\ Reached(match.value, match.pattern, match.patternIndex, match.valueIndex)
  /\ match.starIndex # 0 => Reached(match.value, match.pattern, match.starIndex + 1, match.matchIndex)

\* In no layout of the whole pattern does the last star end earlier than it ends
\* now; behind it the bytes follow one another.
MatchLeast ==
  Starless(match.value) =>
    \A at : Whole(at, match.value, match.pattern) =>
      IF match.starIndex = 0 THEN at[match.patternIndex] = match.valueIndex
      ELSE /\ at[match.starIndex + 1] >= match.matchIndex
           /\ at[match.patternIndex] - at[match.starIndex + 1] = match.valueIndex - match.matchIndex

MatchInv == MatchTypes /\ MatchSound /\ MatchLeast /\ PatternDecided

\* One more byte of the pattern.
LEMMA ReachedNext ==
  ASSUME NEW value \in Seq(STRING), NEW pattern \in Seq(STRING), NEW j \in 1 .. Len(pattern),
         NEW i \in 1 .. Len(value) + 1, NEW to \in 1 .. Len(value) + 1,
         Reached(value, pattern, j, i), Takes(value, pattern, j, i, to)
  PROVE  Reached(value, pattern, j + 1, to)
  <1>1. PICK at : Path(at, value, pattern, j, i)
    BY Zenon DEF Reached
  <1> DEFINE new == [k \in 1 .. j + 1 |-> IF k = j + 1 THEN to ELSE at[k]]
  <1>2. new \in [1 .. j + 1 -> 1 .. Len(value) + 1] /\ new[1] = 1 /\ new[j + 1] = to
    BY <1>1 DEF Path
  <1>3. ASSUME NEW k \in 1 .. j
        PROVE  Takes(value, pattern, k, new[k], new[k + 1])
    <2>1. CASE k = j
      BY <1>1, <2>1 DEF Path
    <2>2. CASE k # j
      <3>1. k \in 1 .. j - 1 /\ new[k] = at[k] /\ new[k + 1] = at[k + 1]
        BY <2>2
      <3> QED
        BY Zenon, <1>1, <3>1 DEF Path
    <2> QED
      BY Zenon, <2>1, <2>2
  <1>4. (j + 1) - 1 = j
    OBVIOUS
  <1> HIDE DEF new
  <1>5. Path(new, value, pattern, j + 1, to)
    BY Zenon, <1>2, <1>3, <1>4 DEF Path
  <1> QED
    BY Zenon, <1>5 DEF Reached

\* A star takes one more byte.
LEMMA ReachedFurther ==
  ASSUME NEW value \in Seq(STRING), NEW pattern \in Seq(STRING), NEW j \in 1 .. Len(pattern),
         pattern[j] = "*", NEW i \in 1 .. Len(value), Reached(value, pattern, j + 1, i)
  PROVE  Reached(value, pattern, j + 1, i + 1)
  <1>1. PICK at : Path(at, value, pattern, j + 1, i)
    BY Zenon DEF Reached
  <1> DEFINE before == [k \in 1 .. j |-> at[k]]
  <1>2. Takes(value, pattern, j, at[j], i)
    BY <1>1 DEF Path
  <1>3. Path(before, value, pattern, j, at[j])
    BY <1>1 DEF Path
  <1> HIDE DEF before
  <1>4. Reached(value, pattern, j, at[j])
    BY Zenon, <1>3 DEF Reached
  <1>5. at[j] \in 1 .. Len(value) + 1 /\ i + 1 \in 1 .. Len(value) + 1
    BY <1>1 DEF Path
  <1>6. Takes(value, pattern, j, at[j], i + 1)
    BY <1>2, <1>5 DEF Takes
  <1> QED
    BY Zenon, <1>4, <1>5, <1>6, ReachedNext

\* The bytes of a pattern are laid out one behind the other.
LEMMA InOrder ==
  ASSUME NEW value \in Seq(STRING), NEW pattern \in Seq(STRING), NEW at, Whole(at, value, pattern),
         NEW j \in 1 .. Len(pattern) + 1, NEW q \in j .. Len(pattern) + 1
  PROVE  at[j] <= at[q]
  <1> DEFINE N == {n \in Nat : j + n <= Len(pattern) + 1 => at[j] <= at[j + n]}
  <1>1. \A k \in 1 .. Len(pattern) + 1 : at[k] \in Nat
    BY DEF Whole
  <1>2. 0 \in N
    BY <1>1
  <1>3. ASSUME NEW n \in Nat, n \in N
        PROVE  n + 1 \in N
    <2> SUFFICES ASSUME j + (n + 1) <= Len(pattern) + 1
                 PROVE  at[j] <= at[j + (n + 1)]
      OBVIOUS
    <2>1. j + n \in 1 .. Len(pattern) /\ j + (n + 1) = (j + n) + 1 /\ at[j] <= at[j + n]
      BY <1>3
    <2>2. Takes(value, pattern, j + n, at[j + n], at[(j + n) + 1])
      BY Zenon, <2>1 DEF Whole, Covers
    <2>3. at[j + n] \in Nat /\ at[(j + n) + 1] \in Nat /\ at[j] \in Nat
      BY <1>1, <2>1
    <2>4. at[j + n] <= at[(j + n) + 1]
      BY <2>2, <2>3 DEF Takes
    <2> QED
      BY <2>1, <2>3, <2>4
  <1> HIDE DEF N
  <1>4. Nat \subseteq N
    BY Zenon, <1>2, <1>3, Induction
  <1>5. q - j \in Nat /\ j + (q - j) = q
    OBVIOUS
  <1> QED
    BY <1>4, <1>5 DEF N

\* matchesPattern begins at the first bytes.
LEMMA InitMatchInv == PatternInit => MatchInv
  <1> SUFFICES ASSUME PatternInit
               PROVE  MatchInv
    OBVIOUS
  <1>1. PICK q \in Queries : match = Query(q[1], q[2])
    BY Zenon DEF PatternInit
  <1>2. q[1] \in Seq(STRING) /\ q[2] \in Seq(STRING)
    BY QueriesAssumption
  <1>3. match = [value |-> q[1], pattern |-> q[2], valueIndex |-> 1, patternIndex |-> 1,
                 starIndex |-> 0, matchIndex |-> 1, result |-> "none"]
    BY Zenon, <1>1 DEF Query
  <1>4. MatchTypes
    BY <1>2, <1>3 DEF MatchTypes, Locals
  <1>5. MatchSound
    <2> DEFINE at == [k \in 1 .. 1 |-> 1]
    <2>1. Path(at, match.value, match.pattern, 1, 1)
      BY <1>2, <1>3 DEF Path
    <2> QED
      BY <1>3, <2>1 DEF MatchSound, Reached
  <1>6. MatchLeast
    BY <1>2, <1>3 DEF MatchLeast, Whole, Covers
  <1>7. PatternDecided
    BY <1>3 DEF PatternDecided
  <1> QED
    BY Zenon, <1>4, <1>5, <1>6, <1>7 DEF MatchInv

\* What an undecided search knows of its locals.
LEMMA MatchFacts ==
  ASSUME MatchTypes
  PROVE  /\ match.value \in Seq(STRING) /\ match.pattern \in Seq(STRING)
         /\ match.valueIndex \in Nat /\ match.patternIndex \in Nat
         /\ match.starIndex \in Nat /\ match.matchIndex \in Nat
         /\ Len(match.value) \in Nat /\ Len(match.pattern) \in Nat
  BY DEF MatchTypes, Locals

\* Layouts consist of places.
LEMMA LaidOut ==
  ASSUME NEW value \in Seq(STRING), NEW pattern \in Seq(STRING), NEW at, Whole(at, value, pattern),
         NEW j \in 1 .. Len(pattern) + 1
  PROVE  at[j] \in Nat /\ at[j] \in 1 .. Len(value) + 1
  BY DEF Whole

\* Without stars in the value, a byte of the pattern that is taken for a byte of
\* the value is not a star.
LEMMA NoStarAgrees ==
  ASSUME MatchTypes, Starless(match.value), InValue, BytesAgree
  PROVE  match.pattern[match.patternIndex] # "*"
  <1>1. match.value[match.valueIndex] \in Range(match.value)
    BY DEF MatchTypes, InValue, Range
  <1> QED
    BY <1>1 DEF BytesAgree, Starless

\* The next byte agrees.
LEMMA MatchByteInv ==
  ASSUME MatchInv, MatchByte
  PROVE  MatchInv'
  <1> DEFINE v == match.value
             p == match.pattern
             i == match.valueIndex
             j == match.patternIndex
  <1>1. /\ MatchTypes /\ MatchSound /\ MatchLeast /\ InValue /\ BytesAgree
        /\ match' = [match EXCEPT !.valueIndex = @ + 1, !.patternIndex = @ + 1]
    BY Zenon DEF MatchInv, MatchByte
  <1>2. /\ match'.value = v /\ match'.pattern = p /\ match'.result = "none"
        /\ match'.valueIndex = i + 1 /\ match'.patternIndex = j + 1
        /\ match'.starIndex = match.starIndex /\ match'.matchIndex = match.matchIndex
    BY <1>1 DEF MatchTypes, Locals, InValue
  <1>3. i \in 1 .. Len(v) /\ j \in 1 .. Len(p)
    BY <1>1, MatchFacts DEF MatchTypes, InValue, BytesAgree, InPattern
  <1>4. MatchTypes'
    <2>1. match' \in Locals
      <3>1. match \in Locals /\ i + 1 \in Nat /\ j + 1 \in Nat
        BY <1>1, MatchFacts DEF MatchTypes
      <3> QED
        BY Zenon, <1>1, <3>1 DEF Locals
    <2>2. i + 1 \in 1 .. Len(v) + 1 /\ j + 1 \in 1 .. Len(p) + 1 /\ match.starIndex < j + 1
          /\ match.matchIndex \in 1 .. i + 1
      <3> DEFINE star == match.starIndex
                 taken == match.matchIndex
                 m == Len(v)
                 n == Len(p)
      <3>1. star \in Nat /\ taken \in Nat /\ m \in Nat /\ n \in Nat /\ star < j /\ taken \in 1 .. i
            /\ i \in 1 .. m /\ j \in 1 .. n
        BY Zenon, <1>1, <1>3, MatchFacts DEF MatchTypes
      <3> HIDE DEF star, taken, m, n, i, j
      <3>2. i + 1 \in 1 .. m + 1 /\ j + 1 \in 1 .. n + 1 /\ star < j + 1 /\ taken \in 1 .. i + 1
        BY <3>1
      <3> QED
        BY Zenon, <3>2 DEF star, taken, m, n
    <2> QED
      BY Zenon, <1>1, <1>2, <2>1, <2>2 DEF MatchTypes
  <1>5. MatchSound'
    <2>1. Takes(v, p, j, i, i + 1)
      BY <1>1, <1>3 DEF Takes, BytesAgree
    <2>2. i \in 1 .. Len(v) + 1 /\ i + 1 \in 1 .. Len(v) + 1
      BY <1>1, <1>3, MatchFacts
    <2>3. Reached(v, p, j + 1, i + 1)
      BY Zenon, <1>1, <1>3, <2>1, <2>2, ReachedNext, MatchFacts DEF MatchSound
    <2> QED
      BY Zenon, <1>1, <1>2, <2>3 DEF MatchSound
  <1>6. MatchLeast'
    <2> SUFFICES ASSUME Starless(v), NEW at, Whole(at, v, p)
                 PROVE  IF match.starIndex = 0 THEN at[j + 1] = i + 1
                        ELSE /\ at[match.starIndex + 1] >= match.matchIndex
                             /\ at[j + 1] - at[match.starIndex + 1] = (i + 1) - match.matchIndex
      BY Zenon, <1>2 DEF MatchLeast
    <2>1. p[j] # "*"
      BY Zenon, <1>1, NoStarAgrees
    <2>2. at[j + 1] = at[j] + 1
      BY Zenon, <1>3, <2>1 DEF Whole, Covers, Takes
    <2>3. IF match.starIndex = 0 THEN at[j] = i
          ELSE /\ at[match.starIndex + 1] >= match.matchIndex
               /\ at[j] - at[match.starIndex + 1] = i - match.matchIndex
      BY Zenon, <1>1 DEF MatchLeast
    <2>5. j \in 1 .. Len(p) + 1 /\ match.starIndex + 1 \in 1 .. Len(p) + 1
      BY SMTT(30), <1>1, MatchFacts DEF MatchTypes
    <2>4. at[j] \in Nat /\ at[match.starIndex + 1] \in Nat
      BY Zenon, <1>1, <2>5, LaidOut, MatchFacts
    <2>6. i \in Nat /\ match.matchIndex \in Nat
      BY Zenon, <1>1, MatchFacts
    <2> QED
      BY <2>2, <2>3, <2>4, <2>6
  <1>7. PatternDecided'
    BY <1>2 DEF PatternDecided
  <1> QED
    BY Zenon, <1>4, <1>5, <1>6, <1>7 DEF MatchInv

\* A star is met and takes nothing yet.
LEMMA MatchStarInv ==
  ASSUME MatchInv, MatchStar
  PROVE  MatchInv'
  <1> DEFINE v == match.value
             p == match.pattern
             i == match.valueIndex
             j == match.patternIndex
  <1>1. /\ MatchTypes /\ MatchSound /\ MatchLeast /\ InValue /\ AtStar
        /\ match' = [match EXCEPT !.starIndex = match.patternIndex, !.patternIndex = @ + 1,
                                  !.matchIndex = match.valueIndex]
    BY Zenon DEF MatchInv, MatchStar
  <1>2. /\ match'.value = v /\ match'.pattern = p /\ match'.result = "none"
        /\ match'.valueIndex = i /\ match'.patternIndex = j + 1
        /\ match'.starIndex = j /\ match'.matchIndex = i
    BY <1>1 DEF MatchTypes, Locals, InValue
  <1>3. i \in 1 .. Len(v) /\ j \in 1 .. Len(p) /\ j # 0 /\ p[j] = "*"
    BY <1>1, MatchFacts DEF MatchTypes, InValue, AtStar, InPattern
  <1>4. MatchTypes'
    <2>1. match' \in Locals
      <3>1. match \in Locals /\ i \in Nat /\ j \in Nat /\ j + 1 \in Nat
        BY <1>1, MatchFacts DEF MatchTypes
      <3> QED
        BY Zenon, <1>1, <3>1 DEF Locals
    <2>2. i \in 1 .. Len(v) + 1 /\ j + 1 \in 1 .. Len(p) + 1 /\ j < j + 1 /\ i \in 1 .. i
      BY SMTT(30), <1>1, <1>3, MatchFacts
    <2> QED
      BY Zenon, <1>2, <1>3, <2>1, <2>2 DEF MatchTypes
  <1>5. MatchSound'
    <2>1. Takes(v, p, j, i, i) /\ i \in 1 .. Len(v) + 1
      BY <1>1, <1>3, MatchFacts DEF Takes
    <2>2. Reached(v, p, j + 1, i)
      BY Zenon, <1>1, <1>3, <2>1, ReachedNext, MatchFacts DEF MatchSound
    <2> QED
      BY Zenon, <1>2, <2>2 DEF MatchSound
  <1>6. MatchLeast'
    <2> SUFFICES ASSUME Starless(v), NEW at, Whole(at, v, p)
                 PROVE  at[j + 1] >= i /\ at[j + 1] - at[j + 1] = i - i
      BY Zenon, <1>2, <1>3 DEF MatchLeast
    <2>1. IF match.starIndex = 0 THEN at[j] = i
          ELSE /\ at[match.starIndex + 1] >= match.matchIndex
               /\ at[j] - at[match.starIndex + 1] = i - match.matchIndex
      BY Zenon, <1>1 DEF MatchLeast
    <2>2. /\ j \in 1 .. Len(p) + 1 /\ j + 1 \in 1 .. Len(p) + 1 /\ j + 1 \in j .. Len(p) + 1
          /\ match.starIndex + 1 \in 1 .. Len(p) + 1
      BY SMTT(30), <1>1, <1>3, MatchFacts DEF MatchTypes
    <2>3. at[j] \in Nat /\ at[match.starIndex + 1] \in Nat /\ at[j + 1] \in Nat
      BY Zenon, <1>1, <2>2, LaidOut, MatchFacts
    <2>4. at[j] <= at[j + 1]
      BY Zenon, <1>1, <2>2, InOrder, MatchFacts
    <2>5. i \in Nat /\ match.matchIndex \in Nat
      BY Zenon, <1>1, MatchFacts
    <2> QED
      BY <2>1, <2>3, <2>4, <2>5
  <1>7. PatternDecided'
    BY <1>2 DEF PatternDecided
  <1> QED
    BY Zenon, <1>4, <1>5, <1>6, <1>7 DEF MatchInv

\* A layout of the whole pattern does not have the next byte where it failed.
LEMMA NotHere ==
  ASSUME MatchTypes, InValue, ~BytesAgree, ~AtStar, NEW at, Whole(at, match.value, match.pattern)
  PROVE  at[match.patternIndex] # match.valueIndex
  <1> DEFINE v == match.value
             p == match.pattern
             i == match.valueIndex
             j == match.patternIndex
  <1> SUFFICES ASSUME at[j] = i
               PROVE  FALSE
    OBVIOUS
  <1>1. i \in Nat /\ j \in 1 .. Len(p) + 1 /\ Len(p) \in Nat /\ Len(v) \in Nat /\ i <= Len(v)
    BY MatchFacts DEF MatchTypes, InValue
  <1>2. CASE j \in 1 .. Len(p)
    <2>1. Takes(v, p, j, i, at[j + 1])
      BY Zenon, <1>2 DEF Whole, Covers
    <2>2. InPattern
      BY <1>1, <1>2 DEF InPattern
    <2> QED
      BY Zenon, <2>1, <2>2 DEF Takes, BytesAgree, AtStar
  <1>3. CASE j = Len(p) + 1
    BY <1>1, <1>3 DEF Whole, Covers
  <1> QED
    BY <1>1, <1>2, <1>3

\* The last star takes one more byte.
LEMMA BacktrackInv ==
  ASSUME MatchInv, Backtrack
  PROVE  MatchInv'
  <1> DEFINE v == match.value
             p == match.pattern
             i == match.valueIndex
             j == match.patternIndex
             s == match.starIndex
             m == match.matchIndex
  <1>1. /\ MatchTypes /\ MatchSound /\ MatchLeast /\ InValue /\ ~BytesAgree /\ ~AtStar /\ s # 0
        /\ match' = [match EXCEPT !.patternIndex = match.starIndex + 1,
                                  !.matchIndex = @ + 1, !.valueIndex = match.matchIndex + 1]
    BY Zenon DEF MatchInv, Backtrack
  <1>2. /\ match'.value = v /\ match'.pattern = p /\ match'.result = "none"
        /\ match'.valueIndex = m + 1 /\ match'.patternIndex = s + 1
        /\ match'.starIndex = s /\ match'.matchIndex = m + 1
    BY <1>1 DEF MatchTypes, Locals, InValue
  <1>3. m \in 1 .. Len(v) /\ s \in 1 .. Len(p) /\ p[s] = "*"
    BY SMTT(30), <1>1, MatchFacts DEF MatchTypes, InValue
  <1>4. MatchTypes'
    <2>1. match' \in Locals
      <3>1. match \in Locals /\ s + 1 \in Nat /\ m + 1 \in Nat
        BY SMTT(30), <1>1, MatchFacts DEF MatchTypes
      <3> QED
        BY Zenon, <1>1, <3>1 DEF Locals
    <2>2. m + 1 \in 1 .. Len(v) + 1 /\ s + 1 \in 1 .. Len(p) + 1 /\ s < s + 1 /\ m + 1 \in 1 .. m + 1
      BY SMTT(30), <1>1, <1>3, MatchFacts
    <2> QED
      BY Zenon, <1>2, <1>3, <2>1, <2>2 DEF MatchTypes
  <1>5. MatchSound'
    <2>1. Reached(v, p, s + 1, m + 1)
      BY Zenon, <1>1, <1>3, ReachedFurther, MatchFacts DEF MatchSound
    <2> QED
      BY Zenon, <1>2, <2>1 DEF MatchSound
  <1>6. MatchLeast'
    <2> SUFFICES ASSUME Starless(v), NEW at, Whole(at, v, p)
                 PROVE  at[s + 1] >= m + 1 /\ at[s + 1] - at[s + 1] = (m + 1) - (m + 1)
      BY Zenon, <1>1, <1>2 DEF MatchLeast
    <2>1. at[s + 1] >= m /\ at[j] - at[s + 1] = i - m
      BY Zenon, <1>1 DEF MatchLeast
    <2>2. j \in 1 .. Len(p) + 1 /\ s + 1 \in 1 .. Len(p) + 1
      BY <1>1, <1>3, MatchFacts DEF MatchTypes
    <2>3. at[j] \in Nat /\ at[s + 1] \in Nat
      BY Zenon, <1>1, <2>2, LaidOut, MatchFacts
    <2>4. at[j] # i
      BY Zenon, <1>1, NotHere
    <2>5. i \in Nat /\ m \in Nat
      BY Zenon, <1>1, MatchFacts
    <2> QED
      BY <2>1, <2>3, <2>4, <2>5
  <1>7. PatternDecided'
    BY <1>2 DEF PatternDecided
  <1> QED
    BY Zenon, <1>4, <1>5, <1>6, <1>7 DEF MatchInv

\* A verdict leaves the rest as it is.
LEMMA VerdictInv ==
  ASSUME MatchInv, NEW verdict \in {"yes", "no"}, match' = [match EXCEPT !.result = verdict],
         verdict = "yes" => Glob(match.value, match.pattern),
         verdict = "no" /\ Starless(match.value) => ~Glob(match.value, match.pattern)
  PROVE  MatchInv'
  <1>1. match \in Locals /\ MatchTypes /\ MatchSound /\ MatchLeast
    BY Zenon DEF MatchInv, MatchTypes
  <1>2. /\ match'.value = match.value /\ match'.pattern = match.pattern /\ match'.result = verdict
        /\ match'.valueIndex = match.valueIndex /\ match'.patternIndex = match.patternIndex
        /\ match'.starIndex = match.starIndex /\ match'.matchIndex = match.matchIndex
    BY <1>1 DEF Locals
  <1>3. match' \in Locals
    BY Zenon, <1>1 DEF Locals
  <1>4. MatchTypes'
    BY Zenon, <1>1, <1>2, <1>3 DEF MatchTypes
  <1>5. MatchSound'
    BY Zenon, <1>1, <1>2 DEF MatchSound
  <1>6. MatchLeast'
    BY Zenon, <1>1, <1>2 DEF MatchLeast
  <1>7. PatternDecided'
    BY Zenon, <1>2 DEF PatternDecided, Starless
  <1> QED
    BY Zenon, <1>4, <1>5, <1>6, <1>7 DEF MatchInv

\* No star to go back to.
LEMMA MismatchInv ==
  ASSUME MatchInv, Mismatch
  PROVE  MatchInv'
  <1>1. /\ MatchTypes /\ MatchLeast /\ InValue /\ ~BytesAgree /\ ~AtStar /\ match.starIndex = 0
        /\ match' = [match EXCEPT !.result = "no"]
    BY Zenon DEF MatchInv, Mismatch
  <1>2. ASSUME Starless(match.value), Glob(match.value, match.pattern)
        PROVE  FALSE
    <2>1. PICK at : Whole(at, match.value, match.pattern)
      BY Zenon, <1>2 DEF Glob, Whole
    <2>2. at[match.patternIndex] = match.valueIndex
      <3>1. IF match.starIndex = 0 THEN at[match.patternIndex] = match.valueIndex
            ELSE /\ at[match.starIndex + 1] >= match.matchIndex
                 /\ at[match.patternIndex] - at[match.starIndex + 1] = match.valueIndex - match.matchIndex
        BY Zenon, <1>1, <1>2, <2>1 DEF MatchLeast
      <3> QED
        BY <1>1, <3>1
    <2> QED
      BY Zenon, <1>1, <2>1, <2>2, NotHere
  <1> QED
    BY Zenon, <1>1, <1>2, VerdictInv

\* The stars that are left take nothing.
LEMMA StarsLeft ==
  ASSUME NEW value \in Seq(STRING), NEW pattern \in Seq(STRING), NEW j \in 1 .. Len(pattern) + 1,
         Reached(value, pattern, j, Len(value) + 1),
         \A q \in j .. Len(pattern) : pattern[q] = "*"
  PROVE  Glob(value, pattern)
  <1> DEFINE end == Len(value) + 1
  <1>1. PICK at : Path(at, value, pattern, j, end)
    BY Zenon DEF Reached
  <1> DEFINE all == [k \in 1 .. Len(pattern) + 1 |-> IF k <= j THEN at[k] ELSE end]
  <1>2. /\ all \in [1 .. Len(pattern) + 1 -> 1 .. end] /\ all[1] = 1
        /\ all[Len(pattern) + 1] = end
    BY <1>1 DEF Path
  <1>3. ASSUME NEW k \in 1 .. Len(pattern)
        PROVE  Takes(value, pattern, k, all[k], all[k + 1])
    <2>1. CASE k < j
      <3>1. k \in 1 .. j - 1 /\ all[k] = at[k] /\ all[k + 1] = at[k + 1]
        BY <2>1
      <3> QED
        BY Zenon, <1>1, <3>1 DEF Path
    <2>2. CASE k >= j
      <3>1. all[k] = end /\ all[k + 1] = end /\ pattern[k] = "*"
        BY <1>1, <2>2 DEF Path
      <3> QED
        BY <3>1 DEF Takes
    <2> QED
      BY <2>1, <2>2
  <1> HIDE DEF all
  <1> QED
    BY Zenon, <1>2, <1>3 DEF Glob, Covers

\* The bytes that are left of the pattern.
LEMMA RestOf ==
  ASSUME NEW pattern \in Seq(STRING), NEW j \in 1 .. Len(pattern) + 1
  PROVE  (Range(SubSeq(pattern, j, Len(pattern))) \subseteq {"*"}) <=> (\A q \in j .. Len(pattern) : pattern[q] = "*")
  <1> DEFINE rest == SubSeq(pattern, j, Len(pattern))
  <1>1. /\ DOMAIN rest = 1 .. Len(pattern) - j + 1
        /\ \A k \in 1 .. Len(pattern) - j + 1 : rest[k] = pattern[k + j - 1]
    OBVIOUS
  <1>2. \A q \in j .. Len(pattern) : q - j + 1 \in DOMAIN rest /\ rest[q - j + 1] = pattern[q]
    BY <1>1
  <1>3. \A k \in DOMAIN rest : k + j - 1 \in j .. Len(pattern) /\ rest[k] = pattern[k + j - 1]
    BY <1>1
  <1> HIDE DEF rest
  <1>4. (Range(rest) \subseteq {"*"}) <=> (\A q \in j .. Len(pattern) : pattern[q] = "*")
    BY Zenon, <1>2, <1>3 DEF Range
  <1> QED
    BY Zenon, <1>4 DEF rest

\* At the end of the value only stars may be left.
LEMMA EndOfValueInv ==
  ASSUME MatchInv, EndOfValue
  PROVE  MatchInv'
  <1> DEFINE v == match.value
             p == match.pattern
             i == match.valueIndex
             j == match.patternIndex
             stars == \A q \in j .. Len(p) : p[q] = "*"
  <1>1. /\ MatchTypes /\ MatchSound /\ MatchLeast /\ match.result = "none" /\ ~InValue
        /\ match' = [match EXCEPT !.result = IF Range(SubSeq(p, j, Len(p))) \subseteq {"*"} THEN "yes" ELSE "no"]
    BY Zenon DEF MatchInv, EndOfValue
  <1>2. i = Len(v) + 1 /\ j \in 1 .. Len(p) + 1 /\ Len(p) \in Nat /\ Len(v) \in Nat
    BY <1>1, MatchFacts DEF MatchTypes, InValue
  <1>3. match' = [match EXCEPT !.result = IF stars THEN "yes" ELSE "no"]
    BY Zenon, <1>1, <1>2, RestOf, MatchFacts
  <1>4. stars => Glob(v, p)
    BY Zenon, <1>1, <1>2, StarsLeft, MatchFacts DEF MatchSound
  <1>5. ASSUME ~stars, Starless(v), Glob(v, p)
        PROVE  FALSE
    <2>1. PICK at : Whole(at, v, p)
      BY Zenon, <1>5 DEF Glob, Whole
    <2>2. PICK q \in j .. Len(p) : p[q] # "*"
      BY Zenon, <1>5
    <2>3. IF match.starIndex = 0 THEN at[j] = i
          ELSE /\ at[match.starIndex + 1] >= match.matchIndex
               /\ at[j] - at[match.starIndex + 1] = i - match.matchIndex
      BY Zenon, <1>1, <1>5, <2>1 DEF MatchLeast
    <2>4. /\ q \in 1 .. Len(p) /\ q \in j .. Len(p) + 1 /\ q \in 1 .. Len(p) + 1 /\ q + 1 \in 1 .. Len(p) + 1
          /\ match.starIndex + 1 \in 1 .. Len(p) + 1
      BY SMTT(30), <1>1, <1>2, MatchFacts DEF MatchTypes
    <2>5. /\ at[j] \in Nat /\ at[q] \in Nat /\ at[match.starIndex + 1] \in Nat
          /\ at[q + 1] \in 1 .. Len(v) + 1
      BY Zenon, <1>1, <1>2, <2>1, <2>4, LaidOut, MatchFacts
    <2>6. at[j] <= at[q]
      BY Zenon, <1>1, <1>2, <2>1, <2>4, InOrder, MatchFacts
    <2>7. at[q + 1] = at[q] + 1
      BY Zenon, <2>1, <2>2, <2>4 DEF Whole, Covers, Takes
    <2>8. i \in Nat /\ match.matchIndex \in Nat /\ Len(v) \in Nat
      BY Zenon, <1>1, MatchFacts
    <2>9. at[j] >= i
      BY SMTT(30), <2>3, <2>5, <2>8
    <2> HIDE DEF v, i, j, stars
    <2> QED
      BY <1>2, <2>5, <2>6, <2>7, <2>8, <2>9
  <1> HIDE DEF stars
  <1>6. CASE stars
    BY Zenon, <1>3, <1>4, <1>6, VerdictInv
  <1>7. CASE ~stars
    BY Zenon, <1>3, <1>5, <1>7, VerdictInv
  <1> QED
    BY Zenon, <1>6, <1>7

\* matchesPattern decides what a pattern means, for keys and patterns of any
\* length: what is reported matches, and a key without a star that is not
\* reported does not.
THEOREM PatternTheorem == PatternSpec => []PatternDecided
  <1>1. ASSUME MatchInv, [PatternNext]_match
        PROVE  MatchInv'
    <2>1. CASE UNCHANGED match
      BY Zenon, <1>1, <2>1 DEF MatchInv, MatchTypes, MatchSound, MatchLeast, PatternDecided
    <2> QED
      BY Zenon, <1>1, <2>1, MatchByteInv, MatchStarInv, BacktrackInv, MismatchInv, EndOfValueInv
         DEF PatternNext
  <1>2. MatchInv => PatternDecided
    BY Zenon DEF MatchInv
  <1> QED
    BY InitMatchInv, <1>1, <1>2, PTL DEF PatternSpec

-----------------------------------------------------------------------------
\* More about bytes and numbers, and about what a longer stream shows.

\* A bounded set of naturals has a greatest element.
LEMMA MaxFacts ==
  ASSUME NEW L \in Nat, NEW T, T \subseteq 0 .. L, T # {}
  PROVE  Max(T) \in T /\ \A y \in T : y <= Max(T)
  <1> DEFINE U == {L - y : y \in T}
  <1>1. U \subseteq Nat /\ U # {}
    <2>1. \A y \in 0 .. L : L - y \in Nat
      OBVIOUS
    <2> QED
      BY Zenon, <2>1
  <1>2. PICK u \in U : \A v \in U : u <= v
    BY Zenon, <1>1, Least
  <1>3. PICK x \in T : u = L - x
    BY Zenon, <1>2
  <1>4. \A y \in T : L - y \in U
    BY Zenon
  <1> HIDE DEF U
  <1>5. \A y \in T : x >= y
    BY <1>2, <1>3, <1>4
  <1>6. Max(T) \in T /\ \A y \in T : Max(T) >= y
    BY Zenon, <1>5 DEF Max
  <1> QED
    BY <1>6

\* A number below the end has one behind it.
LEMMA BelowEnd ==
  ASSUME NEW L \in Nat, NEW M \in 0 .. L, M # L
  PROVE  M + 1 \in 1 .. L /\ M + 1 \in 0 .. L /\ L \in M + 1 .. L /\ (M + 1) - 1 = M /\ M < L
  OBVIOUS

\* What lies in the first of two sequences.
LEMMA InFront ==
  ASSUME NEW b \in Seq(Byte), NEW c \in Seq(Byte), NEW m \in Nat \ {0}, NEW n \in Int, n <= Len(b)
  PROVE  SubSeq(b \o c, m, n) = SubSeq(b, m, n) /\ SubSeq(b, m, n) \in Seq(Byte)
  <1>1. \A i \in m .. n : b[i] \in Byte /\ (b \o c)[i] = b[i]
    OBVIOUS
  <1>2. /\ SubSeq(b, m, n) \in Seq(Byte) /\ SubSeq(b \o c, m, n) \in Seq(Byte)
        /\ Len(SubSeq(b, m, n)) = Len(SubSeq(b \o c, m, n))
        /\ Len(SubSeq(b, m, n)) = IF m <= n THEN n - m + 1 ELSE 0
        /\ \A i \in 1 .. n - m + 1 : SubSeq(b, m, n)[i] = b[m + i - 1] /\ SubSeq(b \o c, m, n)[i] = (b \o c)[m + i - 1]
    BY <1>1, SubSeqProperties
  <1>3. ASSUME NEW i \in 1 .. Len(SubSeq(b, m, n))
        PROVE  SubSeq(b, m, n)[i] = SubSeq(b \o c, m, n)[i]
    <2>1. i \in 1 .. n - m + 1 /\ m + i - 1 \in m .. n
      BY <1>2
    <2> QED
      BY Zenon, <1>1, <1>2, <2>1
  <1> QED
    BY <1>2, <1>3, SeqEqual

\* What is left behind the first bytes.
LEMMA Behind ==
  ASSUME NEW b \in Seq(Byte), NEW c \in Seq(Byte), NEW k \in 0 .. Len(b)
  PROVE  /\ SubSeq(b, k + 1, Len(b)) \in Seq(Byte) /\ Len(SubSeq(b, k + 1, Len(b))) = Len(b) - k
         /\ SubSeq(b \o c, k + 1, Len(b \o c)) = SubSeq(b, k + 1, Len(b)) \o c
  <1> DEFINE r == SubSeq(b, k + 1, Len(b))
             t == SubSeq(b \o c, k + 1, Len(b \o c))
  <1>1. /\ r \in Seq(Byte) /\ Len(r) = Len(b) - k /\ \A i \in 1 .. Len(b) - k : r[i] = b[k + i]
    OBVIOUS
  <1>2. /\ t \in Seq(Byte) /\ Len(t) = (Len(b) - k) + Len(c)
        /\ \A i \in 1 .. (Len(b) - k) + Len(c) : t[i] = (b \o c)[k + i]
    <2>1. b \o c \in Seq(Byte) /\ Len(b \o c) = Len(b) + Len(c)
      OBVIOUS
    <2> QED
      BY <2>1
  <1>3. /\ r \o c \in Seq(Byte) /\ Len(r \o c) = (Len(b) - k) + Len(c)
        /\ \A i \in 1 .. (Len(b) - k) + Len(c) :
             (r \o c)[i] = IF i <= Len(b) - k THEN r[i] ELSE c[i - (Len(b) - k)]
    BY <1>1
  <1> HIDE DEF r, t
  <1>4. ASSUME NEW i \in 1 .. (Len(b) - k) + Len(c)
        PROVE  t[i] = (r \o c)[i]
    <2>1. t[i] = (b \o c)[k + i] /\ (r \o c)[i] = IF i <= Len(b) - k THEN r[i] ELSE c[i - (Len(b) - k)]
      BY SMTT(30), <1>2, <1>3
    <2>2. (b \o c)[k + i] = IF i <= Len(b) - k THEN b[k + i] ELSE c[k + i - Len(b)]
      OBVIOUS
    <2>3. k + i - Len(b) = i - (Len(b) - k)
      OBVIOUS
    <2>4. i <= Len(b) - k => r[i] = b[k + i]
      BY <1>1
    <2> QED
      BY Zenon, <2>1, <2>2, <2>3, <2>4
  <1>5. t = r \o c
    BY SMTT(30), <1>2, <1>3, <1>4, SeqEqual
  <1> QED
    BY Zenon, <1>1, <1>5 DEF r, t

\* What one more recv makes of the bytes received.
LEMMA PrefixGrows ==
  ASSUME NEW b \in Seq(Byte), NEW k \in 0 .. Len(b), NEW n \in Nat, k + n <= Len(b)
  PROVE  /\ SubSeq(b, 1, k) \in Seq(Byte) /\ SubSeq(b, k + 1, k + n) \in Seq(Byte)
         /\ SubSeq(b, 1, k + n) = SubSeq(b, 1, k) \o SubSeq(b, k + 1, k + n)
  <1> DEFINE x == SubSeq(b, 1, k)
             y == SubSeq(b, k + 1, k + n)
             z == SubSeq(b, 1, k + n)
  <1>1. x \in Seq(Byte) /\ Len(x) = k /\ \A i \in 1 .. k : x[i] = b[i]
    OBVIOUS
  <1>2. y \in Seq(Byte) /\ Len(y) = n /\ \A i \in 1 .. n : y[i] = b[k + i]
    BY SMTT(30)
  <1>3. z \in Seq(Byte) /\ Len(z) = k + n /\ \A i \in 1 .. k + n : z[i] = b[i]
    OBVIOUS
  <1> HIDE DEF x, y, z
  <1>4. x \o y \in Seq(Byte) /\ Len(x \o y) = k + n
    <2>1. x \in Seq(Byte) /\ y \in Seq(Byte) /\ Len(x) = k /\ Len(y) = n
      BY Zenon, <1>1, <1>2
    <2> QED
      BY SMTT(30), <2>1
  <1>5. ASSUME NEW i \in 1 .. k + n
        PROVE  z[i] = (x \o y)[i]
    <2>1. CASE i <= k
      <3>1. i \in 1 .. k
        BY <2>1
      <3>2. (x \o y)[i] = x[i]
        BY <1>1, <1>2, <3>1
      <3> QED
        BY Zenon, <1>1, <1>3, <3>1, <3>2
    <2>2. CASE i > k
      <3>1. i - k \in 1 .. n /\ k + (i - k) = i
        BY <2>2
      <3>2. (x \o y)[i] = y[i - k]
        BY <1>1, <1>2, <2>2
      <3>3. y[i - k] = b[k + (i - k)]
        BY Zenon, <1>2, <3>1
      <3> QED
        BY Zenon, <1>3, <3>1, <3>2, <3>3
    <2>3. i <= k \/ i > k
      OBVIOUS
    <2> QED
      BY Zenon, <2>1, <2>2, <2>3
  <1>6. z = x \o y
    BY SMTT(30), <1>3, <1>4, <1>5, SeqEqual
  <1> QED
    BY Zenon, <1>1, <1>2, <1>6 DEF x, y, z

\* More bytes behind do not move it.
LEMMA FindStable ==
  ASSUME NEW b \in Seq(Byte), NEW c \in Seq(Byte), NEW what \in Seq(Byte),
         NEW at \in Nat \ {0}, Find(b, what, at) # 0
  PROVE  Find(b \o c, what, at) = Find(b, what, at)
  <1> DEFINE f == Find(b, what, at)
  <1>1. FirstAt(b, what, at, f)
    BY Zenon, FindFacts
  <1> HIDE DEF f
  <1>2. ASSUME NEW i \in at .. f
        PROVE  SubSeq(b \o c, i, i + Len(what) - 1) = SubSeq(b, i, i + Len(what) - 1)
    <2>1. i \in Nat \ {0} /\ i + Len(what) - 1 \in Int /\ i + Len(what) - 1 <= Len(b)
      BY <1>1 DEF FirstAt
    <2> QED
      BY <2>1, InFront
  <1>3. b \o c \in Seq(Byte) /\ f \in at .. Len(b \o c) - Len(what) + 1 /\ f \in at .. f
    BY <1>1 DEF FirstAt
  <1>4. \A i \in at .. f - 1 : i \in at .. f
    BY <1>1 DEF FirstAt
  <1>5. FirstAt(b \o c, what, at, f)
    BY Zenon, <1>1, <1>2, <1>3, <1>4 DEF FirstAt
  <1>6. Find(b \o c, what, at) = f
    BY Zenon, <1>3, <1>5, FindUnique
  <1> QED
    BY <1>6 DEF f

\* A buffer stands in itself.
LEMMA OccursWhole ==
  ASSUME NEW b \in Seq(Byte)
  PROVE  Occurs(b, 1, b)
  BY DEF Occurs

\* Digits make a natural number.
LEMMA NumberNat ==
  ASSUME NEW digits \in Seq(Range(Digits))
  PROVE  Number(digits) \in Nat
  <1> DEFINE L == Len(digits)
             step == [n \in 1 .. L |-> [x \in Nat |-> 10 * x + DigitValue(digits[n])]]
  <1>1. L \in Nat
    OBVIOUS
  <1>2. ASSUME NEW n \in 1 .. L
        PROVE  DigitValue(digits[n]) \in 0 .. 9
    <2>1. digits[n] \in Range(Digits)
      BY ElementOfSeq
    <2> QED
      BY Zenon, <2>1, DigitFacts
  <1>3. \A n \in 1 .. L : \A x \in Nat : step[n][x] \in Nat /\ step[n][x] = 10 * x + DigitValue(digits[n])
    <2> TAKE n \in 1 .. L
    <2> TAKE x \in Nat
    <2>1. 10 * x + DigitValue(digits[n]) \in Nat
      BY SMTT(30), <1>2
    <2> QED
      BY Zenon, <2>1
  <1> HIDE DEF step, L
  <1>4. PICK f \in [0 .. L -> Nat] : Rounds(f, L, 0, step)
    BY Zenon, <1>1, <1>3, SomeRounds
  <1>5. f[0] = 0 /\ L \in 0 .. L
    BY <1>1, <1>4 DEF Rounds
  <1>6. ASSUME NEW n \in 1 .. L
        PROVE  f[n] = 10 * f[n - 1] + DigitValue(digits[n])
    <2>1. n - 1 \in 0 .. L
      BY <1>1
    <2>2. f[n - 1] \in Nat
      BY Zenon, <2>1
    <2> QED
      BY Zenon, <1>3, <1>4, <2>2 DEF Rounds
  <1>7. Number(digits) = f[L]
    BY Zenon, <1>5, <1>6, NumberIs DEF L
  <1> QED
    BY Zenon, <1>5, <1>7

-----------------------------------------------------------------------------
\* parseRespFrame.

\* A line up to its first NUL is a string of bytes.
LEMMA CStringBytes ==
  ASSUME NEW line \in Seq(Byte)
  PROVE  CString(line) \in Seq(Byte)
  <1> DEFINE what == <<"NUL">>
             nul == Find(line, what, 1)
  <1>1. what \in Seq(Byte) /\ Len(what) = 1 /\ 1 \in Nat \ {0}
    BY NulAssumption
  <1>2. nul = 0 \/ nul \in 1 .. Len(line) - Len(what) + 1
    <2> HIDE DEF what
    <2> QED
      BY Zenon, <1>1, FindFacts DEF FirstAt
  <1>3. CString(line) = IF nul = 0 THEN line ELSE SubSeq(line, 1, nul - 1)
    BY Zenon DEF CString
  <1> HIDE DEF what, nul
  <1> QED
    BY <1>1, <1>2, <1>3

\* A line has a number, -1 if it is not one.
LEMMA LineNumber ==
  ASSUME NEW line \in Seq(Byte)
  PROVE  WholeNumber(AfterSpace(CString(line))) \in Int
  <1> DEFINE text == AfterSpace(CString(line))
             digits == IF Signed(text) THEN Tail(text) ELSE text
             R == Range(Digits)
  <1>1. text \in Seq(Byte)
    <2> DEFINE string == CString(line)
               first == FirstNotIn(string, Space)
    <2>1. string \in Seq(Byte)
      BY Zenon, CStringBytes
    <2>2. text = IF first = 0 THEN <<>> ELSE SubSeq(string, first, Len(string))
      BY Zenon DEF AfterSpace
    <2> HIDE DEF string
    <2>3. first = 0 \/ first \in 1 .. Len(string)
      BY Zenon, <2>1, FirstNotInFacts
    <2> HIDE DEF text, first
    <2> QED
      BY <2>1, <2>2, <2>3
  <1> HIDE DEF text
  <1>2. digits \in Seq(Byte)
    <2>1. Signed(text) => text # <<>>
      BY Zenon DEF Signed
    <2> QED
      BY <1>1, <2>1
  <1>3. WholeNumber(text) =
          IF digits = <<>> \/ ~(Range(digits) \subseteq R) THEN -1
          ELSE IF text[1] = "-" THEN -Number(digits) ELSE Number(digits)
    BY Zenon DEF WholeNumber
  <1> HIDE DEF digits
  <1>4. CASE Range(digits) \subseteq R
    <2>1. digits \in Seq(Range(digits))
      BY Zenon, <1>2, SeqOfRange
    <2>2. digits \in Seq(R)
      BY Zenon, <1>4, <2>1, SeqMonotonic
    <2>3. Number(digits) \in Nat
      BY Zenon, <2>2, NumberNat
    <2> HIDE DEF R
    <2> QED
      BY <1>3, <2>3 DEF text
  <1>5. CASE ~(Range(digits) \subseteq R)
    <2>1. WholeNumber(text) = -1
      BY Zenon, <1>3, <1>5
    <2> QED
      BY <2>1 DEF text
  <1> QED
    BY Zenon, <1>4, <1>5

\* The line feed of a frame.
LEMMA EndOfLineFacts == EndOfLine \in Seq(Byte) /\ Len(EndOfLine) = 2 /\ EndOfLine[1] = "CR" /\ EndOfLine[2] = "LF"
  BY ByteAssumption DEF EndOfLine

\* A line that is found ends in the buffer, and more bytes behind do not change it.
LEMMA LineFacts ==
  ASSUME NEW b \in Seq(Byte), NEW at \in Nat \ {0}, parseIntegerLine(b, at).found
  PROVE  /\ parseIntegerLine(b, at).value \in Int
         /\ parseIntegerLine(b, at).next \in at + 2 .. Len(b) + 1
         /\ \A c \in Seq(Byte) : parseIntegerLine(b \o c, at) = parseIntegerLine(b, at)
  <1> DEFINE end == Find(b, EndOfLine, at)
  <1>1. parseIntegerLine(b, at) = LineTo(end, b, at)
    BY Zenon DEF parseIntegerLine
  <1>2. end # 0
    <2>1. LineTo(end, b, at).found = (end # 0)
      BY DEF LineTo
    <2> QED
      BY Zenon, <1>1, <2>1
  <1>3. FirstAt(b, EndOfLine, at, end)
    BY Zenon, <1>2, FindFacts, EndOfLineFacts
  <1> HIDE DEF end
  <1>4. end \in at .. Len(b) - 1
    <2>1. end \in at .. Len(b) - 2 + 1
      BY Zenon, <1>3, EndOfLineFacts DEF FirstAt
    <2> QED
      BY <2>1
  <1>5. end - 1 \in Int /\ end - 1 <= Len(b)
    BY <1>4
  <1>6. SubSeq(b, at, end - 1) \in Seq(Byte)
    BY Zenon, <1>5, InFront
  <1>7. parseIntegerLine(b, at).value \in Int
    <2>1. parseIntegerLine(b, at).value = WholeNumber(AfterSpace(CString(SubSeq(b, at, end - 1))))
      BY <1>1 DEF LineTo
    <2> QED
      BY Zenon, <1>6, <2>1, LineNumber
  <1>8. parseIntegerLine(b, at).next \in at + 2 .. Len(b) + 1
    <2>1. parseIntegerLine(b, at).next = end + 2
      BY <1>1 DEF LineTo
    <2> QED
      BY <1>4, <2>1
  <1>9. ASSUME NEW c \in Seq(Byte)
        PROVE  parseIntegerLine(b \o c, at) = parseIntegerLine(b, at)
    <2>1. Find(b \o c, EndOfLine, at) = end
      BY Zenon, <1>2, EndOfLineFacts, FindStable DEF end
    <2>2. SubSeq(b \o c, at, end - 1) = SubSeq(b, at, end - 1)
      BY Zenon, <1>5, InFront
    <2>3. parseIntegerLine(b \o c, at) = LineTo(end, b \o c, at)
      BY Zenon, <2>1 DEF parseIntegerLine
    <2> QED
      BY Zenon, <1>1, <2>2, <2>3 DEF LineTo
  <1> QED
    BY Zenon, <1>7, <1>8, <1>9

\* What the loop over the arguments may have come to in a buffer.
Progress(b) ==
  {r \in [state : {"reading", "incomplete", "complete"}, consumed : Nat, tokens : Seq(Seq(Byte))] :
     r.consumed <= Len(b) /\ (r.state # "incomplete" => r.consumed # 0)}

\* A round stays in the buffer, and once it has found its bytes more bytes behind
\* do not change it.
LEMMA ArgumentFacts ==
  ASSUME NEW b \in Seq(Byte), NEW r \in Progress(b)
  PROVE  /\ Argument(b, r) \in Progress(b)
         /\ r.state = "incomplete" => Argument(b, r).state = "incomplete"
         /\ \A c \in Seq(Byte) :
              Argument(b, r).state # "incomplete" => Argument(b \o c, r) = Argument(b, r)
  <1> DEFINE at == r.consumed + 1
             line == parseIntegerLine(b, at + 1)
             end == line.next + line.value
             arg == Argument(b, r)
  <1>1. r.consumed \in Nat /\ at \in Nat \ {0} /\ at + 1 \in Nat \ {0} /\ r.tokens \in Seq(Seq(Byte)) /\ Len(b) \in Nat
    BY DEF Progress
  <1>2. Incomplete \in Progress(b) /\ Incomplete.state = "incomplete"
    BY DEF Progress, Incomplete
  <1>3. \A n \in 1 .. Len(b) : Malformed(n, r.tokens) \in Progress(b)
    BY DEF Progress, Malformed, Frame
  <1>4. \A n \in 1 .. Len(b) : \A t \in Seq(Seq(Byte)) : Reading(n, t) \in Progress(b)
    BY DEF Progress, Reading
  <1>5. ASSUME NEW c \in Seq(Byte)
        PROVE  /\ b \o c \in Seq(Byte) /\ Len(b \o c) = Len(b) + Len(c) /\ Len(c) \in Nat
               /\ \A n \in 1 .. Len(b) : (b \o c)[n] = b[n]
    OBVIOUS
  <1>6. CASE r.state # "reading"
    BY Zenon, <1>6 DEF Argument
  <1>7. CASE r.state = "reading" /\ at > Len(b)
    <2>1. arg = Incomplete
      BY Zenon, <1>7 DEF Argument
    <2> QED
      BY <1>2, <1>7, <2>1
  <1>8. CASE r.state = "reading" /\ ~(at > Len(b)) /\ b[at] # "$"
    <2>1. arg = Malformed(at, r.tokens)
      BY Zenon, <1>8 DEF Argument
    <2>2. at \in 1 .. Len(b)
      BY <1>1, <1>8
    <2>3. ASSUME NEW c \in Seq(Byte)
          PROVE  Argument(b \o c, r) = Malformed(at, r.tokens)
      <3>1. (b \o c)[at] # "$" /\ ~(at > Len(b \o c))
        BY <1>1, <1>5, <1>8, <2>2
      <3> QED
        BY Zenon, <1>8, <3>1 DEF Argument
    <2> QED
      BY Zenon, <1>3, <1>8, <2>1, <2>2, <2>3
  <1>9. CASE r.state = "reading" /\ ~(at > Len(b)) /\ b[at] = "$"
    <2>1. arg = ArgumentAfter(line, b, r.tokens)
      BY Zenon, <1>9 DEF Argument
    <2>2. ASSUME NEW c \in Seq(Byte), line.found
          PROVE  Argument(b \o c, r) = ArgumentAfter(line, b \o c, r.tokens)
      <3>1. (b \o c)[at] = "$" /\ ~(at > Len(b \o c))
        BY SMTT(30), <1>1, <1>5, <1>9
      <3>2. parseIntegerLine(b \o c, at + 1) = line
        BY Zenon, <1>1, <2>2, LineFacts
      <3> QED
        BY Zenon, <1>9, <3>1, <3>2 DEF Argument
    <2>3. CASE ~line.found
      <3>1. arg = Incomplete
        BY Zenon, <2>1, <2>3 DEF ArgumentAfter
      <3> QED
        BY <1>2, <1>9, <3>1
    <2>4. CASE line.found
      <3>1. line.value \in Int /\ line.next \in (at + 1) + 2 .. Len(b) + 1
        BY Zenon, <1>1, <2>4, LineFacts
      <3> HIDE DEF line, at, arg
      <3>2. line.next - 1 \in 1 .. Len(b) /\ line.next \in Nat \ {0}
        BY <1>1, <3>1
      <3>3. CASE line.value < 0
        <4>1. \A x : ArgumentAfter(line, x, r.tokens) = Reading(line.next - 1, Append(r.tokens, <<>>))
          BY Zenon, <2>4, <3>3 DEF ArgumentAfter
        <4>2. Append(r.tokens, <<>>) \in Seq(Seq(Byte))
          BY <1>1
        <4>3. Argument(b, r) = Reading(line.next - 1, Append(r.tokens, <<>>))
          BY Zenon, <2>1, <4>1 DEF arg
        <4>4. ASSUME NEW c \in Seq(Byte)
              PROVE  Argument(b \o c, r) = Reading(line.next - 1, Append(r.tokens, <<>>))
          BY Zenon, <2>2, <2>4, <4>1
        <4> QED
          BY Zenon, <1>4, <1>9, <3>2, <4>2, <4>3, <4>4
      <3>4. CASE ~(line.value < 0) /\ Len(b) < end + 1
        <4>1. arg = Incomplete
          BY Zenon, <2>1, <2>4, <3>4 DEF ArgumentAfter
        <4> QED
          BY <1>2, <1>9, <4>1 DEF arg
      <3>5. CASE ~(line.value < 0) /\ ~(Len(b) < end + 1)
        <4>1. end \in 2 .. Len(b) - 1 /\ end - 1 \in 1 .. Len(b) /\ end + 1 \in 1 .. Len(b)
          BY SMTT(30), <1>1, <3>1, <3>2, <3>5
        <4> HIDE DEF end
        <4>2. end \in Nat \ {0} /\ end + 1 \in Int /\ end + 1 <= Len(b) /\ end - 1 \in Int /\ end - 1 <= Len(b)
          BY <4>1
        <4>3. ASSUME NEW c \in Seq(Byte)
              PROVE  /\ SubSeq(b \o c, end, end + 1) = SubSeq(b, end, end + 1)
                     /\ SubSeq(b \o c, line.next, end - 1) = SubSeq(b, line.next, end - 1)
                     /\ ~(Len(b \o c) < end + 1)
          <5>1. SubSeq(b \o c, end, end + 1) = SubSeq(b, end, end + 1)
            BY Zenon, <4>2, InFront
          <5>2. SubSeq(b \o c, line.next, end - 1) = SubSeq(b, line.next, end - 1)
            <6>1. line.next \in Nat \ {0} /\ end - 1 \in Int /\ end - 1 <= Len(b)
              BY Zenon, <3>2, <4>2
            <6> QED
              BY Zenon, <6>1, InFront
          <5>3. Len(b \o c) = Len(b) + Len(c) /\ Len(c) \in Nat
            BY Zenon, <1>5
          <5>4. ~(Len(b \o c) < end + 1)
            BY <1>1, <4>2, <5>3
          <5> QED
            BY Zenon, <5>1, <5>2, <5>4
        <4>4. CASE SubSeq(b, end, end + 1) # EndOfLine
          <5>1. arg = Malformed(end - 1, r.tokens)
            BY Zenon, <2>1, <2>4, <3>5, <4>4 DEF ArgumentAfter, end
          <5>2. ASSUME NEW c \in Seq(Byte)
                PROVE  Argument(b \o c, r) = Malformed(end - 1, r.tokens)
            BY Zenon, <2>2, <2>4, <3>5, <4>3, <4>4 DEF ArgumentAfter, end
          <5> QED
            BY Zenon, <1>3, <1>9, <4>1, <5>1, <5>2 DEF arg
        <4>5. CASE SubSeq(b, end, end + 1) = EndOfLine
          <5>1. arg = Reading(end + 1, Append(r.tokens, SubSeq(b, line.next, end - 1)))
            BY Zenon, <2>1, <2>4, <3>5, <4>5 DEF ArgumentAfter, end
          <5>2. ASSUME NEW c \in Seq(Byte)
                PROVE  Argument(b \o c, r) = Reading(end + 1, Append(r.tokens, SubSeq(b, line.next, end - 1)))
            BY Zenon, <2>2, <2>4, <3>5, <4>3, <4>5 DEF ArgumentAfter, end
          <5>3. Append(r.tokens, SubSeq(b, line.next, end - 1)) \in Seq(Seq(Byte))
            <6>1. SubSeq(b, line.next, end - 1) \in Seq(Byte)
              BY Zenon, <3>2, <4>2, InFront
            <6> QED
              BY Zenon, <1>1, <6>1, AppendProperties
          <5> QED
            BY Zenon, <1>4, <1>9, <4>1, <5>1, <5>2, <5>3 DEF arg
        <4> QED
          BY Zenon, <4>4, <4>5
      <3> QED
        BY Zenon, <3>3, <3>4, <3>5
    <2> QED
      BY Zenon, <2>3, <2>4
  <1> QED
    BY Zenon, <1>6, <1>7, <1>8, <1>9

\* The loop over the arguments: where it stands after each round.
Looping(after, b, first) ==
  /\ after \in [Nat -> Progress(b)] /\ after[0] = Reading(first, <<>>)
  /\ \A n \in Nat : after[n + 1] = Argument(b, after[n])

\* parseRespFrame after the loop.
Ended(r) == IF r.state = "reading" THEN Frame(r.consumed, r.tokens) ELSE r

\* The loop runs, and parseRespFrame returns what it ends with.
LEMMA ArgumentsFacts ==
  ASSUME NEW b \in Seq(Byte), NEW first \in 1 .. Len(b), NEW count \in Nat
  PROVE  \E after : Looping(after, b, first) /\ Arguments(b, first, count) = Ended(after[count])
  <1> DEFINE P == Progress(b)
             x == Reading(first, <<>>)
             step == [n \in Nat |-> [r \in P |-> Argument(b, r)]]
             u == CHOOSE u : u = [n \in Nat |-> IF n = 0 THEN x ELSE Argument(b, u[n - 1])]
  <1>1. x \in P
    BY DEF Reading, Progress
  <1>2. step \in [Nat -> [P -> P]]
    <2>1. \A r \in P : Argument(b, r) \in P
      BY Zenon, ArgumentFacts
    <2> QED
      BY Zenon, <2>1
  <1>3. \A n \in Nat : \A r \in P : step[n][r] = Argument(b, r)
    BY Zenon
  <1> HIDE DEF P, x, step
  <1>4. PICK g \in [Nat -> P] : Iterates(g, x, step)
    BY Zenon, <1>1, <1>2, Iteration
  <1>5. g = [n \in Nat |-> IF n = 0 THEN x ELSE Argument(b, g[n - 1])]
    <2> DEFINE G == [n \in Nat |-> IF n = 0 THEN x ELSE Argument(b, g[n - 1])]
    <2>1. ASSUME NEW n \in Nat
          PROVE  g[n] = G[n]
      <3>1. CASE n = 0
        BY Zenon, <1>4, <3>1 DEF Iterates
      <3>2. CASE n # 0
        <4>1. n - 1 \in Nat /\ (n - 1) + 1 = n
          BY <3>2
        <4>2. g[n - 1] \in P /\ g[n] = step[n][g[n - 1]]
          BY Zenon, <1>4, <4>1 DEF Iterates
        <4> QED
          BY Zenon, <1>3, <3>2, <4>2
      <3> QED
        BY Zenon, <3>1, <3>2
    <2>2. g = [n \in Nat |-> g[n]] /\ G = [n \in Nat |-> G[n]]
      BY Zenon, <1>4
    <2> HIDE DEF G
    <2>3. g = G
      BY Zenon, <2>1, <2>2
    <2> QED
      BY Zenon, <2>3 DEF G
  <1>6. u = [n \in Nat |-> IF n = 0 THEN x ELSE Argument(b, u[n - 1])]
    BY Zenon, <1>5
  <1>7. Arguments(b, first, count) = Ended(u[count])
    BY Zenon DEF Arguments, Ended, x
  <1> HIDE DEF u
  <1>8. u[0] = x
    BY Zenon, <1>6
  <1>9. \A n \in Nat : u[n + 1] = Argument(b, u[n])
    <2> TAKE n \in Nat
    <2>1. n + 1 \in Nat /\ n + 1 # 0 /\ (n + 1) - 1 = n
      OBVIOUS
    <2> QED
      BY Zenon, <1>6, <2>1
  <1> DEFINE N == {n \in Nat : u[n] \in P}
  <1>10. 0 \in N
    BY Zenon, <1>1, <1>8
  <1>11. ASSUME NEW n \in Nat, n \in N
         PROVE  n + 1 \in N
    <2>1. n + 1 \in Nat
      OBVIOUS
    <2> QED
      BY Zenon, <1>9, <1>11, <2>1, ArgumentFacts DEF P
  <1> HIDE DEF N
  <1>12. Nat \subseteq N
    BY Zenon, <1>10, <1>11, Induction
  <1>13. u \in [Nat -> P]
    BY Zenon, <1>6, <1>12 DEF N
  <1> QED
    BY Zenon, <1>7, <1>8, <1>9, <1>13 DEF Looping, P, x

\* Where the one loop has found its bytes, the other is at the same place.
Agree(before, after) == \A n \in Nat : before[n].state # "incomplete" => after[n] = before[n]

\* More bytes behind do not change a loop that has found all its bytes.
LEMMA LoopingStable ==
  ASSUME NEW b \in Seq(Byte), NEW c \in Seq(Byte), NEW first, NEW before, NEW after,
         Looping(before, b, first), Looping(after, b \o c, first)
  PROVE  Agree(before, after)
  <1> DEFINE N == {n \in Nat : before[n].state # "incomplete" => after[n] = before[n]}
  <1>1. 0 \in N
    BY Zenon DEF Looping
  <1>2. ASSUME NEW n \in Nat, n \in N
        PROVE  n + 1 \in N
    <2>1. before[n] \in Progress(b) /\ before[n + 1] = Argument(b, before[n]) /\ after[n + 1] = Argument(b \o c, after[n])
      BY Zenon DEF Looping
    <2>2. ASSUME before[n + 1].state # "incomplete"
          PROVE  after[n + 1] = before[n + 1]
      BY Zenon, <1>2, <2>1, <2>2, ArgumentFacts
    <2>3. n + 1 \in Nat
      OBVIOUS
    <2> QED
      BY Zenon, <2>2, <2>3
  <1> HIDE DEF N
  <1>3. Nat \subseteq N
    BY Zenon, <1>1, <1>2, Induction
  <1> QED
    BY Zenon, <1>3 DEF N, Agree

\* A frame stays in the buffer, and more bytes behind do not change one that has ended.
LEMMA FrameFacts ==
  ASSUME NEW b \in Seq(Byte), b # <<>>
  PROVE  /\ parseRespFrame(b) \in Progress(b) /\ parseRespFrame(b).state # "reading"
         /\ \A c \in Seq(Byte) :
              parseRespFrame(b).state # "incomplete" => parseRespFrame(b \o c) = parseRespFrame(b)
  <1> DEFINE line == parseIntegerLine(b, 2)
             frame == parseRespFrame(b)
  <1>1. frame = FrameAfter(line, b) /\ 2 \in Nat \ {0}
    BY DEF parseRespFrame
  <1>2. Incomplete \in Progress(b) /\ Incomplete.state = "incomplete"
    BY DEF Progress, Incomplete
  <1>3. \A n \in 1 .. Len(b) : Malformed(n, <<>>) \in Progress(b) /\ Malformed(n, <<>>).state = "complete"
    BY DEF Progress, Malformed, Frame
  <1>4. \A r \in Progress(b) :
          Ended(r) \in Progress(b) /\ Ended(r).state # "reading" /\ (Ended(r).state = "incomplete" => r.state = "incomplete")
    BY DEF Progress, Ended, Frame
  <1>5. CASE ~line.found
    <2>1. frame = Incomplete
      BY Zenon, <1>1, <1>5 DEF FrameAfter
    <2> QED
      BY <1>2, <2>1
  <1>6. CASE line.found
    <2>1. line.value \in Int /\ line.next \in 2 + 2 .. Len(b) + 1 /\ \A c \in Seq(Byte) : parseIntegerLine(b \o c, 2) = line
      BY Zenon, <1>1, <1>6, LineFacts
    <2>2. ASSUME NEW c \in Seq(Byte)
          PROVE  parseRespFrame(b \o c) = FrameAfter(line, b \o c)
      BY Zenon, <2>1 DEF parseRespFrame
    <2> HIDE DEF line, frame
    <2>3. line.next - 1 \in 1 .. Len(b)
      BY <2>1
    <2>4. CASE line.value < 0
      <3>1. \A x : FrameAfter(line, x) = Malformed(line.next - 1, <<>>)
        BY Zenon, <1>6, <2>4 DEF FrameAfter
      <3>2. ASSUME NEW c \in Seq(Byte)
            PROVE  parseRespFrame(b \o c) = frame
        <4>1. frame = Malformed(line.next - 1, <<>>)
          BY Zenon, <1>1, <3>1
        <4>2. parseRespFrame(b \o c) = Malformed(line.next - 1, <<>>)
          BY Zenon, <2>2, <3>1
        <4> QED
          BY Zenon, <4>1, <4>2
      <3>3. frame \in Progress(b) /\ frame.state = "complete"
        BY Zenon, <1>1, <1>3, <2>3, <3>1
      <3>4. frame.state # "reading"
        BY <3>3
      <3> QED
        BY Zenon, <3>2, <3>3, <3>4 DEF frame
    <2>5. CASE ~(line.value < 0)
      <3> DEFINE first == line.next - 1
                 count == line.value
      <3>1. \A x : FrameAfter(line, x) = Arguments(x, first, count)
        BY Zenon, <1>6, <2>5 DEF FrameAfter
      <3>2. count \in Nat
        BY <2>1, <2>5
      <3> HIDE DEF first, count
      <3>3. PICK before : Looping(before, b, first) /\ Arguments(b, first, count) = Ended(before[count])
        BY Zenon, <2>3, <3>2, ArgumentsFacts DEF first
      <3>4. frame = Ended(before[count]) /\ before[count] \in Progress(b)
        BY Zenon, <1>1, <3>1, <3>2, <3>3 DEF Looping
      <3>5. ASSUME NEW c \in Seq(Byte), frame.state # "incomplete"
            PROVE  parseRespFrame(b \o c) = frame
        <4>1. b \o c \in Seq(Byte) /\ first \in 1 .. Len(b \o c)
          BY <2>3 DEF first
        <4>2. PICK after : Looping(after, b \o c, first) /\ Arguments(b \o c, first, count) = Ended(after[count])
          BY Zenon, <3>2, <4>1, ArgumentsFacts
        <4>3. before[count].state # "incomplete"
          <5>1. before[count].state = "incomplete" => Ended(before[count]) = before[count]
            BY DEF Ended
          <5> QED
            BY Zenon, <3>4, <3>5, <5>1
        <4>4. after[count] = before[count]
          <5>1. Looping(before, b, first) /\ Looping(after, b \o c, first)
            BY Zenon, <3>3, <4>2
          <5>2. Agree(before, after)
            BY Zenon, <5>1, LoopingStable
          <5> QED
            BY Zenon, <3>2, <4>3, <5>2 DEF Agree
        <4> QED
          BY Zenon, <2>2, <3>1, <3>4, <4>2, <4>4
      <3> QED
        BY Zenon, <1>4, <3>4, <3>5 DEF frame
    <2> QED
      BY Zenon, <2>4, <2>5
  <1> QED
    BY Zenon, <1>5, <1>6

-----------------------------------------------------------------------------
\* parseAvailable.

\* The commands that can be handed on.
Command ==
  [tokens : Seq(Seq(Byte)) \cup {parse(line) : line \in Seq(Byte)}, protocol : {"Resp", "Inline"}]

\* The last byte that a line keeps.
LEMMA StrippedType ==
  ASSUME NEW line \in Seq(Byte)
  PROVE  Stripped(line) \in Seq(Byte)
  <1> DEFINE set == {"CR", "LF"}
             places == {i \in DOMAIN line : line[i] \notin set}
             last == LastNotIn(line, set)
  <1>1. last = IF places = {} THEN 0 ELSE Max(places)
    BY Zenon DEF LastNotIn
  <1>2. DOMAIN line = 1 .. Len(line) /\ Len(line) \in Nat
    OBVIOUS
  <1>3. CASE places = {}
    <2>1. Stripped(line) = SubSeq(line, 1, 0)
      BY Zenon, <1>1, <1>3 DEF Stripped
    <2> QED
      BY <2>1
  <1>4. CASE places # {}
    <2> DEFINE mirror == {Len(line) - i : i \in places}
    <2>1. mirror \subseteq Nat /\ mirror # {}
      BY <1>2, <1>4
    <2>2. PICK m \in mirror : \A y \in mirror : m <= y
      BY Zenon, <2>1, Least
    <2>3. PICK i \in places : m = Len(line) - i
      BY Zenon, <2>2
    <2>4. ASSUME NEW y \in places
          PROVE  i >= y
      <3>1. m <= Len(line) - y
        BY Zenon, <2>2
      <3> QED
        BY <1>2, <2>3, <3>1
    <2>5. last \in places
      BY Zenon, <1>1, <1>4, <2>3, <2>4 DEF Max
    <2>6. last \in 1 .. Len(line)
      BY Zenon, <1>2, <2>5
    <2> HIDE DEF last
    <2>7. SubSeq(line, 1, last) \in Seq(Byte)
      BY <1>2, <2>6
    <2> QED
      BY Zenon, <2>7 DEF Stripped, last
  <1> QED
    BY Zenon, <1>3, <1>4

\* A command takes bytes of the buffer, and once it has ended more bytes behind do not
\* change it.
LEMMA FirstCommandFacts ==
  ASSUME NEW b \in Seq(Byte), b # <<>>
  PROVE  /\ FirstCommand(b).consumed \in 0 .. Len(b) /\ FirstCommand(b).out \in Seq(Command)
         /\ \A c \in Seq(Byte) : FirstCommand(b).consumed # 0 => FirstCommand(b \o c) = FirstCommand(b)
  <1> DEFINE first == FirstCommand(b)
             frame == parseRespFrame(b)
             newline == Find(b, <<"LF">>, 1)
  <1>1. Len(b) \in Nat \ {0} /\ \A c \in Seq(Byte) : (b \o c)[1] = b[1]
    OBVIOUS
  <1>2. NoCommand.consumed = 0 /\ NoCommand.out = <<>> /\ <<>> \in Seq(Command) /\ 0 \in 0 .. Len(b)
    BY <1>1 DEF NoCommand
  <1>3. CASE b[1] = "*"
    <2>1. first = RespCommand(frame) /\ \A c \in Seq(Byte) : FirstCommand(b \o c) = RespCommand(parseRespFrame(b \o c))
      BY Zenon, <1>1, <1>3 DEF FirstCommand
    <2>2. /\ frame \in Progress(b)
          /\ \A c \in Seq(Byte) : frame.state # "incomplete" => parseRespFrame(b \o c) = frame
      BY Zenon, FrameFacts
    <2> HIDE DEF first, frame
    <2>3. CASE frame.state = "incomplete"
      <3>1. first = NoCommand
        BY Zenon, <2>1, <2>3 DEF RespCommand
      <3> QED
        BY Zenon, <1>2, <3>1 DEF first
    <2>4. CASE frame.state # "incomplete"
      <3>1. frame.consumed \in 0 .. Len(b) /\ frame.tokens \in Seq(Seq(Byte))
        BY <1>1, <2>2 DEF Progress
      <3>2. first = [consumed |-> frame.consumed, out |-> <<[tokens |-> frame.tokens, protocol |-> "Resp"]>>]
        BY Zenon, <2>1, <2>4 DEF RespCommand
      <3>3. [tokens |-> frame.tokens, protocol |-> "Resp"] \in Command
        BY Zenon, <3>1 DEF Command
      <3>4. first.consumed = frame.consumed /\ first.out \in Seq(Command)
        BY <3>2, <3>3
      <3>5. \A c \in Seq(Byte) : FirstCommand(b \o c) = first
        BY Zenon, <2>1, <2>2, <2>4
      <3> QED
        BY Zenon, <3>1, <3>4, <3>5 DEF first
    <2> QED
      BY Zenon, <2>3, <2>4
  <1>4. CASE b[1] # "*"
    <2>1. <<"LF">> \in Seq(Byte) /\ Len(<<"LF">>) = 1 /\ 1 \in Nat \ {0}
      BY ByteAssumption
    <2>2. CASE newline = 0
      <3>1. first = NoCommand
        BY Zenon, <1>4, <2>2 DEF FirstCommand
      <3> QED
        BY Zenon, <1>2, <3>1
    <2>3. CASE newline # 0
      <3>1. FirstAt(b, <<"LF">>, 1, newline)
        BY Zenon, <2>1, <2>3, FindFacts
      <3>2. newline \in 1 .. Len(b) - 1 + 1
        BY Zenon, <2>1, <3>1 DEF FirstAt
      <3>3. ASSUME NEW c \in Seq(Byte)
            PROVE  Find(b \o c, <<"LF">>, 1) = newline
        BY Zenon, <2>1, <2>3, FindStable
      <3> DEFINE line == Stripped(SubSeq(b, 1, newline))
      <3>4. first = InlineCommand(line, newline)
        BY Zenon, <1>4, <2>3 DEF FirstCommand
      <3> HIDE DEF newline
      <3>5. newline \in 0 .. Len(b) /\ newline \in Int /\ newline <= Len(b) /\ 1 \in Nat \ {0}
        BY <1>1, <3>2
      <3>6. SubSeq(b, 1, newline) \in Seq(Byte)
        BY Zenon, <3>5, InFront
      <3>7. line \in Seq(Byte)
        BY Zenon, <3>6, StrippedType
      <3>8. ASSUME NEW c \in Seq(Byte)
            PROVE  FirstCommand(b \o c) = first
        <4>1. SubSeq(b \o c, 1, newline) = SubSeq(b, 1, newline)
          BY Zenon, <3>5, InFront
        <4>2. (b \o c)[1] # "*"
          BY Zenon, <1>1, <1>4
        <4> QED
          BY Zenon, <2>3, <3>3, <3>4, <4>1, <4>2 DEF FirstCommand
      <3> HIDE DEF line, first
      <3>9. first.consumed = newline /\ first.out = IF line = <<>> THEN <<>> ELSE <<[tokens |-> parse(line), protocol |-> "Inline"]>>
        BY <3>4 DEF InlineCommand
      <3>10. [tokens |-> parse(line), protocol |-> "Inline"] \in Command
        BY Zenon, <3>7 DEF Command
      <3>11. first.out \in Seq(Command)
        BY <1>2, <3>9, <3>10
      <3> QED
        BY Zenon, <3>5, <3>8, <3>9, <3>11 DEF first
    <2> QED
      BY Zenon, <2>2, <2>3
  <1> QED
    BY Zenon, <1>3, <1>4

\* What parseAvailable returns, and how it comes from the parse f of what is behind the
\* first command.
Parsed == [commands : Seq(Command), pending : Seq(Byte)]

Rest(b) == SubSeq(b, FirstCommand(b).consumed + 1, Len(b))

ParsedFrom(f, b) ==
  IF b = <<>> \/ FirstCommand(b).consumed = 0 THEN [commands |-> <<>>, pending |-> b]
  ELSE [commands |-> FirstCommand(b).out \o f[Rest(b)].commands, pending |-> f[Rest(b)].pending]

\* Commands and bytes make a result of parseAvailable.
LEMMA ParsedType ==
  ASSUME NEW x \in Seq(Command), NEW b \in Seq(Byte)
  PROVE  [commands |-> x, pending |-> b] \in Parsed
  BY Zenon DEF Parsed

\* Behind a command there are fewer bytes.
LEMMA RestFacts ==
  ASSUME NEW b \in Seq(Byte), b # <<>>, FirstCommand(b).consumed # 0
  PROVE  /\ Rest(b) \in Seq(Byte) /\ Len(Rest(b)) < Len(b)
         /\ \A c \in Seq(Byte) : Rest(b \o c) = Rest(b) \o c
  <1> DEFINE k == FirstCommand(b).consumed
  <1>1. k \in 0 .. Len(b) /\ \A c \in Seq(Byte) : FirstCommand(b \o c) = FirstCommand(b)
    BY Zenon, FirstCommandFacts
  <1> HIDE DEF k
  <1>2. SubSeq(b, k + 1, Len(b)) \in Seq(Byte) /\ Len(SubSeq(b, k + 1, Len(b))) = Len(b) - k
    <2>1. <<>> \in Seq(Byte)
      OBVIOUS
    <2> QED
      BY Zenon, <1>1, <2>1, Behind
  <1>3. Len(b) - k < Len(b)
    BY <1>1 DEF k
  <1>4. ASSUME NEW c \in Seq(Byte)
        PROVE  Rest(b \o c) = Rest(b) \o c
    <2>1. SubSeq(b \o c, k + 1, Len(b \o c)) = SubSeq(b, k + 1, Len(b)) \o c
      BY Zenon, <1>1, Behind
    <2> QED
      BY Zenon, <1>1, <2>1 DEF Rest, k
  <1>5. Rest(b) = SubSeq(b, k + 1, Len(b))
    BY Zenon DEF Rest, k
  <1> QED
    BY Zenon, <1>2, <1>3, <1>4, <1>5

\* A result for the bytes behind the first command makes one for all of them.
LEMMA ParsedFromType ==
  ASSUME NEW b \in Seq(Byte), NEW f, b # <<>> /\ FirstCommand(b).consumed # 0 => f[Rest(b)] \in Parsed
  PROVE  ParsedFrom(f, b) \in Parsed
  <1>1. CASE b = <<>> \/ FirstCommand(b).consumed = 0
    <2>1. ParsedFrom(f, b) = [commands |-> <<>>, pending |-> b]
      BY Zenon, <1>1 DEF ParsedFrom
    <2>2. <<>> \in Seq(Command)
      OBVIOUS
    <2> QED
      BY Zenon, <2>1, <2>2, ParsedType
  <1>2. CASE b # <<>> /\ FirstCommand(b).consumed # 0
    <2>1. f[Rest(b)] \in Parsed
      BY Zenon, <1>2
    <2>2. FirstCommand(b).out \in Seq(Command)
      BY Zenon, <1>2, FirstCommandFacts
    <2>3. f[Rest(b)].commands \in Seq(Command) /\ f[Rest(b)].pending \in Seq(Byte)
      BY Zenon, <2>1 DEF Parsed
    <2>4. FirstCommand(b).out \o f[Rest(b)].commands \in Seq(Command)
      BY Zenon, <2>2, <2>3, ConcatProperties
    <2>5. ParsedFrom(f, b) = [commands |-> FirstCommand(b).out \o f[Rest(b)].commands, pending |-> f[Rest(b)].pending]
      BY Zenon, <1>2 DEF ParsedFrom
    <2> QED
      BY Zenon, <2>3, <2>4, <2>5, ParsedType
  <1> QED
    BY Zenon, <1>1, <1>2

\* parseAvailable is defined for every buffer.
LEMMA AvailableFacts ==
  /\ parseAvailable \in [Seq(Byte) -> Parsed]
  /\ \A b \in Seq(Byte) : parseAvailable[b] = ParsedFrom(parseAvailable, b)
  <1> DEFINE D == Seq(Byte)
             F == [D -> Parsed]
             size == [b \in D |-> Len(b)]
             step == [b \in D |-> [f \in F |-> ParsedFrom(f, b)]]
             some == [commands |-> <<>>, pending |-> <<>>]
  <1>1. some \in Parsed /\ size \in [D -> Nat]
    BY DEF Parsed
  <1>2. ASSUME NEW b \in D, NEW f \in F
        PROVE  ParsedFrom(f, b) \in Parsed
    BY Zenon, RestFacts, ParsedFromType
  <1>3. step \in [D -> [F -> Parsed]]
    BY Zenon, <1>2
  <1>4. \A b \in D : \A f \in F : step[b][f] = ParsedFrom(f, b)
    BY Zenon
  <1>5. ASSUME NEW b \in D, NEW f \in F, NEW g \in F, \A y \in D : size[y] < size[b] => f[y] = g[y]
        PROVE  step[b][f] = step[b][g]
    <2>1. CASE b = <<>> \/ FirstCommand(b).consumed = 0
      BY Zenon, <1>4, <2>1 DEF ParsedFrom
    <2>2. CASE b # <<>> /\ FirstCommand(b).consumed # 0
      <3>1. Rest(b) \in D /\ size[Rest(b)] < size[b]
        BY Zenon, <2>2, RestFacts
      <3>2. f[Rest(b)] = g[Rest(b)]
        BY Zenon, <1>5, <3>1
      <3> QED
        BY Zenon, <1>4, <3>2 DEF ParsedFrom
    <2> QED
      BY Zenon, <2>1, <2>2
  <1> HIDE DEF D, F, size, step, some
  <1>6. UsesSmaller(D, Parsed, size, step)
    BY Zenon, <1>5 DEF UsesSmaller, F
  <1>10. PICK f \in [D -> Parsed] : Solves(f, D, step)
    BY Zenon, <1>1, <1>3, <1>6, Recursion DEF F
  <1>7. f = [b \in D |-> ParsedFrom(f, b)]
    <2>1. \A b \in D : f[b] = ParsedFrom(f, b)
      BY Zenon, <1>4, <1>10 DEF F, Solves
    <2>2. f = [b \in D |-> f[b]]
      BY Zenon, <1>10
    <2> QED
      BY Zenon, <2>1, <2>2
  <1>8. parseAvailable = CHOOSE u : u = [b \in Seq(Byte) |-> ParsedFrom(u, b)]
    BY Zenon DEF parseAvailable, ParsedFrom, Rest
  <1>9. parseAvailable = [b \in D |-> ParsedFrom(parseAvailable, b)]
    BY Zenon, <1>7, <1>8 DEF D
  <1> DEFINE P == parseAvailable
             N == {n \in Nat : \A b \in Seq(Byte) : Len(b) < n => P[b] \in Parsed}
  <1>11. \A b \in Seq(Byte) : P[b] = ParsedFrom(P, b)
    BY Zenon, <1>9 DEF D
  <1> HIDE DEF P
  <1>12. 0 \in N
    OBVIOUS
  <1>13. ASSUME NEW n \in Nat, n \in N
         PROVE  n + 1 \in N
    <2> SUFFICES ASSUME NEW b \in Seq(Byte), Len(b) < n + 1
                 PROVE  P[b] \in Parsed
      OBVIOUS
    <2>1. ASSUME b # <<>> /\ FirstCommand(b).consumed # 0
          PROVE  P[Rest(b)] \in Parsed
      <3>1. Rest(b) \in Seq(Byte) /\ Len(Rest(b)) < Len(b)
        BY Zenon, <2>1, RestFacts
      <3>2. Len(Rest(b)) < n
        BY <3>1
      <3> QED
        BY Zenon, <1>13, <3>1, <3>2
    <2> QED
      BY Zenon, <1>11, <2>1, ParsedFromType
  <1> HIDE DEF N
  <1>14. Nat \subseteq N
    BY Zenon, <1>12, <1>13, Induction
  <1>15. ASSUME NEW b \in Seq(Byte)
         PROVE  P[b] \in Parsed
    <2>1. Len(b) + 1 \in Nat /\ Len(b) < Len(b) + 1
      OBVIOUS
    <2> QED
      BY Zenon, <1>14, <2>1 DEF N
  <1>16. P = [b \in Seq(Byte) |-> ParsedFrom(P, b)]
    BY Zenon, <1>9 DEF D, P
  <1> QED
    BY Zenon, <1>11, <1>15, <1>16 DEF P

\* The bytes b, and then c.
InPieces(b, c) ==
  LET first == parseAvailable[b]
      then == parseAvailable[first.pending \o c]
  IN parseAvailable[b \o c] = [commands |-> first.commands \o then.commands, pending |-> then.pending]

\* Three sequences of commands in a row.
LEMMA CommandsAssociative ==
  ASSUME NEW x \in Seq(Command), NEW y \in Seq(Command), NEW z \in Seq(Command)
  PROVE  x \o (y \o z) = (x \o y) \o z
  BY SMTT(30), ConcatAssociative

\* Bytes that come in two pieces are parsed as if they came in one.
LEMMA PiecesFacts ==
  ASSUME NEW b \in Seq(Byte), NEW c \in Seq(Byte)
  PROVE  InPieces(b, c)
  <1> DEFINE P == parseAvailable
             N == {n \in Nat : \A d \in Seq(Byte) : Len(d) < n => InPieces(d, c)}
  <1>1. ASSUME NEW d \in Seq(Byte)
        PROVE  P[d] \in Parsed /\ P[d] = ParsedFrom(P, d)
    BY Zenon, AvailableFacts
  <1>2. ASSUME NEW d \in Seq(Byte)
        PROVE  /\ P[d].commands \in Seq(Command) /\ P[d].pending \in Seq(Byte)
               /\ P[d] = [commands |-> P[d].commands, pending |-> P[d].pending]
    <2>1. P[d] \in [commands : Seq(Command), pending : Seq(Byte)]
      BY Zenon, <1>1 DEF Parsed
    <2> QED
      BY <2>1
  <1> HIDE DEF P
  <1>3. 0 \in N
    OBVIOUS
  <1>4. ASSUME NEW n \in Nat, n \in N
        PROVE  n + 1 \in N
    <2> SUFFICES ASSUME NEW d \in Seq(Byte), Len(d) < n + 1
                 PROVE  InPieces(d, c)
      OBVIOUS
    <2> HIDE DEF N
    <2>0. d \o c \in Seq(Byte)
      OBVIOUS
    <2>1. CASE d = <<>> \/ FirstCommand(d).consumed = 0
      <3>1. P[d] = [commands |-> <<>>, pending |-> d]
        BY Zenon, <1>1, <2>1 DEF ParsedFrom
      <3>2. P[d].commands = <<>> /\ P[d].pending = d
        BY <3>1
      <3> DEFINE x == P[d \o c].commands
                 y == P[d \o c].pending
      <3>3. x \in Seq(Command) /\ P[d \o c] = [commands |-> x, pending |-> y]
        BY Zenon, <1>2, <2>0
      <3>4. InPieces(d, c) <=> P[d \o c] = [commands |-> P[d].commands \o x, pending |-> y]
        BY Zenon, <3>2 DEF InPieces, P
      <3> HIDE DEF x, y
      <3>5. <<>> \o x = x
        BY <3>3
      <3> QED
        BY Zenon, <3>2, <3>3, <3>4, <3>5
    <2>2. CASE d # <<>> /\ FirstCommand(d).consumed # 0
      <3> DEFINE out == FirstCommand(d).out
                 r == Rest(d)
                 then == P[P[r].pending \o c]
      <3>1. out \in Seq(Command) /\ FirstCommand(d \o c) = FirstCommand(d)
        BY Zenon, <2>2, FirstCommandFacts
      <3>2. r \in Seq(Byte) /\ Len(r) < Len(d) /\ Rest(d \o c) = r \o c
        BY Zenon, <2>2, RestFacts
      <3>3. d \o c # <<>>
        BY <2>2
      <3>4. P[d] = [commands |-> out \o P[r].commands, pending |-> P[r].pending]
        BY Zenon, <1>1, <2>2 DEF ParsedFrom
      <3>5. P[d \o c] = [commands |-> out \o P[r \o c].commands, pending |-> P[r \o c].pending]
        BY Zenon, <1>1, <2>0, <2>2, <3>1, <3>2, <3>3 DEF ParsedFrom
      <3> HIDE DEF out, r
      <3>6. InPieces(r, c)
        <4>1. Len(r) < n
          BY <3>2
        <4> QED
          BY Zenon, <1>4, <3>2, <4>1 DEF N
      <3>7. P[r \o c] = [commands |-> P[r].commands \o then.commands, pending |-> then.pending]
        BY Zenon, <3>6 DEF InPieces, P
      <3>8. P[r].commands \in Seq(Command) /\ P[r].pending \o c \in Seq(Byte) /\ then.commands \in Seq(Command)
        <4>1. P[r].commands \in Seq(Command) /\ P[r].pending \in Seq(Byte)
          BY Zenon, <1>2, <3>2
        <4>2. P[r].pending \o c \in Seq(Byte)
          BY <4>1
        <4> QED
          BY Zenon, <1>2, <4>1, <4>2 DEF then
      <3> HIDE DEF then
      <3>9. out \o (P[r].commands \o then.commands) = (out \o P[r].commands) \o then.commands
        BY Zenon, <3>1, <3>8, CommandsAssociative
      <3>10. P[d].commands = out \o P[r].commands /\ P[d].pending = P[r].pending
        BY SMTT(30), <3>4
      <3>11. P[r \o c].commands = P[r].commands \o then.commands /\ P[r \o c].pending = then.pending
        <4> DEFINE x == P[r].commands \o then.commands
                   q == P[r \o c]
        <4> HIDE DEF x, q
        <4>1. q = [commands |-> x, pending |-> then.pending]
          BY Zenon, <3>7 DEF x, q
        <4>2. q.commands = x /\ q.pending = then.pending
          BY <4>1
        <4> QED
          BY Zenon, <4>2 DEF x, q
      <3>12. P[d \o c] = [commands |-> P[d].commands \o then.commands, pending |-> then.pending]
        BY Zenon, <3>5, <3>9, <3>10, <3>11
      <3> QED
        BY Zenon, <3>10, <3>12 DEF InPieces, P, then
    <2> QED
      BY Zenon, <2>1, <2>2
  <1> HIDE DEF N
  <1>5. Nat \subseteq N
    BY Zenon, <1>3, <1>4, Induction
  <1>6. Len(b) + 1 \in Nat /\ Len(b) < Len(b) + 1
    OBVIOUS
  <1> QED
    BY Zenon, <1>5, <1>6 DEF N

-----------------------------------------------------------------------------
\* The stream in pieces.

\* An argument as encodeRespCommand writes it.
EncodedToken(token) == <<"$">> \o Decimal(Len(token)) \o EndOfLine \o token \o EndOfLine

EncodedTokens(tokens) == [i \in DOMAIN tokens |-> EncodedToken(tokens[i])]

\* An encoded argument is bytes.
LEMMA EncodedTokenType ==
  ASSUME NEW token \in Seq(Byte)
  PROVE  EncodedToken(token) \in Seq(Byte)
  <1> DEFINE d == Decimal(Len(token))
             s == <<"$">>
             e == EndOfLine
  <1>1. d \in Seq(Byte) /\ e \in Seq(Byte) /\ s \in Seq(Byte)
    <2>1. Len(token) \in Nat
      OBVIOUS
    <2>2. s \in Seq(Byte)
      BY ByteAssumption
    <2> QED
      BY Zenon, <2>1, <2>2, DecimalFacts, EndOfLineFacts
  <1> HIDE DEF d, s, e
  <1>2. s \o d \o e \o token \o e \in Seq(Byte)
    BY <1>1
  <1> QED
    BY Zenon, <1>2 DEF EncodedToken, d, s, e

\* An encoded command is bytes: its header and its arguments.
LEMMA EncodedType ==
  ASSUME NEW tokens \in Seq(Seq(Byte))
  PROVE  /\ encodeRespCommand(tokens) = <<"*">> \o Decimal(Len(tokens)) \o EndOfLine \o Joined(EncodedTokens(tokens))
         /\ EncodedTokens(tokens) \in Seq(Seq(Byte)) /\ Len(EncodedTokens(tokens)) = Len(tokens)
         /\ encodeRespCommand(tokens) \in Seq(Byte)
  <1> DEFINE E == EncodedTokens(tokens)
  <1>1. encodeRespCommand(tokens) = <<"*">> \o Decimal(Len(tokens)) \o EndOfLine \o Joined(E)
    BY Zenon DEF encodeRespCommand, EncodedTokens, EncodedToken
  <1>2. DOMAIN tokens = 1 .. Len(tokens) /\ Len(tokens) \in Nat
    OBVIOUS
  <1>3. E \in Seq(Seq(Byte)) /\ Len(E) = Len(tokens)
    <2>1. ASSUME NEW i \in 1 .. Len(tokens)
          PROVE  EncodedToken(tokens[i]) \in Seq(Byte)
      <3>1. tokens[i] \in Seq(Byte)
        BY ElementOfSeq
      <3> QED
        BY Zenon, <3>1, EncodedTokenType
    <2>2. E \in [1 .. Len(tokens) -> Seq(Byte)]
      BY Zenon, <1>2, <2>1 DEF EncodedTokens
    <2> HIDE DEF E
    <2> QED
      BY <1>2, <2>2
  <1> DEFINE d == Decimal(Len(tokens))
             s == <<"*">>
             e == EndOfLine
             j == Joined(E)
  <1>4. d \in Seq(Byte) /\ e \in Seq(Byte) /\ s \in Seq(Byte) /\ j \in Seq(Byte)
    <2>1. s \in Seq(Byte)
      BY ByteAssumption
    <2> QED
      BY Zenon, <1>2, <1>3, <2>1, DecimalFacts, EndOfLineFacts, JoinedType
  <1> HIDE DEF d, s, e, j
  <1>5. s \o d \o e \o j \in Seq(Byte)
    BY <1>4
  <1> QED
    BY Zenon, <1>1, <1>3, <1>5 DEF d, s, e, j

\* The commands of a source one behind the other.
EncodedCommands(whole) == [i \in DOMAIN whole |-> encodeRespCommand(whole[i])]

\* Encoded commands are bytes.
LEMMA EncodedCommandsType ==
  ASSUME NEW whole \in Seq(Seq(Seq(Byte)))
  PROVE  EncodedCommands(whole) \in Seq(Seq(Byte)) /\ Len(EncodedCommands(whole)) = Len(whole)
  <1> DEFINE E == EncodedCommands(whole)
  <1>1. DOMAIN whole = 1 .. Len(whole) /\ Len(whole) \in Nat
    OBVIOUS
  <1>2. ASSUME NEW i \in 1 .. Len(whole)
        PROVE  encodeRespCommand(whole[i]) \in Seq(Byte)
    <2>1. whole[i] \in Seq(Seq(Byte))
      BY ElementOfSeq
    <2> QED
      BY Zenon, <2>1, EncodedType
  <1>3. E \in [1 .. Len(whole) -> Seq(Byte)]
    BY Zenon, <1>1, <1>2 DEF EncodedCommands
  <1> HIDE DEF E
  <1>4. E \in Seq(Seq(Byte)) /\ Len(E) = Len(whole)
    BY <1>1, <1>3
  <1> QED
    BY Zenon, <1>4 DEF E

\* A source is bytes.
LEMMA BytesType ==
  ASSUME NEW s \in Sources
  PROVE  Bytes(s) \in Seq(Byte)
  <1> DEFINE t == encodeRespCommand(s.torn)
             front == SubSeq(t, 1, s.cut)
             j == Joined(EncodedCommands(s.whole))
  <1>1. s.torn \in Seq(Seq(Byte)) /\ s.cut \in 0 .. Len(t) /\ s.whole \in Seq(Seq(Seq(Byte))) /\ s.raw \in Seq(Byte)
    BY Zenon, SourcesAssumption
  <1>2. t \in Seq(Byte) /\ j \in Seq(Byte)
    BY Zenon, <1>1, EncodedType, EncodedCommandsType, JoinedType
  <1> HIDE DEF t, j
  <1>3. front \in Seq(Byte)
    <2>1. s.cut \in Int /\ s.cut <= Len(t) /\ 1 \in Nat \ {0}
      BY <1>1
    <2> QED
      BY Zenon, <1>2, <2>1, InFront
  <1>4. Bytes(s) = front \o j \o s.raw
    BY Zenon DEF Bytes, EncodedCommands, t, j
  <1> HIDE DEF front
  <1>5. front \o j \o s.raw \in Seq(Byte)
    BY <1>1, <1>2, <1>3
  <1> QED
    BY Zenon, <1>4, <1>5

\* ChunkingInvisible with what it needs of the rest of the state.
ChunkingInv == source \in Sources /\ received \in 0 .. Len(Bytes(source)) /\ ChunkingInvisible

\* A recv keeps the invariant: the bytes kept and those that arrive are two pieces.
LEMMA ChunkingHolds == Spec => []ChunkingInv
  <1> DEFINE all == Bytes(source)
             P == parseAvailable
  <1>1. Init => ChunkingInv
    <2> SUFFICES ASSUME Init
                 PROVE  ChunkingInv
      OBVIOUS
    <2>1. source \in Sources /\ received = 0 /\ pending = <<>> /\ commands = <<>>
      BY Zenon DEF Init
    <2>2. all \in Seq(Byte)
      BY Zenon, <2>1, BytesType
    <2> HIDE DEF all
    <2>3. received \in 0 .. Len(all) /\ SubSeq(all, 1, received) = <<>> /\ <<>> \in Seq(Byte)
      BY <2>1, <2>2
    <2>4. P[<<>>] = [commands |-> <<>>, pending |-> <<>>]
      BY Zenon, <2>3, AvailableFacts DEF ParsedFrom
    <2> QED
      BY Zenon, <2>1, <2>3, <2>4 DEF ChunkingInv, ChunkingInvisible, all
  <1>2. ChunkingInv /\ [Next]_vars => ChunkingInv'
    <2> SUFFICES ASSUME ChunkingInv, [Next]_vars
                 PROVE  ChunkingInv'
      OBVIOUS
    <2>1. CASE UNCHANGED vars
      BY Zenon, <2>1 DEF ChunkingInv, ChunkingInvisible, vars
    <2>2. ASSUME NEW n \in Sizes, Receive(n)
          PROVE  ChunkingInv'
      <3> DEFINE b == SubSeq(all, 1, received)
                 c == SubSeq(all, received + 1, received + n)
                 then == P[pending \o c]
      <3>1. source \in Sources /\ received \in 0 .. Len(all) /\ ChunkingInvisible
        BY Zenon DEF ChunkingInv
      <3>2. all \in Seq(Byte)
        BY Zenon, <3>1, BytesType
      <3>3. n \in 1 .. Len(all) - received
        BY Zenon DEF Sizes
      <3>4. /\ source' = source /\ received' = received + n
            /\ pending' = then.pending /\ commands' = commands \o then.commands
        BY Zenon, <2>2 DEF Receive
      <3>5. [commands |-> commands, pending |-> pending] = P[b]
        BY Zenon, <3>1 DEF ChunkingInvisible
      <3>6. Bytes(source)' = all
        BY Zenon, <3>4
      <3> HIDE DEF all
      <3>7. n \in Nat /\ received + n <= Len(all) /\ received + n \in 0 .. Len(all)
        BY <3>1, <3>2, <3>3
      <3>8. b \in Seq(Byte) /\ c \in Seq(Byte) /\ SubSeq(all, 1, received + n) = b \o c
        BY Zenon, <3>1, <3>2, <3>7, PrefixGrows
      <3> HIDE DEF b, c
      <3>9. P[b].commands = commands /\ P[b].pending = pending
        <4> DEFINE q == P[b]
        <4> HIDE DEF q
        <4>1. [commands |-> commands, pending |-> pending] = q
          BY Zenon, <3>5 DEF q
        <4>2. q.commands = commands /\ q.pending = pending
          BY <4>1
        <4> QED
          BY Zenon, <4>2 DEF q
      <3>10. P[b \o c] = [commands |-> commands \o then.commands, pending |-> then.pending]
        <4>1. InPieces(b, c)
          BY Zenon, <3>8, PiecesFacts
        <4> QED
          BY Zenon, <3>9, <4>1 DEF InPieces
      <3>11. ChunkingInvisible'
        BY Zenon, <3>4, <3>6, <3>8, <3>10 DEF ChunkingInvisible
      <3> QED
        BY Zenon, <3>1, <3>4, <3>6, <3>7, <3>11 DEF ChunkingInv
    <2> QED
      BY Zenon, <2>1, <2>2 DEF Next
  <1> QED
    BY <1>1, <1>2, PTL DEF Spec

\* However recv cuts the stream, the commands handed on and the bytes kept are those
\* of one parse of all the bytes received, for every source and every sequence of
\* pieces (parseAvailable, handleClient).
THEOREM ChunkingTheorem == Spec => []ChunkingInvisible
  <1>1. ChunkingInv => ChunkingInvisible
    BY Zenon DEF ChunkingInv
  <1> QED
    BY <1>1, ChunkingHolds, PTL

-----------------------------------------------------------------------------
\* Reading the log back.

\* parseIntegerLine reads the number that was written.
LEMMA DecimalRead ==
  ASSUME NEW n \in Nat
  PROVE  WholeNumber(AfterSpace(CString(Decimal(n)))) = n
  <1> DEFINE d == Decimal(n)
             R == Range(Digits)
  <1>1. /\ d \in Seq(Byte) /\ Len(d) \in Nat \ {0} /\ d \in Seq(R) /\ Number(d) = n
        /\ \A i \in 1 .. Len(d) : d[i] \in R /\ d[i] \notin Space
    BY Zenon, DecimalFacts, UnsignedRead, DigitsNotSpace
  <1> HIDE DEF d, R
  <1>2. FirstNotIn(d, Space) = 1
    <2> DEFINE f == FirstNotIn(d, Space)
    <2>1. \/ f = 0 /\ \A i \in 1 .. Len(d) : d[i] \in Space
          \/ /\ f \in 1 .. Len(d) /\ d[f] \notin Space
             /\ \A i \in 1 .. Len(d) : d[i] \notin Space => f <= i
      BY Zenon, <1>1, FirstNotInFacts
    <2> HIDE DEF f
    <2>2. 1 \in 1 .. Len(d) /\ d[1] \notin Space
      BY <1>1
    <2>3. f = 1
      BY <1>1, <2>1, <2>2
    <2> QED
      BY Zenon, <2>3 DEF f
  <1>3. AfterSpace(d) = d
    <2>1. SubSeq(d, 1, Len(d)) = d
      BY <1>1, SubSeqFull
    <2>2. 1 # 0
      OBVIOUS
    <2> QED
      BY Zenon, <1>2, <2>1, <2>2 DEF AfterSpace
  <1>4. d # <<>> /\ Range(d) \subseteq R
    <2>1. \A i \in DOMAIN d : d[i] \in R
      BY <1>1
    <2>2. d # <<>>
      BY <1>1
    <2> QED
      BY Zenon, <2>1, <2>2 DEF Range
  <1>5. \A x \in R : x \notin {"+", "-", "NUL"}
    BY Zenon, DigitsPlain DEF R
  <1>6. CString(d) = d
    <2> DEFINE what == <<"NUL">>
               nul == Find(d, what, 1)
    <2>1. what \in Seq(Byte) /\ Len(what) = 1 /\ 1 \in Nat \ {0} /\ what[1] = "NUL"
      BY NulAssumption
    <2> HIDE DEF what
    <2>2. nul = 0 \/ FirstAt(d, what, 1, nul)
      BY Zenon, <1>1, <2>1, FindFacts
    <2> HIDE DEF nul
    <2>3. ASSUME FirstAt(d, what, 1, nul)
          PROVE  FALSE
      <3>1. nul \in 1 .. Len(d) - Len(what) + 1 /\ SubSeq(d, nul, nul + Len(what) - 1) = what
        BY Zenon, <2>3 DEF FirstAt
      <3>2. nul \in 1 .. Len(d) /\ nul + Len(what) - 1 = nul
        BY <1>1, <2>1, <3>1
      <3>3. SubSeq(d, nul, nul)[1] = d[nul]
        <4>1. d \in Seq(Byte) /\ nul \in 1 .. Len(d)
          BY Zenon, <1>1, <3>2
        <4> QED
          BY ONLY <4>1
      <3>4. d[nul] = "NUL"
        BY Zenon, <2>1, <3>1, <3>2, <3>3
      <3> QED
        BY Zenon, <1>1, <1>5, <3>2, <3>4
    <2> QED
      BY Zenon, <2>2, <2>3 DEF CString, nul, what
  <1>7. d[1] \notin {"+", "-"}
    <2>1. 1 \in 1 .. Len(d)
      BY <1>1
    <2> QED
      BY Zenon, <1>1, <1>5, <2>1
  <1>8. WholeNumber(d) = Number(d)
    BY Zenon, <1>4, <1>7 DEF WholeNumber, Signed, R
  <1> QED
    BY Zenon, <1>1, <1>3, <1>6, <1>8 DEF d

\* The line where a number was written is read as that number.
LEMMA LineRead ==
  ASSUME NEW b \in Seq(Byte), NEW at \in Nat \ {0}, NEW n \in Nat,
         Occurs(b, at, Decimal(n)), Occurs(b, at + Len(Decimal(n)), EndOfLine)
  PROVE  parseIntegerLine(b, at) = [found |-> TRUE, value |-> n, next |-> at + Len(Decimal(n)) + 2]
  <1> DEFINE d == Decimal(n)
             m == Len(d)
             f == at + m
             e == EndOfLine
  <1>1. m \in Nat \ {0} /\ d \in Seq(Byte) /\ \A i \in 1 .. m : d[i] \in Range(Digits)
    BY Zenon, DecimalFacts
  <1>2. e \in Seq(Byte) /\ Len(e) = 2 /\ e[1] = "CR" /\ e[2] = "LF"
    BY Zenon, EndOfLineFacts
  <1>3. Occurs(b, at, d) /\ Occurs(b, f, e)
    BY Zenon
  <1> HIDE DEF e, d
  <1>4. f \in Nat \ {0} /\ f + 2 - 1 <= Len(b) /\ Len(b) \in Nat
    BY <1>1, <1>2, <1>3 DEF Occurs
  <1>5. SubSeq(b, f, f + Len(e) - 1) = e
    BY Zenon, <1>2, <1>3, <1>4, OccursCut
  <1>6. SubSeq(b, at, f - 1) = d
    <2>1. d \in Seq(Byte) /\ Occurs(b, at, d)
      BY Zenon, <1>1, <1>3
    <2> HIDE DEF f
    <2>2. SubSeq(b, at, at + Len(d) - 1) = d
      BY Zenon, <2>1, OccursCut
    <2>3. at + Len(d) - 1 = f - 1
      BY <1>1 DEF f
    <2> QED
      BY Zenon, <2>2, <2>3
  <1>7. ASSUME NEW i \in at .. f - 1
        PROVE  SubSeq(b, i, i + Len(e) - 1) # e
    <2>1. i - at + 1 \in 1 .. m /\ at + (i - at + 1) - 1 = i /\ i \in Nat \ {0} /\ i + 1 <= Len(b)
      BY <1>1, <1>4
    <2>2. b[at + (i - at + 1) - 1] = d[i - at + 1]
      BY Zenon, <1>3, <2>1 DEF Occurs
    <2>3. b[i] \in Range(Digits)
      BY Zenon, <1>1, <2>1, <2>2
    <2>4. "CR" \notin Range(Digits)
      BY Zenon, DigitsNotSpace DEF Space
    <2>5. SubSeq(b, i, i + 1)[1] = b[i]
      BY <2>1
    <2>6. i + Len(e) - 1 = i + 1
      BY <1>2, <2>1
    <2> QED
      BY Zenon, <1>2, <2>3, <2>4, <2>5, <2>6
  <1>8. f \in at .. Len(b) - Len(e) + 1
    BY <1>1, <1>2, <1>4
  <1>9. FirstAt(b, e, at, f)
    BY Zenon, <1>5, <1>7, <1>8 DEF FirstAt
  <1>10. Find(b, e, at) = f
    BY Zenon, <1>2, <1>9, FindUnique
  <1>11. parseIntegerLine(b, at) = [found |-> f # 0, value |-> WholeNumber(AfterSpace(CString(d))), next |-> f + 2]
    BY Zenon, <1>6, <1>10 DEF parseIntegerLine, LineTo, e
  <1>12. f # 0
    BY <1>4
  <1>13. (f # 0) = TRUE
    BY Zenon, <1>12
  <1> QED
    BY Zenon, <1>11, <1>13, DecimalRead DEF d

\* The round adds the argument to what was read, and goes on behind it.
ReadsArgument(b, first, read, token) ==
  Argument(b, Reading(first, read)) = Reading(first + Len(EncodedToken(token)), Append(read, token))

\* A round of the loop reads the argument that was written.
LEMMA ArgumentRead ==
  ASSUME NEW b \in Seq(Byte), NEW first \in Nat, NEW token \in Seq(Byte), NEW read,
         Occurs(b, first + 1, EncodedToken(token))
  PROVE  ReadsArgument(b, first, read, token)
  <1> DEFINE at == first + 1
             L == Len(token)
             d == Decimal(L)
             s == <<"$">>
             e == EndOfLine
             r == Reading(first, read)
             line == parseIntegerLine(b, at + 1)
  <1>1. d \in Seq(Byte) /\ e \in Seq(Byte) /\ s \in Seq(Byte) /\ Len(s) = 1 /\ s[1] = "$" /\ Len(e) = 2 /\ L \in Nat
    <2>1. L \in Nat
      OBVIOUS
    <2>2. s \in Seq(Byte) /\ Len(s) = 1 /\ s[1] = "$"
      BY ByteAssumption
    <2> QED
      BY Zenon, <2>1, <2>2, DecimalFacts, EndOfLineFacts
  <1>2. EncodedToken(token) = (((s \o d) \o e) \o token) \o e
    BY Zenon DEF EncodedToken
  <1>3. r.state = "reading" /\ r.consumed = first /\ r.tokens = read
    BY DEF Reading
  <1>4. Occurs(b, at, (((s \o d) \o e) \o token) \o e) /\ at \in Nat \ {0} /\ Len(b) \in Nat
    <2>1. at \in Nat \ {0} /\ Len(b) \in Nat
      OBVIOUS
    <2> QED
      BY Zenon, <1>2, <2>1
  <1> HIDE DEF d, s, e, at, r
  <1> DEFINE m == Len(d)
             sd == s \o d
             sde == sd \o e
             sdet == sde \o token
  <1>5. /\ m \in Nat /\ sd \in Seq(Byte) /\ sde \in Seq(Byte) /\ sdet \in Seq(Byte)
        /\ Len(sd) = 1 + m /\ Len(sde) = 3 + m /\ Len(sdet) = 3 + m + L /\ Len(sdet \o e) = 5 + m + L
    <2>1. m \in Nat /\ sd \in Seq(Byte) /\ Len(sd) = Len(s) + m
      BY Zenon, <1>1, BothTogether
    <2>2. sde \in Seq(Byte) /\ Len(sde) = Len(sd) + Len(e)
      BY Zenon, <1>1, <2>1, BothTogether
    <2>3. sdet \in Seq(Byte) /\ Len(sdet) = Len(sde) + L
      BY Zenon, <2>2, BothTogether
    <2>4. Len(sdet \o e) = Len(sdet) + Len(e)
      BY Zenon, <1>1, <2>3, BothTogether
    <2>5. Len(s) = 1 /\ Len(e) = 2 /\ L \in Nat
      BY Zenon, <1>1
    <2> HIDE DEF m, L, sd, sde, sdet
    <2>6. Len(sd) = 1 + m /\ Len(sde) = 3 + m /\ Len(sdet) = 3 + m + L /\ Len(sdet \o e) = 5 + m + L
      BY <2>1, <2>2, <2>3, <2>4, <2>5
    <2> QED
      BY Zenon, <2>1, <2>2, <2>3, <2>6
  <1> HIDE DEF m, L
  <1>6. Occurs(b, at, sdet) /\ Occurs(b, at + Len(sdet), e)
    BY Zenon, <1>1, <1>4, <1>5, OccursParts
  <1> HIDE DEF sdet
  <1>7. Occurs(b, at, sde) /\ Occurs(b, at + Len(sde), token)
    BY Zenon, <1>4, <1>5, <1>6, OccursParts DEF sdet
  <1> HIDE DEF sde
  <1>8. Occurs(b, at, sd) /\ Occurs(b, at + Len(sd), e)
    BY Zenon, <1>1, <1>4, <1>5, <1>7, OccursParts DEF sde
  <1> HIDE DEF sd
  <1>9. Occurs(b, at, s) /\ Occurs(b, at + Len(s), d)
    BY Zenon, <1>1, <1>4, <1>5, <1>8, OccursParts DEF sd
  <1>10. b[at] = "$" /\ at <= Len(b)
    <2>1. at + Len(s) - 1 <= Len(b) /\ 1 \in 1 .. Len(s) /\ at + 1 - 1 = at
      BY <1>1, <1>4, <1>9 DEF Occurs
    <2>2. b[at + 1 - 1] = s[1]
      BY Zenon, <1>9, <2>1 DEF Occurs
    <2>3. at <= Len(b)
      BY <1>1, <1>4, <2>1
    <2> QED
      BY Zenon, <1>1, <2>1, <2>2, <2>3
  <1> DEFINE next == at + 1 + m + 2
             end == next + L
  <1>11. line = [found |-> TRUE, value |-> L, next |-> next]
    <2>1. at + 1 \in Nat \ {0} /\ at + Len(s) = at + 1 /\ at + Len(sd) = (at + 1) + Len(d) /\ (at + 1) + Len(d) + 2 = next
      BY <1>1, <1>4, <1>5 DEF m
    <2>2. Occurs(b, at + 1, Decimal(L)) /\ Occurs(b, (at + 1) + Len(Decimal(L)), EndOfLine)
      BY Zenon, <1>8, <1>9, <2>1 DEF d, e
    <2>3. line = [found |-> TRUE, value |-> L, next |-> (at + 1) + Len(Decimal(L)) + 2]
      BY Zenon, <1>1, <2>1, <2>2, LineRead
    <2> QED
      BY Zenon, <2>1, <2>3 DEF d
  <1> HIDE DEF line
  <1>12. line.found = TRUE /\ line.value = L /\ line.next = next
    BY <1>11
  <1>13. /\ next = at + Len(sde) /\ end - 1 = next + L - 1 /\ end = at + Len(sdet) /\ end + 1 = end + 2 - 1
         /\ next \in Nat \ {0} /\ end \in Nat \ {0} /\ ~(L < 0) /\ end + 1 = first + Len(sdet \o e)
    BY SMTT(30), <1>1, <1>4, <1>5 DEF at
  <1>14. SubSeq(b, next, end - 1) = token
    <2>1. Occurs(b, next, token)
      BY Zenon, <1>7, <1>13
    <2> HIDE DEF next, end
    <2>2. SubSeq(b, next, next + Len(token) - 1) = token
      BY Zenon, <1>13, <2>1, OccursCut
    <2> QED
      BY Zenon, <1>13, <2>2 DEF L
  <1>15. SubSeq(b, end, end + 1) = EndOfLine /\ ~(Len(b) < end + 1)
    <2>1. Occurs(b, end, e)
      BY Zenon, <1>6, <1>13
    <2> HIDE DEF next, end
    <2>2. SubSeq(b, end, end + Len(e) - 1) = e
      BY Zenon, <1>1, <1>13, <2>1, OccursCut
    <2>3. ~(Len(b) < end + 1)
      <3>1. end + Len(e) - 1 <= Len(b)
        BY Zenon, <2>1 DEF Occurs
      <3>2. Len(e) = 2 /\ end \in Nat /\ Len(b) \in Nat
        BY Zenon, <1>1, <1>4, <1>13
      <3> QED
        BY <3>1, <3>2
    <2> QED
      BY Zenon, <1>1, <1>13, <2>2, <2>3 DEF e
  <1> HIDE DEF next, end
  <1>16. ArgumentAfter(line, b, read) = Reading(end + 1, Append(read, token))
    <2>1. line.next + line.value = end
      BY Zenon, <1>12 DEF end
    <2> QED
      BY Zenon, <1>12, <1>13, <1>14, <1>15, <2>1 DEF ArgumentAfter
  <1>17. Argument(b, r) = ArgumentAfter(line, b, read)
    <2>1. r.consumed + 1 = at /\ ~(at > Len(b))
      BY <1>3, <1>4, <1>10 DEF at
    <2> QED
      BY Zenon, <1>3, <1>10, <2>1 DEF Argument, line
  <1> QED
    BY Zenon, <1>2, <1>13, <1>16, <1>17 DEF ReadsArgument, r, sdet, sde, sd

\* The parts of an encoded command, and where the pieces of its arguments stand.
LEMMA EncodedParts ==
  ASSUME NEW tokens \in Seq(Seq(Byte))
  PROVE  LET e == encodeRespCommand(tokens)
             d == Decimal(Len(tokens))
         IN /\ e \in Seq(Byte) /\ 3 + Len(d) <= Len(e) /\ Len(e) = 3 + Len(d) + Len(Joined(EncodedTokens(tokens)))
            /\ e # <<>> /\ e[1] = "*" /\ Len(d) \in Nat
            /\ Occurs(e, 2, d) /\ Occurs(e, 2 + Len(d), EndOfLine)
            /\ Occurs(e, 3 + Len(d) + 1, Joined(EncodedTokens(tokens)))
  <1> DEFINE e == encodeRespCommand(tokens)
             L == Len(tokens)
             d == Decimal(L)
             s == <<"*">>
             eol == EndOfLine
             j == Joined(EncodedTokens(tokens))
  <1>1. L \in Nat
    OBVIOUS
  <1>2. s \in Seq(Byte) /\ Len(s) = 1 /\ s[1] = "*"
    BY ByteAssumption
  <1>3. d \in Seq(Byte) /\ eol \in Seq(Byte) /\ Len(eol) = 2
    BY Zenon, <1>1, DecimalFacts, EndOfLineFacts
  <1>4. j \in Seq(Byte) /\ e \in Seq(Byte) /\ e = ((s \o d) \o eol) \o j
    BY Zenon, EncodedType, JoinedType
  <1>5. Occurs(e, 1, e)
    BY Zenon, <1>4, OccursWhole
  <1> HIDE DEF e, d, s, eol, j, L
  <1> DEFINE sd == s \o d
             sde == sd \o eol
             m == Len(d)
  <1>6. m \in Nat /\ sd \in Seq(Byte) /\ Len(sd) = Len(s) + m
    BY Zenon, <1>2, <1>3, BothTogether
  <1>7. sde \in Seq(Byte) /\ Len(sde) = Len(sd) + Len(eol)
    BY Zenon, <1>3, <1>6, BothTogether
  <1>8. Len(e) = Len(sde) + Len(j) /\ Len(j) \in Nat /\ Len(e) \in Nat
    BY Zenon, <1>4, <1>7, BothTogether
  <1>9. Len(s) = 1 /\ Len(eol) = 2
    BY Zenon, <1>2, <1>3
  <1> HIDE DEF sd, sde, m
  <1>10. /\ Len(sd) = 1 + m /\ Len(sde) = 3 + m /\ Len(e) = 3 + m + Len(j) /\ 3 + m <= Len(e)
         /\ 1 \in Nat \ {0} /\ 1 + Len(s) = 2 /\ 1 + Len(sd) = 2 + m /\ 1 + Len(sde) = 3 + m + 1
    BY <1>6, <1>7, <1>8, <1>9
  <1>11. Occurs(e, 1, sde) /\ Occurs(e, 1 + Len(sde), j)
    BY Zenon, <1>4, <1>5, <1>7, <1>10, OccursParts DEF sde, sd
  <1>12. Occurs(e, 1, sd) /\ Occurs(e, 1 + Len(sd), eol)
    BY Zenon, <1>3, <1>4, <1>6, <1>10, <1>11, OccursParts DEF sde
  <1>13. Occurs(e, 1, s) /\ Occurs(e, 1 + Len(s), d)
    BY Zenon, <1>2, <1>3, <1>4, <1>10, <1>12, OccursParts DEF sd
  <1>14. e[1] = "*" /\ e # <<>>
    <2>1. 1 \in 1 .. Len(s) /\ 1 + 1 - 1 = 1
      BY <1>9
    <2>2. e[1 + 1 - 1] = s[1]
      BY Zenon, <1>13, <2>1 DEF Occurs
    <2>3. e # <<>>
      BY SMTT(30), <1>4, <1>6, <1>8, <1>10
    <2> QED
      BY Zenon, <1>2, <2>1, <2>2, <2>3
  <1> QED
    BY Zenon, <1>4, <1>6, <1>10, <1>11, <1>12, <1>13, <1>14 DEF e, d, L, eol, j, m

\* parseRespFrame reads the command that encodeRespCommand wrote.
LEMMA FrameRead ==
  ASSUME NEW tokens \in Seq(Seq(Byte))
  PROVE  parseRespFrame(encodeRespCommand(tokens)) = Frame(Len(encodeRespCommand(tokens)), tokens)
  <1> DEFINE e == encodeRespCommand(tokens)
             L == Len(tokens)
             d == Decimal(L)
             first == 3 + Len(d)
             E == EncodedTokens(tokens)
             j == Joined(E)
  <1>1. /\ e \in Seq(Byte) /\ first <= Len(e) /\ Len(e) = first + Len(j) /\ Len(d) \in Nat
        /\ Occurs(e, 2, d) /\ Occurs(e, 2 + Len(d), EndOfLine) /\ Occurs(e, first + 1, j)
    BY Zenon, EncodedParts
  <1>2. L \in Nat /\ 2 \in Nat \ {0}
    OBVIOUS
  <1>3. E \in Seq(Seq(Byte)) /\ Len(E) = L /\ j \in Seq(Byte)
    BY Zenon, EncodedType, JoinedType
  <1>4. PICK h : Piles(h, E)
    BY Zenon, <1>3, SomePile
  <1>5. j = h[L] /\ h \in [0 .. L -> Seq(Byte)] /\ h[0] = <<>> /\ \A n \in 1 .. L : h[n] = h[n - 1] \o E[n]
    BY Zenon, <1>3, <1>4, JoinedIs DEF Piles
  <1>6. parseIntegerLine(e, 2) = [found |-> TRUE, value |-> L, next |-> 2 + Len(d) + 2]
    BY Zenon, <1>1, <1>2, LineRead
  <1>7. \A n \in DOMAIN tokens : E[n] = EncodedToken(tokens[n])
    BY Zenon DEF EncodedTokens
  <1> HIDE DEF e, d, E, j
  <1>8. first \in 1 .. Len(e) /\ first \in Nat /\ (2 + Len(d) + 2) - 1 = first /\ ~(L < 0)
    <2>1. Len(d) \in Nat /\ first <= Len(e) /\ Len(e) \in Nat
      <3>1. Len(e) \in Nat
        BY <1>1
      <3> QED
        BY Zenon, <1>1, <3>1
    <2> QED
      BY <1>2, <2>1
  <1>9. parseRespFrame(e) = Arguments(e, first, L)
    <2> DEFINE line == parseIntegerLine(e, 2)
    <2> HIDE DEF line
    <2>1. line = [found |-> TRUE, value |-> L, next |-> 2 + Len(d) + 2]
      BY Zenon, <1>6 DEF line
    <2>2. line.found = TRUE /\ line.value = L /\ line.next = 2 + Len(d) + 2
      BY <2>1
    <2> QED
      BY Zenon, <1>8, <2>2 DEF parseRespFrame, FrameAfter, line
  <1>10. PICK after : Looping(after, e, first) /\ Arguments(e, first, L) = Ended(after[L])
    BY Zenon, <1>1, <1>2, <1>8, ArgumentsFacts
  <1> DEFINE N == {n \in Nat : n <= L => after[n] = Reading(first + Len(h[n]), SubSeq(tokens, 1, n))}
  <1> HIDE DEF first
  <1>11. 0 \in N
    <2>1. Len(h[0]) = 0 /\ first + 0 = first /\ SubSeq(tokens, 1, 0) = <<>>
      BY <1>5, <1>8
    <2>2. after[0] = Reading(first, <<>>)
      BY Zenon, <1>10 DEF Looping
    <2> QED
      BY Zenon, <2>1, <2>2
  <1>12. ASSUME NEW n \in Nat, n \in N
         PROVE  n + 1 \in N
    <2> SUFFICES ASSUME n + 1 <= L
                 PROVE  after[n + 1] = Reading(first + Len(h[n + 1]), SubSeq(tokens, 1, n + 1))
      OBVIOUS
    <2> DEFINE read == SubSeq(tokens, 1, n)
               token == tokens[n + 1]
               x == h[n]
    <2>1. /\ n + 1 \in 1 .. L /\ n + 1 \in 0 .. L /\ n \in 0 .. L /\ (n + 1) - 1 = n /\ n <= L
          /\ L \in n + 1 .. L
      BY <1>2
    <2>2. after[n] = Reading(first + Len(x), read)
      BY Zenon, <1>12, <2>1
    <2>3. token \in Seq(Byte) /\ n + 1 \in DOMAIN tokens
      BY <2>1, ElementOfSeq
    <2>4. h[n + 1] = x \o EncodedToken(token) /\ x \in Seq(Byte)
      BY Zenon, <1>5, <1>7, <2>1, <2>3
    <2>5. Begins(h[n + 1], j)
      BY Zenon, <1>3, <1>4, <1>5, <2>1, PilePrefix
    <2>6. PICK rest \in Seq(Byte) : j = (x \o EncodedToken(token)) \o rest
      BY Zenon, <2>4, <2>5 DEF Begins
    <2>7. EncodedToken(token) \in Seq(Byte)
      BY Zenon, <2>3, EncodedTokenType
    <2>8. Append(read, token) = SubSeq(tokens, 1, n + 1)
      BY <2>1
    <2> HIDE DEF x, token, read
    <2> DEFINE t == EncodedToken(token)
               y == x \o t
    <2>9. y \in Seq(Byte) /\ Len(y) = Len(x) + Len(t) /\ Len(x) \in Nat /\ Len(t) \in Nat
      BY Zenon, <2>4, <2>7, BothTogether
    <2> HIDE DEF t
    <2>10. first + 1 \in Nat \ {0} /\ first + Len(x) \in Nat /\ (first + 1) + Len(x) = (first + Len(x)) + 1
      BY <1>8, <2>9
    <2>11. Occurs(e, first + 1, y)
      BY Zenon, <1>1, <2>6, <2>9, <2>10, OccursParts DEF t
    <2>12. Occurs(e, (first + 1) + Len(x), t)
      BY Zenon, <1>1, <2>4, <2>7, <2>10, <2>11, OccursParts DEF t
    <2>13. Occurs(e, (first + Len(x)) + 1, EncodedToken(token))
      BY Zenon, <2>10, <2>12 DEF t
    <2>14. Argument(e, Reading(first + Len(x), read)) = Reading((first + Len(x)) + Len(EncodedToken(token)), Append(read, token))
      <3>1. ReadsArgument(e, first + Len(x), read, token)
        BY Zenon, <1>1, <2>3, <2>10, <2>13, ArgumentRead
      <3> QED
        BY Zenon, <3>1 DEF ReadsArgument
    <2>15. after[n + 1] = Argument(e, after[n])
      BY Zenon, <1>10 DEF Looping
    <2>16. (first + Len(x)) + Len(t) = first + Len(y)
      BY <1>8, <2>9
    <2> QED
      BY Zenon, <2>2, <2>4, <2>8, <2>14, <2>15, <2>16 DEF t
  <1> HIDE DEF N
  <1>13. Nat \subseteq N
    BY Zenon, <1>11, <1>12, Induction
  <1>14. after[L] = Reading(first + Len(h[L]), SubSeq(tokens, 1, L))
    <2>1. L <= L
      BY <1>2
    <2> QED
      BY Zenon, <1>2, <1>13, <2>1 DEF N
  <1>15. SubSeq(tokens, 1, L) = tokens
    BY SubSeqFull DEF L
  <1>16. after[L] = Reading(Len(e), tokens)
    BY Zenon, <1>1, <1>5, <1>14, <1>15
  <1>17. Ended(Reading(Len(e), tokens)) = Frame(Len(e), tokens)
    BY DEF Ended, Reading
  <1> QED
    BY Zenon, <1>9, <1>10, <1>16, <1>17 DEF e

\* A command that encodeRespCommand wrote, as it is handed on.
Sent(tokens) == [tokens |-> tokens, protocol |-> "Resp"]

\* A whole command is handed on when its last byte is there, and kept until then.
LEMMA EncodedRead ==
  ASSUME NEW tokens \in Seq(Seq(Byte))
  PROVE  LET e == encodeRespCommand(tokens)
         IN /\ parseAvailable[e] = [commands |-> <<Sent(tokens)>>, pending |-> <<>>]
            /\ \A k \in 0 .. Len(e) - 1 :
                 parseAvailable[SubSeq(e, 1, k)] = [commands |-> <<>>, pending |-> SubSeq(e, 1, k)]
  <1> DEFINE e == encodeRespCommand(tokens)
             P == parseAvailable
  <1>1. e \in Seq(Byte) /\ e # <<>> /\ e[1] = "*"
    BY Zenon, EncodedParts
  <1>2. FirstCommand(e) = RespCommand(Frame(Len(e), tokens))
    BY Zenon, <1>1, FrameRead DEF FirstCommand
  <1> HIDE DEF e
  <1> DEFINE f == Frame(Len(e), tokens)
  <1>3. f.state = "complete" /\ f.consumed = Len(e) /\ f.tokens = tokens
    BY DEF Frame
  <1> HIDE DEF f
  <1>4. FirstCommand(e) = [consumed |-> Len(e), out |-> <<Sent(tokens)>>]
    <2>1. "complete" # "incomplete"
      BY Zenon
    <2> QED
      BY Zenon, <1>2, <1>3, <2>1 DEF RespCommand, Sent, f
  <1> DEFINE c == FirstCommand(e)
  <1>5. c.consumed = Len(e) /\ c.out = <<Sent(tokens)>>
    <2> HIDE DEF c
    <2>1. c = [consumed |-> Len(e), out |-> <<Sent(tokens)>>]
      BY Zenon, <1>4 DEF c
    <2> QED
      BY <2>1
  <1>6. P[<<>>] = [commands |-> <<>>, pending |-> <<>>] /\ <<>> \in Seq(Byte)
    <2>1. <<>> \in Seq(Byte)
      OBVIOUS
    <2> QED
      BY Zenon, <2>1, AvailableFacts DEF ParsedFrom
  <1>7. Len(e) \in Nat \ {0} /\ SubSeq(e, Len(e) + 1, Len(e)) = <<>>
    BY <1>1
  <1>8. P[e] = [commands |-> <<Sent(tokens)>>, pending |-> <<>>]
    <2> DEFINE q == P[<<>>]
    <2>1. q.commands = <<>> /\ q.pending = <<>>
      <3> HIDE DEF q
      <3>1. q = [commands |-> <<>>, pending |-> <<>>]
        BY Zenon, <1>6 DEF q
      <3> QED
        BY <3>1
    <2>2. Rest(e) = <<>> /\ c.consumed # 0
      BY Zenon, <1>5, <1>7 DEF Rest
    <2>3. P[e] = [commands |-> c.out \o q.commands, pending |-> q.pending]
      BY Zenon, <1>1, <2>2, AvailableFacts DEF ParsedFrom
    <2>4. <<Sent(tokens)>> \o <<>> = <<Sent(tokens)>>
      OBVIOUS
    <2> QED
      BY Zenon, <1>5, <2>1, <2>3, <2>4
  <1>9. ASSUME NEW k \in 0 .. Len(e) - 1
        PROVE  P[SubSeq(e, 1, k)] = [commands |-> <<>>, pending |-> SubSeq(e, 1, k)]
    <2> DEFINE p == SubSeq(e, 1, k)
               rest == SubSeq(e, k + 1, k + (Len(e) - k))
    <2>1. k \in 0 .. Len(e) /\ Len(e) - k \in Nat /\ k + (Len(e) - k) = Len(e) /\ Len(e) <= Len(e)
      BY <1>7
    <2>2. p \in Seq(Byte) /\ rest \in Seq(Byte) /\ SubSeq(e, 1, k + (Len(e) - k)) = p \o rest
      BY Zenon, <1>1, <2>1, PrefixGrows
    <2>3. SubSeq(e, 1, Len(e)) = e /\ Len(p) = k
      BY <1>1, <2>1, SubSeqFull
    <2> HIDE DEF p, rest
    <2>4. e = p \o rest
      BY Zenon, <2>1, <2>2, <2>3
    <2>5. ASSUME p # <<>>, FirstCommand(p).consumed # 0
          PROVE  FALSE
      <3>1. FirstCommand(p).consumed \in 0 .. Len(p) /\ FirstCommand(p \o rest) = FirstCommand(p)
        BY Zenon, <2>2, <2>5, FirstCommandFacts
      <3>2. Len(e) \in 0 .. k
        BY Zenon, <1>5, <2>3, <2>4, <3>1
      <3> QED
        BY <1>7, <3>2
    <2>6. P[p] = ParsedFrom(P, p)
      BY Zenon, <2>2, AvailableFacts
    <2>7. P[p] = [commands |-> <<>>, pending |-> p]
      BY Zenon, <2>5, <2>6 DEF ParsedFrom
    <2> QED
      BY Zenon, <2>7 DEF p
  <1> QED
    BY Zenon, <1>8, <1>9 DEF e

\* The first commands of a log, as they are handed on.
AllSent(whole, n) == [i \in 1 .. n |-> Sent(whole[i])]

Reads(whole, g, n) == parseAvailable[g[n]] = [commands |-> AllSent(whole, n), pending |-> <<>>]

\* Whole commands are handed on, and nothing is kept.
LEMMA PileRead ==
  ASSUME NEW whole \in Seq(Seq(Seq(Byte))), NEW g, Piles(g, EncodedCommands(whole))
  PROVE  \A n \in 0 .. Len(whole) : Reads(whole, g, n)
  <1> DEFINE E == EncodedCommands(whole)
             L == Len(whole)
             P == parseAvailable
             N == {n \in Nat : n <= L => Reads(whole, g, n)}
  <1>1. L \in Nat /\ DOMAIN whole = 1 .. L
    OBVIOUS
  <1>2. E \in Seq(Seq(Byte)) /\ Len(E) = L
    BY Zenon, EncodedCommandsType
  <1>3. g \in [0 .. L -> Seq(Byte)] /\ g[0] = <<>> /\ \A n \in 1 .. L : g[n] = g[n - 1] \o E[n]
    BY Zenon, <1>2 DEF Piles
  <1>4. 0 \in N
    <2>1. <<>> \in Seq(Byte)
      OBVIOUS
    <2>2. P[<<>>] = [commands |-> <<>>, pending |-> <<>>]
      BY Zenon, <2>1, AvailableFacts DEF ParsedFrom
    <2>3. AllSent(whole, 0) = <<>>
      BY DEF AllSent
    <2>4. Reads(whole, g, 0)
      BY Zenon, <1>3, <2>2, <2>3 DEF Reads
    <2> QED
      BY Zenon, <2>4
  <1>5. ASSUME NEW n \in Nat, n \in N
        PROVE  n + 1 \in N
    <2> SUFFICES ASSUME n + 1 <= L
                 PROVE  Reads(whole, g, n + 1)
      OBVIOUS
    <2> DEFINE tokens == whole[n + 1]
               e == encodeRespCommand(tokens)
               b == g[n]
    <2>1. n + 1 \in 1 .. L /\ n \in 0 .. L /\ (n + 1) - 1 = n /\ n <= L
      BY <1>1
    <2>2. tokens \in Seq(Seq(Byte))
      BY <2>1, ElementOfSeq
    <2>3. g[n + 1] = b \o e /\ b \in Seq(Byte)
      BY Zenon, <1>1, <1>3, <2>1 DEF EncodedCommands
    <2>4. e \in Seq(Byte) /\ P[e] = [commands |-> <<Sent(tokens)>>, pending |-> <<>>]
      BY Zenon, <2>2, EncodedType, EncodedRead
    <2>5. P[b] = [commands |-> AllSent(whole, n), pending |-> <<>>]
      BY Zenon, <1>5, <2>1 DEF Reads
    <2>6. AllSent(whole, n) \o <<Sent(tokens)>> = AllSent(whole, n + 1)
      BY <2>1 DEF AllSent
    <2> HIDE DEF tokens, e, b
    <2>7. InPieces(b, e)
      BY Zenon, <2>3, <2>4, PiecesFacts
    <2> DEFINE q == P[b]
               r == P[e]
    <2>8. /\ q.commands = AllSent(whole, n) /\ q.pending = <<>> /\ <<>> \o e = e
          /\ r.commands = <<Sent(tokens)>> /\ r.pending = <<>>
      <3> HIDE DEF q, r
      <3>1. q = [commands |-> AllSent(whole, n), pending |-> <<>>] /\ r = [commands |-> <<Sent(tokens)>>, pending |-> <<>>]
        BY Zenon, <2>4, <2>5 DEF q, r
      <3>2. <<>> \o e = e
        BY <2>4
      <3> QED
        BY Zenon, <3>1, <3>2
    <2>9. P[b \o e] = [commands |-> AllSent(whole, n) \o <<Sent(tokens)>>, pending |-> <<>>]
      BY Zenon, <2>7, <2>8 DEF InPieces
    <2> QED
      BY Zenon, <2>3, <2>6, <2>9 DEF Reads
  <1> HIDE DEF N
  <1>6. Nat \subseteq N
    BY Zenon, <1>4, <1>5, Induction
  <1>7. \A n \in 0 .. L : n \in Nat /\ n <= L
    BY <1>1
  <1> QED
    BY Zenon, <1>6, <1>7 DEF N

\* The bytes of the first commands.
LEMMA EndOfCommand ==
  ASSUME NEW whole \in Seq(Seq(Seq(Byte))), NEW g, Piles(g, EncodedCommands(whole)), NEW n \in 0 .. Len(whole)
  PROVE  Joined([i \in 1 .. n |-> encodeRespCommand(whole[i])]) = g[n]
  <1> DEFINE E == EncodedCommands(whole)
             L == Len(whole)
             parts == [i \in 1 .. n |-> encodeRespCommand(whole[i])]
             h == [i \in 0 .. n |-> g[i]]
  <1>1. L \in Nat /\ DOMAIN whole = 1 .. L
    OBVIOUS
  <1>2. E \in Seq(Seq(Byte)) /\ Len(E) = L
    BY Zenon, EncodedCommandsType
  <1>3. g \in [0 .. L -> Seq(Byte)] /\ g[0] = <<>> /\ \A i \in 1 .. L : g[i] = g[i - 1] \o E[i]
    BY Zenon, <1>2 DEF Piles
  <1>4. /\ \A i \in 1 .. n : i \in 1 .. L /\ i \in 0 .. n /\ i - 1 \in 0 .. n
        /\ \A i \in 0 .. n : i \in 0 .. L
        /\ 0 \in 0 .. n /\ n \in 0 .. n /\ n \in Nat
    BY <1>1
  <1>5. ASSUME NEW i \in 1 .. n
        PROVE  parts[i] = E[i] /\ E[i] \in Seq(Byte)
    <2>1. i \in 1 .. L
      BY Zenon, <1>4
    <2>2. parts[i] = E[i]
      BY Zenon, <1>1, <2>1 DEF EncodedCommands
    <2>3. E[i] \in Seq(Byte)
      <3> HIDE DEF E
      <3> QED
        BY <1>2, <2>1, ElementOfSeq
    <2> QED
      BY Zenon, <2>2, <2>3
  <1> HIDE DEF E
  <1>6. parts \in Seq(Seq(Byte)) /\ Len(parts) = n
    <2>1. parts \in [1 .. n -> Seq(Byte)]
      BY Zenon, <1>5
    <2> HIDE DEF parts
    <2> QED
      BY <1>4, <2>1
  <1> HIDE DEF parts
  <1>7. h \in [0 .. n -> Seq(Byte)] /\ h[0] = <<>> /\ h[n] = g[n]
    BY Zenon, <1>3, <1>4
  <1>8. ASSUME NEW i \in 1 .. n
        PROVE  h[i] = h[i - 1] \o parts[i]
    <2>1. h[i] = g[i] /\ h[i - 1] = g[i - 1]
      BY Zenon, <1>4
    <2> QED
      BY Zenon, <1>3, <1>4, <1>5, <2>1
  <1> HIDE DEF h
  <1>9. Piles(h, parts)
    BY Zenon, <1>6, <1>7, <1>8 DEF Piles
  <1>10. Joined(parts) = h[n]
    BY Zenon, <1>6, <1>9, JoinedIs
  <1> QED
    BY Zenon, <1>7, <1>10 DEF parts

\* A log that ends between two ends of commands is read up to the first of them.
LEMMA PrefixRead ==
  ASSUME NEW whole \in Seq(Seq(Seq(Byte))), NEW g, Piles(g, EncodedCommands(whole)),
         NEW M \in 0 .. Len(whole), NEW r \in Nat, Len(g[M]) <= r, r <= Len(g[Len(whole)]),
         M < Len(whole) => r < Len(g[M + 1])
  PROVE  parseAvailable[SubSeq(g[Len(whole)], 1, r)]
           = [commands |-> AllSent(whole, M), pending |-> SubSeq(g[Len(whole)], Len(g[M]) + 1, r)]
  <1> DEFINE E == EncodedCommands(whole)
             L == Len(whole)
             P == parseAvailable
             all == g[L]
             b == g[M]
             m == Len(b)
             k == r - m
             p == SubSeq(all, m + 1, m + k)
  <1>1. L \in Nat /\ DOMAIN whole = 1 .. L /\ L \in 0 .. L /\ L \in M .. L
    OBVIOUS
  <1>2. E \in Seq(Seq(Byte)) /\ Len(E) = L
    BY Zenon, EncodedCommandsType
  <1>3. g \in [0 .. L -> Seq(Byte)] /\ \A i \in 1 .. L : g[i] = g[i - 1] \o E[i]
    BY Zenon, <1>2 DEF Piles
  <1>4. all \in Seq(Byte) /\ b \in Seq(Byte) /\ m <= r /\ r <= Len(all)
    BY Zenon, <1>1, <1>3
  <1>5. PICK y \in Seq(Byte) : all = b \o y
    <2>1. Begins(b, all)
      BY Zenon, <1>1, <1>2, PilePrefix
    <2> QED
      BY Zenon, <2>1 DEF Begins
  <1>6. Reads(whole, g, M)
    BY Zenon, PileRead
  <1>7. M < L => r < Len(g[M + 1])
    BY Zenon
  <1> HIDE DEF E
  <1>8. m \in 0 .. Len(all) /\ m \in Nat /\ k \in Nat /\ m + k = r /\ Len(all) \in Nat
    <2> HIDE DEF all, b
    <2>1. m \in Nat /\ Len(all) \in Nat
      BY <1>4
    <2> HIDE DEF m
    <2> QED
      BY <1>4, <2>1
  <1>9. /\ SubSeq(all, 1, m) \in Seq(Byte) /\ p \in Seq(Byte)
        /\ SubSeq(all, 1, m + k) = SubSeq(all, 1, m) \o p
    <2> HIDE DEF all, b, k, m
    <2> QED
      BY Zenon, <1>4, <1>8, PrefixGrows
  <1>10. SubSeq(all, 1, m) = b
    <2> HIDE DEF all, b
    <2>1. SubSeq(b, 1, m) = b /\ m \in Int /\ m <= Len(b) /\ 1 \in Nat \ {0}
      BY <1>4, SubSeqFull
    <2>2. SubSeq(b \o y, 1, m) = SubSeq(b, 1, m)
      BY ZenonT(30), <1>4, <2>1, InFront
    <2> QED
      BY Zenon, <1>5, <2>1, <2>2
  <1>11. P[p] = [commands |-> <<>>, pending |-> p]
    <2>1. CASE M = L
      <3>1. all = b
        BY Zenon, <2>1
      <3> HIDE DEF all, b
      <3>2. p = <<>>
        <4>1. m = Len(all) /\ m + k = m
          BY <1>4, <1>8, <3>1
        <4>2. SubSeq(all, m + 1, m) = <<>>
          BY <1>4, <1>8
        <4> QED
          BY Zenon, <4>1, <4>2
      <3>3. P[p] = ParsedFrom(P, p)
        BY Zenon, <1>9, AvailableFacts
      <3> QED
        BY Zenon, <3>2, <3>3 DEF ParsedFrom
    <2>2. CASE M # L
      <3> DEFINE tokens == whole[M + 1]
                 e == encodeRespCommand(tokens)
                 s == SubSeq(e, 1, k)
                 t == SubSeq(e, k + 1, k + (Len(e) - k))
      <3>1. M + 1 \in 1 .. L /\ M + 1 \in 0 .. L /\ L \in M + 1 .. L /\ (M + 1) - 1 = M /\ M < L
        BY Zenon, <1>1, <2>2, BelowEnd
      <3>2. tokens \in Seq(Seq(Byte))
        BY Zenon, <3>1, ElementOfSeq
      <3>3. g[M + 1] = b \o e
        BY Zenon, <1>1, <1>3, <3>1 DEF EncodedCommands, E
      <3>4. PICK z \in Seq(Byte) : all = (b \o e) \o z
        <4>1. Begins(g[M + 1], all)
          BY Zenon, <1>2, <3>1, PilePrefix DEF E
        <4> QED
          BY Zenon, <3>3, <4>1 DEF Begins
      <3>5. e \in Seq(Byte)
        BY Zenon, <3>2, EncodedType
      <3>6. \A i \in 0 .. Len(e) - 1 : P[SubSeq(e, 1, i)] = [commands |-> <<>>, pending |-> SubSeq(e, 1, i)]
        BY Zenon, <3>2, EncodedRead
      <3>7. r < Len(b \o e)
        BY Zenon, <1>7, <3>1, <3>3
      <3> HIDE DEF tokens, e, all, b
      <3>8. b \o e \in Seq(Byte) /\ Len(b \o e) = m + Len(e) /\ Len(e) \in Nat
        BY Zenon, <1>4, <3>5, BothTogether
      <3> HIDE DEF m
      <3>9. /\ k \in 0 .. Len(e) - 1 /\ k \in 0 .. Len(e) /\ Len(e) - k \in Nat /\ k + (Len(e) - k) = Len(e)
            /\ Len(e) <= Len(e) /\ 1 \in Nat \ {0} /\ 1 + m = m + 1 /\ m + 1 \in Nat \ {0}
        BY <1>8, <3>7, <3>8
      <3> HIDE DEF k
      <3>10. s \in Seq(Byte) /\ t \in Seq(Byte) /\ SubSeq(e, 1, k + (Len(e) - k)) = s \o t
        BY ZenonT(30), <3>5, <3>9, PrefixGrows
      <3>11. SubSeq(e, 1, Len(e)) = e /\ Len(s) = k
        BY <3>5, <3>9, SubSeqFull
      <3> HIDE DEF s, t
      <3>12. e = s \o t
        BY Zenon, <3>9, <3>10, <3>11
      <3>13. Occurs(all, 1, (b \o e) \o z)
        BY Zenon, <1>4, <3>4, OccursWhole
      <3>14. Occurs(all, 1, b \o e)
        BY ZenonT(30), <1>4, <3>8, <3>9, <3>13, OccursParts
      <3>15. Occurs(all, 1 + Len(b), e)
        BY ZenonT(30), <1>4, <3>5, <3>9, <3>14, OccursParts
      <3>16. Occurs(all, m + 1, s \o t)
        BY Zenon, <3>9, <3>12, <3>15 DEF m
      <3>17. Occurs(all, m + 1, s)
        BY Zenon, <1>4, <3>9, <3>10, <3>16, OccursParts
      <3>18. SubSeq(all, m + 1, (m + 1) + Len(s) - 1) = s
        BY Zenon, <1>4, <3>9, <3>10, <3>17, OccursCut
      <3>19. (m + 1) + k - 1 = m + k
        BY <1>8
      <3>20. p = s
        BY Zenon, <3>11, <3>18, <3>19
      <3> QED
        BY Zenon, <3>6, <3>9, <3>20 DEF s
    <2> QED
      BY Zenon, <2>1, <2>2
  <1> HIDE DEF all, b, p
  <1>12. InPieces(b, p)
    BY Zenon, <1>4, <1>9, PiecesFacts
  <1> DEFINE q == P[b]
             u == P[p]
  <1>13. q = [commands |-> AllSent(whole, M), pending |-> <<>>] /\ u = [commands |-> <<>>, pending |-> p]
    BY Zenon, <1>6, <1>11 DEF Reads, b
  <1>14. P[b \o p] = [commands |-> q.commands \o P[q.pending \o p].commands, pending |-> P[q.pending \o p].pending]
    BY Zenon, <1>12 DEF InPieces
  <1> HIDE DEF q, u
  <1>15. q.commands = AllSent(whole, M) /\ q.pending = <<>> /\ u.commands = <<>> /\ u.pending = p
    BY Zenon, <1>13
  <1>16. <<>> \o p = p /\ AllSent(whole, M) \o <<>> = AllSent(whole, M)
    <2> DEFINE sent == AllSent(whole, M)
               S == {Sent(whole[i]) : i \in 1 .. M}
    <2>1. sent \in [1 .. M -> S] /\ M \in Nat
      <3>1. M \in Nat
        OBVIOUS
      <3> QED
        BY Zenon, <3>1 DEF AllSent
    <2> HIDE DEF sent, S
    <2>2. sent \in Seq(S) /\ sent \o <<>> = sent
      BY <2>1
    <2>3. <<>> \o p = p
      BY <1>9
    <2> QED
      BY Zenon, <2>2, <2>3 DEF sent
  <1>17. P[b \o p] = [commands |-> AllSent(whole, M), pending |-> p]
    BY Zenon, <1>14, <1>15, <1>16 DEF u
  <1> QED
    BY Zenon, <1>8, <1>9, <1>10, <1>17 DEF all, b, p

\* Commands that encodeRespCommand wrote are read back as they were, whatever bytes
\* their arguments hold and wherever the stream is cut, each when its last byte arrives
\* (encodeRespCommand, parseAvailable).
THEOREM LogTheorem == Spec => []LogReadBack
  <1>1. ChunkingInv => LogReadBack
    <2> SUFFICES ASSUME ChunkingInv, source.cut = 0, source.raw = <<>>
                 PROVE  LogReadBack
      BY Zenon DEF LogReadBack
    <2> DEFINE whole == source.whole
               L == Len(whole)
               E == EncodedCommands(whole)
               all == Bytes(source)
               end(n) == Len(Joined([i \in 1 .. n |-> encodeRespCommand(source.whole[i])]))
               complete == {n \in 0 .. Len(source.whole) : end(n) <= received}
               M == Max(complete)
    <2>1. source \in Sources /\ received \in 0 .. Len(all) /\ ChunkingInvisible
      BY Zenon DEF ChunkingInv
    <2>2. whole \in Seq(Seq(Seq(Byte))) /\ source.torn \in Seq(Seq(Byte))
      BY Zenon, <2>1, SourcesAssumption
    <2>3. E \in Seq(Seq(Byte)) /\ Len(E) = L /\ L \in Nat
      <3>1. L \in Nat
        BY <2>2
      <3> QED
        BY Zenon, <2>2, <3>1, EncodedCommandsType
    <2>4. PICK g : Piles(g, E)
      BY Zenon, <2>3, SomePile
    <2>5. g \in [0 .. L -> Seq(Byte)] /\ g[0] = <<>> /\ Joined(E) = g[L] /\ g[L] \in Seq(Byte) /\ L \in 0 .. L
      <3>1. L \in 0 .. L
        BY <2>3
      <3> QED
        BY Zenon, <2>3, <2>4, <3>1, JoinedIs DEF Piles
    <2>6. all = g[L]
      <3> DEFINE t == encodeRespCommand(source.torn)
                 j == Joined(E)
      <3>1. t \in Seq(Byte)
        BY Zenon, <2>2, EncodedType
      <3>2. all = SubSeq(t, 1, 0) \o j \o <<>>
        BY Zenon DEF Bytes, EncodedCommands
      <3>3. j \in Seq(Byte)
        BY Zenon, <2>5
      <3> HIDE DEF t, j, all
      <3>4. SubSeq(t, 1, 0) \o j \o <<>> = j
        BY <3>1, <3>3
      <3> QED
        BY Zenon, <2>5, <3>2, <3>4 DEF j
    <2>7. ASSUME NEW n \in 0 .. L
          PROVE  end(n) = Len(g[n])
      BY Zenon, <2>2, <2>4, EndOfCommand
    <2> HIDE DEF all, E
    <2>8. received \in Nat /\ received <= Len(g[L])
      <3>1. Len(g[L]) \in Nat
        BY <2>5
      <3> QED
        BY <2>1, <2>6, <3>1
    <2>9. M \in complete /\ \A n \in complete : n <= M
      <3>1. 0 \in complete
        <4>1. 0 \in 0 .. L /\ Len(<<>>) = 0
          BY <2>3
        <4>2. end(0) = 0
          BY Zenon, <2>5, <2>7, <4>1
        <4>3. 0 <= received
          BY <2>8
        <4> QED
          BY Zenon, <4>1, <4>2, <4>3
      <3>2. complete \subseteq 0 .. L
        BY Zenon
      <3> HIDE DEF complete
      <3> QED
        BY Zenon, <2>3, <3>1, <3>2, MaxFacts
    <2>10. M \in 0 .. L /\ end(M) <= received
      BY Zenon, <2>9
    <2>11. \A n \in 0 .. L : end(n) <= received => n <= M
      BY Zenon, <2>9
    <2> HIDE DEF complete, M
    <2>12. Len(g[M]) <= received /\ end(M) = Len(g[M])
      BY Zenon, <2>7, <2>10
    <2>13. M < L => received < Len(g[M + 1])
      <3> SUFFICES ASSUME M < L
                   PROVE  received < Len(g[M + 1])
        OBVIOUS
      <3>1. M + 1 \in 0 .. L /\ ~(M + 1 <= M)
        BY <2>3, <2>10
      <3>2. ~(Len(g[M + 1]) <= received)
        BY Zenon, <2>7, <2>11, <3>1
      <3>3. Len(g[M + 1]) \in Nat
        <4>1. g[M + 1] \in Seq(Byte)
          BY Zenon, <2>5, <3>1
        <4> QED
          BY <4>1
      <3> QED
        BY <2>8, <3>2, <3>3
    <2>14. parseAvailable[SubSeq(g[L], 1, received)]
             = [commands |-> AllSent(whole, M), pending |-> SubSeq(g[L], Len(g[M]) + 1, received)]
      BY Zenon, <2>2, <2>4, <2>8, <2>10, <2>12, <2>13, PrefixRead DEF E
    <2>15. [commands |-> commands, pending |-> pending]
             = [commands |-> AllSent(whole, M), pending |-> SubSeq(all, end(M) + 1, received)]
      BY Zenon, <2>1, <2>6, <2>12, <2>14 DEF ChunkingInvisible, all
    <2> DEFINE kept == SubSeq(all, end(M) + 1, received)
               sent == AllSent(whole, M)
    <2>16. commands = sent /\ pending = kept
      <3> HIDE DEF kept, sent
      <3>1. [commands |-> commands, pending |-> pending] = [commands |-> sent, pending |-> kept]
        BY Zenon, <2>15 DEF kept, sent
      <3> QED
        BY <3>1
    <2>17. Tokens = SubSeq(whole, 1, M)
      <3>1. DOMAIN commands = 1 .. M /\ \A i \in 1 .. M : commands[i].tokens = whole[i]
        <4>1. DOMAIN commands = 1 .. M /\ \A i \in 1 .. M : commands[i] = Sent(whole[i])
          BY Zenon, <2>16 DEF AllSent
        <4>2. \A i \in 1 .. M : Sent(whole[i]).tokens = whole[i]
          BY Zenon DEF Sent
        <4> QED
          BY Zenon, <4>1, <4>2
      <3>2. Tokens = [i \in 1 .. M |-> whole[i]]
        BY Zenon, <3>1 DEF Tokens
      <3> HIDE DEF whole
      <3>3. SubSeq(whole, 1, M) = [i \in 1 .. M |-> whole[i]]
        BY <2>2, <2>10 DEF L
      <3> QED
        BY Zenon, <3>2, <3>3
    <2> QED
      BY Zenon, <2>16, <2>17 DEF LogReadBack, M, complete, all
  <1> QED
    BY <1>1, ChunkingHolds, PTL

=============================================================================
