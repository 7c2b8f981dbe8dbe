--------------------------- MODULE SnapshotProofs ---------------------------
(***************************************************************************)
(* What SnapshotFormat promises of the snapshot file, for every image the  *)
(* process may save: the file is loaded as it was saved, and a file that   *)
(* ends early is refused unless all it lacks is its last line end.         *)
(*                                                                         *)
(* The argument follows the readers.  Follows(f, at, w) says that the file *)
(* f has the text w from at on as far as it goes; Gets and Delivers say    *)
(* what a reader then makes of it.  A number may be torn into a shorter    *)
(* one, but only at the end of the file, where whatever it announces is    *)
(* missing; a number that announces something is never torn into 0.  So a  *)
(* bulk, a loop over bulks, an entry, a database and the file are each     *)
(* delivered as written or refused, up to the last byte.                   *)
(***************************************************************************)
EXTENDS SnapshotFormat, ByteStringsProofs

\* The first digits of a number are those of a smaller one, which is 0 only for 0.
LEMMA UnsignedFront ==
  ASSUME NEW n \in Nat, NEW k \in 1 .. Len(Unsigned(n))
  PROVE  /\ SubSeq(Unsigned(n), 1, k) \in Seq(Range(Digits)) /\ Number(SubSeq(Unsigned(n), 1, k)) \in Nat
         /\ n # 0 => Number(SubSeq(Unsigned(n), 1, k)) # 0
         /\ n = 0 => Number(SubSeq(Unsigned(n), 1, k)) = 0 /\ Len(Unsigned(n)) = 1
  <1>1. PICK left : \E size \in 1 .. n + 1 :
           Divided(left, n) /\ Shortest(left, size) /\ Unsigned(n) = DigitsOf(left, size)
    BY Zenon, UnsignedFacts
  <1>2. PICK size \in 1 .. n + 1 :
           Divided(left, n) /\ Shortest(left, size) /\ Unsigned(n) = DigitsOf(left, size)
    BY Zenon, <1>1
  <1>3. size \in Nat /\ left[size] = 0
    BY <1>2 DEF Shortest
  <1>4. Len(Unsigned(n)) = size /\ \A j \in 0 .. size : FrontReads(left, size, j)
    BY Zenon, <1>2, <1>3, DigitsRead
  <1>5. k \in 0 .. size /\ size - k \in Nat /\ (size - k = 0 \/ size - k \in 1 .. size - 1)
    BY <1>3, <1>4
  <1> DEFINE rest == left[size - k]
             front == SubSeq(Unsigned(n), 1, k)
  <1>6. front \in Seq(Range(Digits)) /\ Number(front) = rest
    BY Zenon, <1>2, <1>4, <1>5 DEF FrontReads
  <1>7. rest \in Nat
    BY Zenon, <1>2, <1>5 DEF Divided
  <1>8. n # 0 => rest # 0
    <2>1. left[0] = n /\ \A m \in 1 .. size - 1 : left[m] # 0
      BY Zenon, <1>2 DEF Divided, Shortest
    <2> QED
      BY Zenon, <1>5, <2>1
  <1>9. n = 0 => rest = 0 /\ size = 1
    <2> SUFFICES ASSUME n = 0
                 PROVE  rest = 0 /\ size = 1
      OBVIOUS
    <2>0. k \in 1 .. size /\ size \in 1 .. 0 + 1
      BY Zenon, <1>4
    <2>1. size = 1 /\ size - k = 0
      BY <2>0
    <2> QED
      BY Zenon, <1>2, <2>1 DEF Divided
  <1> HIDE DEF rest, front
  <1> QED
    BY Zenon, <1>4, <1>6, <1>7, <1>8, <1>9 DEF front

-----------------------------------------------------------------------------
\* What is there of a text.

\* What the file has from at on is the beginning of w, or all of it and more.
Follows(f, at, w) ==
  /\ at \in 1 .. Len(f) + 1
  /\ \A i \in 1 .. Len(w) : at + i - 1 <= Len(f) => f[at + i - 1] = w[i]

\* At the end of the file anything may follow.
LEMMA FollowsAtEnd ==
  ASSUME NEW f \in Seq(Byte), NEW w \in Seq(Byte)
  PROVE  Follows(f, Len(f) + 1, w)
  BY DEF Follows

\* The parts of a text follow one another.
LEMMA FollowsParts ==
  ASSUME NEW f \in Seq(Byte), NEW at \in Nat, NEW u \in Seq(Byte), NEW v \in Seq(Byte), Follows(f, at, u \o v)
  PROVE  /\ Follows(f, at, u)
         /\ at + Len(u) <= Len(f) + 1 => Follows(f, at + Len(u), v)
  <1> DEFINE L == Len(f)
  <1>1. /\ Len(u \o v) = Len(u) + Len(v) /\ Len(u) \in Nat /\ Len(v) \in Nat /\ L \in Nat
        /\ \A i \in 1 .. Len(u) : (u \o v)[i] = u[i]
        /\ \A i \in 1 .. Len(v) : (u \o v)[Len(u) + i] = v[i]
    OBVIOUS
  <1>2. at \in 1 .. L + 1 /\ \A i \in 1 .. Len(u \o v) : at + i - 1 <= L => f[at + i - 1] = (u \o v)[i]
    BY Zenon DEF Follows
  <1> HIDE DEF L
  <1>3. ASSUME NEW i \in 1 .. Len(u), at + i - 1 <= L
        PROVE  f[at + i - 1] = u[i]
    <2>1. i \in 1 .. Len(u \o v)
      BY <1>1
    <2> QED
      BY Zenon, <1>1, <1>2, <1>3, <2>1
  <1>4. ASSUME NEW i \in 1 .. Len(v), at + Len(u) + i - 1 <= L
        PROVE  f[at + Len(u) + i - 1] = v[i]
    <2>1. Len(u) + i \in 1 .. Len(u \o v) /\ at + (Len(u) + i) - 1 = at + Len(u) + i - 1
      BY <1>1
    <2> QED
      BY Zenon, <1>1, <1>2, <1>4, <2>1
  <1>5. at + Len(u) <= L + 1 => at + Len(u) \in 1 .. L + 1
    <2>1. Len(u) \in Nat /\ L \in Nat /\ at \in 1 .. L + 1
      BY Zenon, <1>1, <1>2
    <2> QED
      BY <2>1
  <1> QED
    BY Zenon, <1>2, <1>3, <1>4, <1>5 DEF Follows, L

\* A text that is all there stands in the file.
LEMMA FollowsWhole ==
  ASSUME NEW f \in Seq(Byte), NEW at \in Nat, NEW w \in Seq(Byte), Follows(f, at, w), at + Len(w) <= Len(f) + 1
  PROVE  Occurs(f, at, w)
  <1>1. Len(f) \in Nat /\ Len(w) \in Nat
    OBVIOUS
  <1>2. \A i \in 1 .. Len(w) : at + i - 1 <= Len(f)
    BY <1>1
  <1>3. at + Len(w) - 1 <= Len(f)
    BY <1>1
  <1> QED
    BY Zenon, <1>2, <1>3 DEF Follows, Occurs

\* A file that ends early holds the beginning of what was written.
LEMMA FollowsFront ==
  ASSUME NEW w \in Seq(Byte), NEW k \in 0 .. Len(w)
  PROVE  /\ SubSeq(w, 1, k) \in Seq(Byte) /\ Len(SubSeq(w, 1, k)) = k
         /\ Follows(SubSeq(w, 1, k), 1, w)
  <1> DEFINE f == SubSeq(w, 1, k)
  <1>1. f \in Seq(Byte) /\ Len(f) = k /\ \A i \in 1 .. k : f[i] = w[i]
    OBVIOUS
  <1> HIDE DEF f
  <1>2. \A i \in 1 .. Len(w) : 1 + i - 1 = i /\ (i <= k => i \in 1 .. k)
    OBVIOUS
  <1>3. 1 \in 1 .. k + 1
    OBVIOUS
  <1>4. Follows(f, 1, w)
    BY Zenon, <1>1, <1>2, <1>3 DEF Follows
  <1> QED
    BY Zenon, <1>1, <1>4 DEF f

-----------------------------------------------------------------------------
\* Lines and numbers.

\* The fields of what was read.
LEMMA ReadFields ==
  /\ ~Failed.ok /\ Failed.value = <<>>
  /\ \A value, next : Read(value, next).ok /\ Read(value, next).value = value /\ Read(value, next).next = next
  BY DEF Failed, Read

\* The end of a line is found where it is.
LEMMA LineEndAt ==
  ASSUME NEW f \in Seq(Byte), NEW i \in 1 .. Len(f)
  PROVE  SubSeq(f, i, i + Len(<<"LF">>) - 1) = <<"LF">> <=> f[i] = "LF"
  <1>1. Len(<<"LF">>) = 1 /\ i + 1 - 1 = i
    OBVIOUS
  <1> DEFINE s == SubSeq(f, i, i)
             t == <<"LF">>
  <1>2. s \in Seq(Byte) /\ Len(s) = 1 /\ s[1] = f[i]
    OBVIOUS
  <1>3. t \in Seq(Byte) /\ Len(t) = 1 /\ t[1] = "LF"
    BY ByteAssumption
  <1> HIDE DEF s, t
  <1>4. s = t => f[i] = "LF"
    BY Zenon, <1>2, <1>3
  <1>5. ASSUME f[i] = "LF"
        PROVE  s = t
    <2>1. \A j \in 1 .. 1 : s[j] = t[j]
      BY SMTT(30), <1>2, <1>3, <1>5
    <2> QED
      BY <1>2, <1>3, <2>1, SeqEqual
  <1> QED
    BY Zenon, <1>1, <1>4, <1>5 DEF s, t

\* A line as it is read back: whole, not at all, or as far as it goes.
LEMMA LineDelivered ==
  ASSUME NEW f \in Seq(Byte), NEW at \in Nat, NEW v \in Seq(Byte), \A i \in 1 .. Len(v) : v[i] # "LF",
         Follows(f, at, writeLine(v))
  PROVE  /\ at + Len(v) <= Len(f) => readLine(f, at) = Read(v, at + Len(v) + 1)
         /\ at = Len(f) + 1 => readLine(f, at) = Failed
         /\ at <= Len(f) /\ Len(f) < at + Len(v) =>
              readLine(f, at) = Read(SubSeq(v, 1, Len(f) - at + 1), Len(f) + 1)
  <1> DEFINE L == Len(f)
             M == Len(v)
             LF == <<"LF">>
             end == Find(f, LF, at)
  <1>1. L \in Nat /\ M \in Nat /\ LF \in Seq(Byte) /\ Len(LF) = 1
    BY ByteAssumption
  <1>2. at \in 1 .. L + 1 /\ at \in Nat \ {0}
    BY DEF Follows
  <1>3. readLine(f, at) = IF at > L THEN Failed ELSE IF end = 0 THEN Read(SubSeq(f, at, L), L + 1)
                          ELSE Read(SubSeq(f, at, end - 1), end + 1)
    BY Zenon DEF readLine
  <1>4. ASSUME NEW i \in at .. L, i < at + M
        PROVE  f[i] = v[i - at + 1] /\ f[i] # "LF" /\ i \in 1 .. L
    <2>1. writeLine(v) = v \o LF
      BY Zenon DEF writeLine
    <2>2. Follows(f, at, v)
      BY Zenon, <1>1, <2>1, FollowsParts
    <2> DEFINE j == i - at + 1
    <2>3. j \in 1 .. M /\ at + j - 1 = i /\ i <= L /\ i \in 1 .. L
      BY <1>1, <1>2, <1>4
    <2> HIDE DEF j
    <2>4. f[i] = v[j] /\ v[j] # "LF"
      BY Zenon, <2>2, <2>3 DEF Follows
    <2> QED
      BY Zenon, <2>3, <2>4 DEF j
  <1> HIDE DEF L, M, LF, end
  <1>5. ASSUME at + M <= L
        PROVE  readLine(f, at) = Read(v, at + M + 1)
    <2> DEFINE e == at + M
    <2>1. Occurs(f, at, v \o LF) /\ Len(v \o LF) = M + 1
      <3>1. v \o LF \in Seq(Byte) /\ Len(v \o LF) = M + 1
        BY Zenon, <1>1, BothTogether DEF M
      <3>2. at + (M + 1) <= L + 1
        BY <1>1, <1>5
      <3> QED
        BY Zenon, <3>1, <3>2, FollowsWhole DEF writeLine, LF, L
    <2>2. Occurs(f, at, v) /\ Occurs(f, e, LF)
      BY Zenon, <1>1, <1>2, <2>1, OccursParts DEF M
    <2>3. e \in 1 .. L /\ e + 1 - 1 = e /\ e \in at .. L - 1 + 1 /\ e > 0 /\ ~(at > L)
      BY <1>1, <1>2, <1>5
    <2>4. f[e] = "LF"
      <3>1. 1 \in 1 .. 1 /\ LF[1] = "LF"
        BY DEF LF
      <3> QED
        BY Zenon, <1>1, <2>2, <2>3, <3>1 DEF Occurs
    <2>5. SubSeq(f, e, e + Len(LF) - 1) = LF
      BY Zenon, <2>3, <2>4, LineEndAt DEF LF, L
    <2>6. ASSUME NEW i \in at .. e - 1
          PROVE  SubSeq(f, i, i + Len(LF) - 1) # LF
      <3>1. i \in at .. L /\ i < at + M
        BY <1>1, <1>2, <1>5
      <3>2. f[i] # "LF" /\ i \in 1 .. L
        BY Zenon, <1>4, <3>1
      <3> QED
        BY Zenon, <3>2, LineEndAt DEF LF, L
    <2>7. FirstAt(f, LF, at, e)
      <3>1. e \in at .. Len(f) - Len(LF) + 1
        BY Zenon, <1>1, <2>3 DEF L
      <3> QED
        BY Zenon, <2>5, <2>6, <3>1 DEF FirstAt
    <2>8. end = e
      BY Zenon, <1>1, <1>2, <2>7, FindUnique DEF end
    <2>9. SubSeq(f, at, e - 1) = v
      <3>1. e - 1 = at + M - 1
        BY <1>1
      <3>2. SubSeq(f, at, at + M - 1) = v
        BY Zenon, <1>2, <2>2, OccursCut DEF M
      <3> QED
        BY Zenon, <3>1, <3>2
    <2>10. e # 0
      BY <2>3
    <2> HIDE DEF e
    <2>11. readLine(f, at) = Read(v, e + 1)
      BY Zenon, <1>3, <2>3, <2>8, <2>9, <2>10
    <2> QED
      BY Zenon, <2>11 DEF e
  <1>6. ASSUME at = L + 1
        PROVE  readLine(f, at) = Failed
    <2>1. at > L
      BY <1>1, <1>6
    <2> QED
      BY Zenon, <1>3, <2>1
  <1>7. ASSUME at <= L, L < at + M
        PROVE  readLine(f, at) = Read(SubSeq(v, 1, L - at + 1), L + 1)
    <2>1. ASSUME NEW i \in at .. L
          PROVE  f[i] = v[i - at + 1] /\ SubSeq(f, i, i + Len(LF) - 1) # LF
      <3>1. i < at + M
        BY <1>1, <1>2, <1>7
      <3>2. f[i] = v[i - at + 1] /\ f[i] # "LF" /\ i \in 1 .. L
        BY Zenon, <1>4, <3>1
      <3> QED
        BY Zenon, <3>2, LineEndAt DEF LF, L
    <2>2. end = 0
      <3>1. L - 1 + 1 = L
        BY <1>1
      <3>2. ~FirstAt(f, LF, at, end)
        BY Zenon, <1>1, <2>1, <3>1 DEF FirstAt, L
      <3> QED
        BY Zenon, <1>1, <1>2, <3>2, FindFacts DEF end
    <2> DEFINE m == L - at + 1
               x == SubSeq(f, at, L)
               y == SubSeq(v, 1, m)
    <2>3. m \in 1 .. M /\ m \in Nat
      BY <1>1, <1>2, <1>7
    <2>4. x \in Seq(Byte) /\ Len(x) = m /\ \A i \in 1 .. m : x[i] = f[at + i - 1]
      BY <1>2, <1>7 DEF L
    <2> HIDE DEF m
    <2>5. y \in Seq(Byte) /\ Len(y) = m /\ \A i \in 1 .. m : y[i] = v[i]
      BY <2>3 DEF M
    <2> HIDE DEF x, y
    <2>6. ASSUME NEW i \in 1 .. m
          PROVE  x[i] = y[i]
      <3>1. at + i - 1 \in at .. L /\ (at + i - 1) - at + 1 = i
        BY <1>1, <1>2, <2>3 DEF m
      <3> QED
        BY Zenon, <2>1, <2>4, <2>5, <3>1
    <2>7. x = y
      BY <2>4, <2>5, <2>6, SeqEqual
    <2>8. ~(at > L)
      BY <1>1, <1>7
    <2> QED
      BY Zenon, <1>3, <2>2, <2>7, <2>8 DEF x, y, m
  <1> QED
    BY Zenon, <1>5, <1>6, <1>7 DEF L, M

\* A number on a line of digits.
LEMMA DigitsOnLine ==
  ASSUME NEW digits \in Seq(Range(Digits)), digits # <<>>, NEW next
  PROVE  NumberOn(Read(digits, next)) = Read(Number(digits), next)
  <1> DEFINE R == Range(Digits)
             line == Read(digits, next)
  <1>1. "-" \notin R
    <2>1. ASSUME NEW k \in DOMAIN Digits
          PROVE  Digits[k] # "-"
      <3>1. k \in 1 .. 10
        BY DEF Digits
      <3> QED
        BY <3>1 DEF Digits
    <2> QED
      BY Zenon, <2>1 DEF Range
  <1>2. R \subseteq Byte
    BY Zenon, DigitFacts
  <1> HIDE DEF R
  <1>3. digits \in Seq(R)
    BY Zenon DEF R
  <1>4. digits \in Seq(Byte) /\ digits[1] \in R /\ \A i \in 1 .. Len(digits) : digits[i] \in R
    BY <1>2, <1>3
  <1>5. LeadingDigits(digits) = digits
    <2>1. FirstNotIn(digits, R) = 0
      BY Zenon, <1>4, FirstNotInFacts
    <2> QED
      BY Zenon, <2>1 DEF LeadingDigits, R
  <1>6. line.ok /\ line.value = digits /\ line.next = next
    BY Zenon, ReadFields
  <1> HIDE DEF line
  <1>7. ~(line.value # <<>> /\ line.value[1] = "-")
    BY Zenon, <1>1, <1>4, <1>6
  <1>8. NumberOn(line) = Read(Number(digits), next)
    BY Zenon, <1>5, <1>6, <1>7 DEF NumberOn
  <1> QED
    BY Zenon, <1>8 DEF line

\* A negative one.
LEMMA NegativeOnLine ==
  ASSUME NEW digits \in Seq(Range(Digits)), digits # <<>>, NEW next
  PROVE  NumberOn(Read(<<"-">> \o digits, next)) = Read(-Number(digits), next)
  <1> DEFINE R == Range(Digits)
             text == <<"-">> \o digits
             line == Read(text, next)
  <1>2. R \subseteq Byte
    BY Zenon, DigitFacts
  <1> HIDE DEF R
  <1>3. digits \in Seq(R)
    BY Zenon DEF R
  <1>4. digits \in Seq(Byte) /\ \A i \in 1 .. Len(digits) : digits[i] \in R
    BY <1>2, <1>3
  <1>5. LeadingDigits(digits) = digits
    <2>1. FirstNotIn(digits, R) = 0
      BY Zenon, <1>4, FirstNotInFacts
    <2> QED
      BY Zenon, <2>1 DEF LeadingDigits, R
  <1>6. text # <<>> /\ text[1] = "-" /\ Tail(text) = digits
    BY <1>4, SymbolsAssumption
  <1> HIDE DEF text
  <1>7. line.ok /\ line.value = text /\ line.next = next
    BY Zenon, ReadFields
  <1> HIDE DEF line
  <1>8. NumberOn(line) = Read(-Number(digits), next)
    BY Zenon, <1>5, <1>6, <1>7 DEF NumberOn
  <1> QED
    BY Zenon, <1>8 DEF line, text

\* What is written of a number.
LEMMA DecimalText ==
  ASSUME NEW n \in Int
  PROVE  /\ Decimal(n) \in Seq(Byte) /\ Len(Decimal(n)) \in Nat \ {0}
         /\ \A i \in 1 .. Len(Decimal(n)) : Decimal(n)[i] # "LF"
  <1> DEFINE R == Range(Digits)
  <1>1. "LF" \notin R /\ R \subseteq Byte
    BY Zenon, DigitFacts, DigitsNotSpace DEF Space
  <1>2. ASSUME NEW d \in Seq(R)
        PROVE  d \in Seq(Byte) /\ \A i \in 1 .. Len(d) : d[i] # "LF"
    <2> HIDE DEF R
    <2>1. d \in Seq(Byte) /\ \A i \in 1 .. Len(d) : d[i] \in R
      BY <1>1, <1>2
    <2> QED
      BY Zenon, <1>1, <2>1
  <1>3. CASE n < 0
    <2>1. -n \in Nat
      BY <1>3
    <2> DEFINE d == Unsigned(-n)
               t == <<"-">> \o d
    <2>2. d \in Seq(Byte) /\ \A i \in 1 .. Len(d) : d[i] # "LF"
      BY Zenon, <1>2, <2>1, UnsignedRead
    <2>3. Decimal(n) = t
      BY Zenon, <1>3 DEF Decimal
    <2> HIDE DEF d
    <2>4. <<"-">> \in Seq(Byte) /\ Len(<<"-">>) = 1
      BY SymbolsAssumption
    <2>5. t \in Seq(Byte) /\ Len(t) = 1 + Len(d) /\ Len(d) \in Nat
      BY Zenon, <2>2, <2>4, BothTogether
    <2>6. ASSUME NEW i \in 1 .. Len(t)
          PROVE  t[i] # "LF"
      <3>1. CASE i = 1
        BY <2>2, <3>1
      <3>2. CASE i # 1
        <4>1. i - 1 \in 1 .. Len(d)
          BY <2>5, <3>2
        <4>2. t[i] = d[i - 1]
          BY <2>2, <2>5, <3>2
        <4> QED
          BY Zenon, <2>2, <4>1, <4>2
      <3> QED
        BY Zenon, <3>1, <3>2
    <2> HIDE DEF t
    <2>7. Len(t) \in Nat \ {0}
      BY <2>5
    <2> QED
      BY Zenon, <2>3, <2>5, <2>6, <2>7
  <1>4. CASE ~(n < 0)
    <2>1. n \in Nat
      BY <1>4
    <2>2. Decimal(n) = Unsigned(n)
      BY Zenon, <1>4 DEF Decimal
    <2> QED
      BY Zenon, <1>2, <2>1, <2>2, UnsignedRead
  <1> QED
    BY Zenon, <1>3, <1>4

\* A number is read as it was written.
LEMMA DecimalOnLine ==
  ASSUME NEW n \in Int, NEW next
  PROVE  NumberOn(Read(Decimal(n), next)) = Read(n, next)
  <1>1. ASSUME NEW m \in Nat
        PROVE  Unsigned(m) # <<>>
    <2>1. Len(Unsigned(m)) # 0 /\ Len(<<>>) = 0
      BY UnsignedRead
    <2> QED
      BY Zenon, <2>1
  <1>2. CASE n < 0
    <2>1. -n \in Nat /\ -(-n) = n
      BY <1>2
    <2>2. Decimal(n) = <<"-">> \o Unsigned(-n)
      BY Zenon, <1>2 DEF Decimal
    <2> QED
      BY Zenon, <1>1, <2>1, <2>2, UnsignedRead, NegativeOnLine
  <1>3. CASE ~(n < 0)
    <2>1. n \in Nat
      BY <1>3
    <2>2. Decimal(n) = Unsigned(n)
      BY Zenon, <1>3 DEF Decimal
    <2> QED
      BY Zenon, <1>1, <2>1, <2>2, UnsignedRead, DigitsOnLine
  <1> QED
    BY Zenon, <1>2, <1>3

\* What follows a number is what follows its line.
LEMMA NumberOnNext ==
  ASSUME NEW line, NumberOn(line).ok
  PROVE  line.ok /\ NumberOn(line).next = line.next
  <1> DEFINE negative == line.value # <<>> /\ line.value[1] = "-"
             digits == LeadingDigits(IF negative THEN Tail(line.value) ELSE line.value)
             number == IF negative THEN -Number(digits) ELSE Number(digits)
             none == ~line.ok \/ digits = <<>>
             next == line.next
             r == NumberOn(line)
  <1>1. r = IF none THEN Failed ELSE Read(number, next)
    BY Zenon DEF NumberOn
  <1>2. ~none => line.ok
    BY Zenon
  <1>0. r.ok
    OBVIOUS
  <1> HIDE DEF number, none, next, r
  <1>3. CASE none
    <2>1. r = Failed
      BY Zenon, <1>1, <1>3
    <2> QED
      BY Zenon, <1>0, <2>1, ReadFields
  <1>4. CASE ~none
    <2>1. r = Read(number, next)
      BY Zenon, <1>1, <1>4
    <2>2. r.next = next
      BY Zenon, <2>1, ReadFields
    <2> QED
      BY Zenon, <1>2, <1>4, <2>2 DEF r, next
  <1> QED
    BY Zenon, <1>3, <1>4

\* The file was read to its end.
ToEnd(f, r) == r.next = Len(f) + 1

\* What is all there is read as v; of what is not, nothing, or up to the end.
Gets(f, r, at, w, v) ==
  IF at + Len(w) <= Len(f) + 1 THEN r = Read(v, at + Len(w)) ELSE r.ok => ToEnd(f, r)

\* Only the last byte is missing, and it is not missed.
NearlyGets(f, r, at, w, v) == r = Read(v, Len(f) + 1) /\ at + Len(w) = Len(f) + 2

\* What is all there is read as v; of what is not, nothing, unless it is but for its last byte.
Delivers(f, r, at, w, v) ==
  IF at + Len(w) <= Len(f) + 1 THEN r = Read(v, at + Len(w)) ELSE r.ok => NearlyGets(f, r, at, w, v)

\* A line of its own.
LEMMA LineText ==
  ASSUME NEW v \in Seq(Byte)
  PROVE  writeLine(v) \in Seq(Byte) /\ Len(writeLine(v)) = Len(v) + 1 /\ Len(v) \in Nat
  <1>1. <<"LF">> \in Seq(Byte) /\ Len(<<"LF">>) = 1
    BY ByteAssumption
  <1> QED
    BY Zenon, <1>1, BothTogether DEF writeLine

\* A number of fewer digits was read to the end of the file; 0 only for 0.
Shortened(f, r, at, w, n) ==
  \E m \in Nat : /\ r = Read(m, Len(f) + 1) /\ (n # 0 => m # 0)
                 /\ n = 0 => m = 0 /\ at + Len(w) = Len(f) + 2

\* What is torn off a line of digits leaves nothing, or a number that is 0 only for 0.
LEMMA NumberDelivered ==
  ASSUME NEW f \in Seq(Byte), NEW at \in Nat, NEW n \in Int, Follows(f, at, writeLine(Decimal(n)))
  PROVE  /\ Gets(f, readNumber(f, at), at, writeLine(Decimal(n)), n)
         /\ n \in Nat /\ ~(at + Len(writeLine(Decimal(n))) <= Len(f) + 1) /\ readNumber(f, at).ok =>
              Shortened(f, readNumber(f, at), at, writeLine(Decimal(n)), n)
  <1> DEFINE d == Decimal(n)
             L == Len(f)
             M == Len(d)
             W == Len(writeLine(d))
             line == readLine(f, at)
             front == SubSeq(d, 1, L - at + 1)
  <1>1. d \in Seq(Byte) /\ \A i \in 1 .. Len(d) : d[i] # "LF"
    BY Zenon, DecimalText
  <1>2. L \in Nat /\ M \in Nat /\ W = M + 1 /\ at \in 1 .. L + 1
    <2>1. M \in Nat /\ W = M + 1
      BY Zenon, <1>1, LineText
    <2>2. at \in 1 .. L + 1
      BY Zenon DEF Follows
    <2> QED
      BY <2>1, <2>2
  <1>3. /\ at + M <= L => line = Read(d, at + M + 1)
        /\ at = L + 1 => line = Failed
        /\ at <= L /\ L < at + M => line = Read(front, L + 1)
    BY Zenon, <1>1, LineDelivered
  <1>4. readNumber(f, at) = NumberOn(line)
    BY Zenon DEF readNumber
  <1> HIDE DEF L, M, W, line
  <1>5. CASE at + M <= L
    <2>1. at + W <= L + 1 /\ at + M + 1 = at + W
      BY <1>2, <1>5
    <2>2. readNumber(f, at) = Read(n, at + W)
      BY Zenon, <1>3, <1>4, <1>5, <2>1, DecimalOnLine
    <2> QED
      BY Zenon, <2>1, <2>2 DEF Gets, L, W
  <1>6. CASE at = L + 1
    <2>1. ~(at + W <= L + 1)
      BY <1>2, <1>6
    <2>2. ~readNumber(f, at).ok
      BY Zenon, <1>3, <1>4, <1>6, ReadFields DEF NumberOn
    <2> QED
      BY Zenon, <2>1, <2>2 DEF Gets, L, W
  <1>7. CASE at <= L /\ L < at + M
    <2>1. ~(at + W <= L + 1)
      BY <1>2, <1>7
    <2>2. line = Read(front, L + 1)
      BY Zenon, <1>3, <1>7
    <2>3. readNumber(f, at).ok => ToEnd(f, readNumber(f, at))
      <3> HIDE DEF front
      <3>1. line.next = L + 1
        BY Zenon, <2>2, ReadFields
      <3> QED
        BY Zenon, <1>4, <3>1, NumberOnNext DEF ToEnd, L
    <2>4. ASSUME n \in Nat
          PROVE  \E m \in Nat : /\ readNumber(f, at) = Read(m, L + 1) /\ (n # 0 => m # 0)
                                /\ n = 0 => m = 0 /\ at + W = L + 2
      <3>1. d = Unsigned(n)
        BY Zenon, <2>4, DecimalFacts
      <3> DEFINE k == L - at + 1
      <3>2. k \in 1 .. M
        BY <1>2, <1>7
      <3> HIDE DEF k
      <3>3. /\ front \in Seq(Range(Digits)) /\ Number(front) \in Nat /\ (n # 0 => Number(front) # 0)
            /\ n = 0 => Number(front) = 0 /\ M = 1
        BY Zenon, <2>4, <3>1, <3>2, UnsignedFront DEF k, M
      <3>4. front # <<>>
        <4>1. Len(front) = k
          BY <1>1, <3>2 DEF k, M
        <4>2. k # 0 /\ Len(<<>>) = 0
          BY <3>2
        <4> QED
          BY Zenon, <4>1, <4>2
      <3> HIDE DEF front
      <3>5. readNumber(f, at) = Read(Number(front), L + 1)
        BY Zenon, <1>4, <2>2, <3>3, <3>4, DigitsOnLine
      <3>6. M = 1 => at + W = L + 2
        BY <1>2, <1>7
      <3> QED
        BY Zenon, <3>3, <3>5, <3>6
    <2> QED
      BY Zenon, <2>1, <2>3, <2>4 DEF Gets, Shortened, L, W
  <1>8. at + M <= L \/ at = L + 1 \/ (at <= L /\ L < at + M)
    BY <1>2
  <1> QED
    BY Zenon, <1>5, <1>6, <1>7, <1>8

-----------------------------------------------------------------------------
\* Bulks.

\* A bulk is a line for its length and the bytes.
LEMMA BulkText ==
  ASSUME NEW v \in Seq(Byte)
  PROVE  /\ writeBulk(v) \in Seq(Byte) /\ Len(writeBulk(v)) \in Nat /\ Len(writeBulk(v)) >= 3
         /\ Len(writeBulk(v)) = Len(writeLine(Decimal(Len(v)))) + (Len(v) + 1)
  <1> DEFINE d == Decimal(Len(v))
  <1>1. Len(v) \in Nat /\ Len(v) \in Int
    OBVIOUS
  <1>2. d \in Seq(Byte) /\ Len(d) \in Nat \ {0}
    BY Zenon, <1>1, DecimalText
  <1> HIDE DEF d
  <1>3. writeLine(d) \in Seq(Byte) /\ Len(writeLine(d)) = Len(d) + 1 /\ writeLine(v) \in Seq(Byte) /\ Len(writeLine(v)) = Len(v) + 1
    BY Zenon, <1>2, LineText
  <1>4. writeBulk(v) \in Seq(Byte) /\ Len(writeBulk(v)) = (Len(d) + 1) + (Len(v) + 1)
    BY Zenon, <1>3, BothTogether DEF writeBulk, d
  <1>5. (Len(d) + 1) + (Len(v) + 1) \in Nat /\ (Len(d) + 1) + (Len(v) + 1) >= 3
    BY <1>1, <1>2
  <1> QED
    BY Zenon, <1>3, <1>4, <1>5 DEF d

\* A bulk is read as it was written; nothing is read of one that is not all there.
LEMMA BulkDelivered ==
  ASSUME NEW f \in Seq(Byte), NEW at \in Nat, NEW v \in Seq(Byte), Follows(f, at, writeBulk(v))
  PROVE  Delivers(f, readBulk(f, at), at, writeBulk(v), v)
  <1> DEFINE n == Len(v)
             L == Len(f)
             u == writeLine(Decimal(n))
             U == Len(u)
             W == Len(writeBulk(v))
             size == readNumber(f, at)
             r == readBulk(f, at)
             end == size.next + size.value
  <1>1. n \in Nat /\ n \in Int /\ L \in Nat
    OBVIOUS
  <1>2. u \in Seq(Byte) /\ U \in Nat /\ U >= 2
    <2>1. Decimal(n) \in Seq(Byte) /\ Len(Decimal(n)) \in Nat \ {0}
      BY Zenon, <1>1, DecimalText
    <2>2. u \in Seq(Byte) /\ U = Len(Decimal(n)) + 1
      BY Zenon, <2>1, LineText
    <2> HIDE DEF U, u, n
    <2> QED
      BY <2>1, <2>2
  <1>3. W = U + (n + 1)
    BY Zenon, BulkText
  <1>4. writeBulk(v) = u \o writeLine(v) /\ writeLine(v) \in Seq(Byte)
    BY Zenon, LineText DEF writeBulk
  <1>5. Follows(f, at, u) /\ (at + U <= L + 1 => Follows(f, at + U, writeLine(v)))
    BY Zenon, <1>2, <1>4, FollowsParts
  <1>6. /\ Gets(f, size, at, u, n)
        /\ ~(at + U <= L + 1) /\ size.ok => Shortened(f, size, at, u, n)
    BY Zenon, <1>1, <1>5, NumberDelivered
  <1>7. r = IF size.ok /\ end <= L /\ f[end] = "LF" THEN Read(SubSeq(f, size.next, end - 1), end + 1) ELSE Failed
    BY Zenon DEF readBulk, BulkOf
  <1> HIDE DEF n, L, u, U, W, size, r
  <1>8. CASE at + U <= L + 1
    <2>1. size = Read(n, at + U)
      BY Zenon, <1>6, <1>8 DEF Gets, U, L
    <2>2. size.ok /\ size.value = n /\ size.next = at + U
      BY Zenon, <2>1, ReadFields
    <2> DEFINE a == at + U
    <2>3. end = a + n /\ a \in Nat \ {0}
      BY <1>2, <2>2
    <2> HIDE DEF end
    <2>4. CASE at + W <= L + 1
      <3>1. Follows(f, a, writeLine(v))
        BY Zenon, <1>5, <1>8
      <3>2. a + (n + 1) <= L + 1 /\ a \in Nat
        BY <1>1, <1>2, <1>3, <2>4
      <3>3. Len(writeLine(v)) = n + 1
        BY Zenon, LineText DEF n
      <3> HIDE DEF a
      <3>4. Occurs(f, a, v \o <<"LF">>)
        BY Zenon, <1>4, <3>1, <3>2, <3>3, FollowsWhole DEF writeLine, L
      <3>5. <<"LF">> \in Seq(Byte) /\ Len(<<"LF">>) = 1 /\ 1 \in 1 .. 1 /\ <<"LF">>[1] = "LF"
        BY ByteAssumption
      <3>6. Occurs(f, a, v) /\ Occurs(f, a + n, <<"LF">>)
        BY Zenon, <2>3, <3>4, <3>5, OccursParts DEF n
      <3>7. a + n <= L /\ (a + n) + 1 - 1 = a + n /\ a + n - 1 = (a + n) - 1
        BY <1>1, <3>2
      <3>8. f[a + n] = "LF"
        BY Zenon, <3>5, <3>6, <3>7 DEF Occurs
      <3>9. SubSeq(f, a, (a + n) - 1) = v
        <4>1. SubSeq(f, a, a + n - 1) = v
          BY Zenon, <2>3, <3>6, OccursCut DEF n
        <4> QED
          BY Zenon, <3>7, <4>1
      <3>10. r = Read(v, (a + n) + 1)
        BY Zenon, <1>7, <2>2, <2>3, <3>7, <3>8, <3>9 DEF a
      <3>11. (a + n) + 1 = at + W
        BY <1>1, <1>2, <1>3 DEF a
      <3> QED
        BY Zenon, <2>4, <3>10, <3>11 DEF Delivers, r, W, L
    <2>5. CASE ~(at + W <= L + 1)
      <3>1. ~(a + n <= L)
        BY <1>1, <1>2, <1>3, <2>5
      <3>2. r = Failed
        BY Zenon, <1>7, <2>3, <3>1
      <3> QED
        BY Zenon, <2>5, <3>2, ReadFields DEF Delivers, r, W, L
    <2> QED
      BY Zenon, <2>4, <2>5
  <1>9. CASE ~(at + U <= L + 1)
    <2>1. ~(at + W <= L + 1)
      BY <1>1, <1>2, <1>3, <1>9
    <2>2. ASSUME size.ok
          PROVE  ~(end <= L)
      <3>1. PICK m \in Nat : size = Read(m, L + 1)
        BY Zenon, <1>6, <1>9, <2>2 DEF Shortened, L
      <3>2. size.next = L + 1 /\ size.value = m
        BY Zenon, <3>1, ReadFields
      <3>3. ~((L + 1) + m <= L)
        BY <1>1
      <3> QED
        BY Zenon, <3>2, <3>3
    <2> HIDE DEF end
    <2>3. r = Failed
      BY Zenon, <1>7, <2>2
    <2> QED
      BY Zenon, <2>1, <2>3, ReadFields DEF Delivers, r, W, L
  <1> QED
    BY Zenon, <1>8, <1>9

\* There is nothing to read at the end of the file.
LEMMA BulkAtEnd ==
  ASSUME NEW f \in Seq(Byte)
  PROVE  ~readBulk(f, Len(f) + 1).ok
  <1> DEFINE w == writeBulk(<<>>)
             L == Len(f)
             r == readBulk(f, L + 1)
  <1>1. <<>> \in Seq(Byte) /\ L \in Nat /\ L + 1 \in Nat
    OBVIOUS
  <1>2. w \in Seq(Byte) /\ Len(w) \in Nat /\ Len(w) >= 3
    BY Zenon, <1>1, BulkText
  <1>3. Delivers(f, r, L + 1, w, <<>>)
    BY Zenon, <1>1, <1>2, FollowsAtEnd, BulkDelivered
  <1> HIDE DEF w, L, r
  <1>4. ~(L + 1 + Len(w) <= L + 1) /\ ~(L + 1 + Len(w) = L + 2)
    BY <1>1, <1>2
  <1>5. ~r.ok
    BY Zenon, <1>3, <1>4 DEF Delivers, NearlyGets, L
  <1> QED
    BY Zenon, <1>5 DEF r, L

-----------------------------------------------------------------------------
\* One thing behind another.

\* Then goes on behind both of them, if both were read.
LEMMA ThenBoth ==
  ASSUME NEW r, NEW item, r.ok, item.ok
  PROVE  Then(r, item) = Read(Append(r.value, item.value), item.next)
  BY Zenon DEF Then

\* Otherwise it fails.
LEMMA ThenFails ==
  ASSUME NEW r, NEW item, Then(r, item).ok
  PROVE  r.ok /\ item.ok
  <1> SUFFICES ASSUME ~(r.ok /\ item.ok)
               PROVE  FALSE
    OBVIOUS
  <1>1. Then(r, item) = Failed
    BY Zenon DEF Then
  <1> QED
    BY Zenon, <1>1, ReadFields

\* The two cases of Gets and of Delivers.
LEMMA GetsWhole ==
  ASSUME NEW f, NEW r, NEW at, NEW w, NEW v, at + Len(w) <= Len(f) + 1, r = Read(v, at + Len(w))
  PROVE  Gets(f, r, at, w, v) /\ Delivers(f, r, at, w, v)
  BY Zenon DEF Gets, Delivers

\* Of what is torn, Gets asks only that it was read to the end.
LEMMA GetsTorn ==
  ASSUME NEW f, NEW r, NEW at, NEW w, NEW v, ~(at + Len(w) <= Len(f) + 1), r.ok => ToEnd(f, r)
  PROVE  Gets(f, r, at, w, v)
  BY Zenon DEF Gets

\* Of what is torn, Delivers asks that only its last byte is missing.
LEMMA DeliversTorn ==
  ASSUME NEW f, NEW r, NEW at, NEW w, NEW v, ~(at + Len(w) <= Len(f) + 1),
         r.ok => NearlyGets(f, r, at, w, v)
  PROVE  Delivers(f, r, at, w, v)
  BY Zenon DEF Delivers

\* What Gets says of something torn that was read all the same.
LEMMA GetsEnd ==
  ASSUME NEW f, NEW r, NEW at, NEW w, NEW v, Gets(f, r, at, w, v), ~(at + Len(w) <= Len(f) + 1), r.ok
  PROVE  ToEnd(f, r)
  BY Zenon DEF Gets

\* What Delivers says of it.
LEMMA DeliversEnd ==
  ASSUME NEW f, NEW r, NEW at, NEW w, NEW v, Delivers(f, r, at, w, v), ~(at + Len(w) <= Len(f) + 1), r.ok
  PROVE  NearlyGets(f, r, at, w, v)
  BY Zenon DEF Delivers

\* Where the second part begins and ends.
LEMMA PartsFit ==
  ASSUME NEW f \in Seq(Byte), NEW at \in Nat, NEW w \in Seq(Byte), NEW x \in Seq(Byte)
  PROVE  /\ (at + Len(w)) + Len(x) = at + Len(w \o x)
         /\ at + Len(w \o x) <= Len(f) + 1 => at + Len(w) <= Len(f) + 1
         /\ at + Len(w) \in Nat
  <1>1. Len(w \o x) = Len(w) + Len(x) /\ Len(w) \in Nat /\ Len(x) \in Nat /\ Len(f) \in Nat
    OBVIOUS
  <1> DEFINE a == Len(w)
             b == Len(x)
             c == Len(w \o x)
             L == Len(f)
  <1>2. c = a + b /\ a \in Nat /\ b \in Nat /\ L \in Nat
    BY Zenon, <1>1
  <1> HIDE DEF a, b, c, L
  <1>3. (at + a) + b = at + c /\ (at + c <= L + 1 => at + a <= L + 1) /\ at + a \in Nat
    BY <1>2
  <1> QED
    BY Zenon, <1>3 DEF a, b, c, L

\* What is read behind something that is all there.
LEMMA ThenWhole ==
  ASSUME NEW f \in Seq(Byte), NEW at \in Nat, NEW w \in Seq(Byte), NEW x \in Seq(Byte), NEW v, NEW u, NEW r, NEW item,
         Gets(f, r, at, w, v), Gets(f, item, at + Len(w), x, u), at + Len(w \o x) <= Len(f) + 1
  PROVE  /\ Gets(f, Then(r, item), at, w \o x, Append(v, u))
         /\ Delivers(f, Then(r, item), at, w \o x, Append(v, u))
  <1>1. r = Read(v, at + Len(w))
    BY Zenon, PartsFit DEF Gets
  <1>2. item = Read(u, at + Len(w \o x))
    BY Zenon, PartsFit DEF Gets
  <1>3. r.ok /\ r.value = v
    BY Zenon, <1>1, ReadFields
  <1>4. item.ok /\ item.value = u /\ item.next = at + Len(w \o x)
    BY Zenon, <1>2, ReadFields
  <1>5. Then(r, item) = Read(Append(v, u), at + Len(w \o x))
    BY Zenon, <1>3, <1>4, ThenBoth
  <1> QED
    BY Zenon, <1>5, GetsWhole

\* One more item that may be torn.
LEMMA ThenGets ==
  ASSUME NEW f \in Seq(Byte), NEW at \in Nat, NEW w \in Seq(Byte), NEW x \in Seq(Byte), NEW v, NEW u, NEW r, NEW item,
         Gets(f, r, at, w, v),
         at + Len(w) <= Len(f) + 1 => Gets(f, item, at + Len(w), x, u),
         ~(at + Len(w) <= Len(f) + 1) /\ r.ok => ~item.ok
  PROVE  Gets(f, Then(r, item), at, w \o x, Append(v, u))
  <1>1. CASE at + Len(w \o x) <= Len(f) + 1
    <2>1. Gets(f, item, at + Len(w), x, u)
      BY Zenon, <1>1, PartsFit
    <2> QED
      BY Zenon, <1>1, <2>1, ThenWhole
  <1>2. CASE ~(at + Len(w \o x) <= Len(f) + 1)
    <2> SUFFICES ASSUME Then(r, item).ok
                 PROVE  ToEnd(f, Then(r, item))
      BY Zenon, <1>2, GetsTorn
    <2>1. r.ok /\ item.ok
      BY Zenon, ThenFails
    <2>2. Gets(f, item, at + Len(w), x, u)
      BY Zenon, <2>1
    <2>3. ToEnd(f, item)
      <3>1. (at + Len(w)) + Len(x) = at + Len(w \o x)
        BY ZenonT(30), PartsFit
      <3>2. ~((at + Len(w)) + Len(x) <= Len(f) + 1)
        BY Zenon, <1>2, <3>1
      <3> QED
        BY Zenon, <2>1, <2>2, <3>2, GetsEnd
    <2>4. Then(r, item) = Read(Append(r.value, item.value), item.next)
      BY Zenon, <2>1, ThenBoth
    <2> DEFINE y == Append(r.value, item.value)
               t == Then(r, item)
    <2> HIDE DEF y, t
    <2>5. t = Read(y, Len(f) + 1)
      BY Zenon, <2>3, <2>4 DEF y, t, ToEnd
    <2>6. t.next = Len(f) + 1
      BY Zenon, <2>5, ReadFields
    <2> QED
      BY Zenon, <2>6 DEF t, ToEnd
  <1> QED
    BY Zenon, <1>1, <1>2

\* One more item of which only the last byte may be missing.
LEMMA ThenDelivers ==
  ASSUME NEW f \in Seq(Byte), NEW at \in Nat, NEW w \in Seq(Byte), NEW x \in Seq(Byte), NEW v, NEW u, NEW r, NEW item,
         Gets(f, r, at, w, v),
         at + Len(w) <= Len(f) + 1 => Delivers(f, item, at + Len(w), x, u),
         ~(at + Len(w) <= Len(f) + 1) /\ r.ok => ~item.ok
  PROVE  Delivers(f, Then(r, item), at, w \o x, Append(v, u))
  <1>1. CASE at + Len(w \o x) <= Len(f) + 1
    <2>1. Delivers(f, item, at + Len(w), x, u)
      BY Zenon, <1>1, PartsFit
    <2>2. Gets(f, item, at + Len(w), x, u)
      BY Zenon, <1>1, <2>1, PartsFit DEF Gets, Delivers
    <2> QED
      BY Zenon, <1>1, <2>2, ThenWhole
  <1>2. CASE ~(at + Len(w \o x) <= Len(f) + 1)
    <2> SUFFICES ASSUME Then(r, item).ok
                 PROVE  NearlyGets(f, Then(r, item), at, w \o x, Append(v, u))
      BY Zenon, <1>2, DeliversTorn
    <2>1. r.ok /\ item.ok
      BY Zenon, ThenFails
    <2>2. Delivers(f, item, at + Len(w), x, u) /\ at + Len(w) <= Len(f) + 1
      BY Zenon, <2>1
    <2>3. item = Read(u, Len(f) + 1) /\ at + Len(w \o x) = Len(f) + 2
      <3>1. (at + Len(w)) + Len(x) = at + Len(w \o x)
        BY Zenon, PartsFit
      <3>2. ~((at + Len(w)) + Len(x) <= Len(f) + 1)
        BY Zenon, <1>2, <3>1
      <3>3. NearlyGets(f, item, at + Len(w), x, u)
        BY Zenon, <2>1, <2>2, <3>2, DeliversEnd
      <3> QED
        BY Zenon, <3>1, <3>3 DEF NearlyGets
    <2>4. item.value = u /\ item.next = Len(f) + 1
      BY Zenon, <2>3, ReadFields
    <2>5. r = Read(v, at + Len(w))
      BY Zenon, <2>2 DEF Gets
    <2>6. r.value = v
      BY Zenon, <2>5, ReadFields
    <2>7. Then(r, item) = Read(Append(v, u), Len(f) + 1)
      BY Zenon, <2>1, <2>4, <2>6, ThenBoth
    <2> QED
      BY Zenon, <2>3, <2>7 DEF NearlyGets
  <1> QED
    BY Zenon, <1>1, <1>2

\* Where only the last byte may be missing, nothing else is.
LEMMA DeliversGets ==
  ASSUME NEW f, NEW r, NEW at, NEW w, NEW v, Delivers(f, r, at, w, v)
  PROVE  Gets(f, r, at, w, v)
  <1>1. CASE at + Len(w) <= Len(f) + 1
    BY Zenon, <1>1 DEF Gets, Delivers
  <1>2. CASE ~(at + Len(w) <= Len(f) + 1)
    <2>1. r.ok => r = Read(v, Len(f) + 1)
      BY Zenon, <1>2 DEF Delivers, NearlyGets
    <2>2. ASSUME r.ok
          PROVE  ToEnd(f, r)
      <3> DEFINE next == Len(f) + 1
      <3> HIDE DEF next
      <3>1. r = Read(v, next)
        BY Zenon, <2>1, <2>2 DEF next
      <3>2. r.next = next
        BY Zenon, <3>1, ReadFields
      <3> QED
        BY Zenon, <3>2 DEF next, ToEnd
    <2> QED
      BY Zenon, <1>2, <2>2, GetsTorn
  <1> QED
    BY Zenon, <1>1, <1>2

-----------------------------------------------------------------------------
\* As often as a count says.

\* h is what the loop has read after each of its n rounds.
Repeated(h, reader, n, a) ==
  h[0] = Read(<<>>, a) /\ \A k \in 1 .. n : h[k] = ThenFrom(reader, h[k - 1])

\* Repeat is a loop.
LEMMA RepeatIs ==
  ASSUME NEW reader, NEW n \in Nat, NEW a
  PROVE  \E h : Repeated(h, reader, n, a) /\ Repeat(reader, Read(n, a)) = h[n]
  <1> DEFINE Run(h, m) == h = [k \in 0 .. m |-> IF k = 0 THEN Read(<<>>, a) ELSE ThenFrom(reader, h[k - 1])]
             N == {m \in Nat : \E h : Run(h, m)}
  <1>1. 0 \in N
    <2> DEFINE h == [k \in 0 .. 0 |-> Read(<<>>, a)]
    <2>1. \A k \in 0 .. 0 : k = 0
      OBVIOUS
    <2>2. ASSUME NEW k \in 0 .. 0
          PROVE  h[k] = IF k = 0 THEN Read(<<>>, a) ELSE ThenFrom(reader, h[k - 1])
      BY Zenon, <2>1
    <2>3. Run(h, 0)
      BY Zenon, <2>1
    <2> QED
      BY Zenon, <2>3
  <1>2. ASSUME NEW m \in Nat, m \in N
        PROVE  m + 1 \in N
    <2>1. PICK h : Run(h, m)
      BY Zenon, <1>2
    <2> DEFINE i == [k \in 0 .. m + 1 |-> IF k = m + 1 THEN ThenFrom(reader, h[m]) ELSE h[k]]
               I == [k \in 0 .. m + 1 |-> IF k = 0 THEN Read(<<>>, a) ELSE ThenFrom(reader, i[k - 1])]
    <2>2. ASSUME NEW k \in 0 .. m + 1
          PROVE  i[k] = I[k]
      <3>1. CASE k = m + 1
        <4>1. k # 0 /\ k - 1 = m /\ m \in 0 .. m + 1 /\ m # m + 1
          BY <3>1
        <4>2. i[m] = h[m]
          BY Zenon, <4>1
        <4>3. i[k] = ThenFrom(reader, h[m])
          BY Zenon, <3>1
        <4>4. I[k] = ThenFrom(reader, i[k - 1])
          BY Zenon, <4>1
        <4> HIDE DEF i, I
        <4> QED
          BY Zenon, <4>1, <4>2, <4>3, <4>4
      <3>2. CASE k = 0
        <4>1. 0 \in 0 .. m /\ 0 # m + 1
          OBVIOUS
        <4>2. h[0] = Read(<<>>, a)
          BY Zenon, <2>1, <4>1
        <4> QED
          BY Zenon, <3>2, <4>1, <4>2
      <3>3. CASE k # 0 /\ k # m + 1
        <4>1. k \in 0 .. m /\ k - 1 \in 0 .. m + 1 /\ k - 1 # m + 1
          BY <3>3
        <4>2. h[k] = ThenFrom(reader, h[k - 1])
          BY Zenon, <2>1, <3>3, <4>1
        <4>3. i[k] = h[k] /\ i[k - 1] = h[k - 1]
          BY Zenon, <3>3, <4>1
        <4>4. I[k] = ThenFrom(reader, i[k - 1])
          BY Zenon, <3>3
        <4> HIDE DEF i, I
        <4> QED
          BY Zenon, <4>2, <4>3, <4>4
      <3> QED
        BY Zenon, <3>1, <3>2, <3>3
    <2>3. i = [k \in 0 .. m + 1 |-> i[k]]
      BY Zenon
    <2> HIDE DEF i
    <2>4. Run(i, m + 1) <=> i = I
      BY Zenon
    <2>7. I = [k \in 0 .. m + 1 |-> I[k]]
      BY Zenon
    <2> HIDE DEF I
    <2>5. i = I
      BY Zenon, <2>2, <2>3, <2>7
    <2>6. m + 1 \in Nat
      OBVIOUS
    <2> QED
      BY Zenon, <2>4, <2>5, <2>6
  <1> HIDE DEF N
  <1>3. n \in N
    BY Zenon, <1>1, <1>2, Induction
  <1>4. \E h : Run(h, n)
    BY Zenon, <1>3 DEF N
  <1> DEFINE h == CHOOSE h : Run(h, n)
             count == Read(n, a)
  <1>5. Run(h, n)
    BY Zenon, <1>4
  <1>6. count.ok /\ count.value = n /\ count.next = a
    BY Zenon, ReadFields
  <1> HIDE DEF count
  <1>7. Repeat(reader, count) = h[n]
    BY Zenon, <1>6 DEF Repeat
  <1> HIDE DEF h
  <1>8. h[0] = Read(<<>>, a)
    <2>1. 0 \in 0 .. n
      OBVIOUS
    <2> QED
      BY Zenon, <1>5, <2>1
  <1>9. ASSUME NEW k \in 1 .. n
        PROVE  h[k] = ThenFrom(reader, h[k - 1])
    <2>1. k \in 0 .. n /\ k # 0
      OBVIOUS
    <2> QED
      BY Zenon, <1>5, <2>1
  <1> QED
    BY Zenon, <1>7, <1>8, <1>9 DEF Repeated, count

\* The first m of the values.
FrontOf(vs, m) == [i \in 1 .. m |-> vs[i]]

\* One more of them.
LEMMA FrontAppend ==
  ASSUME NEW vs, NEW m \in Nat
  PROVE  Append(FrontOf(vs, m), vs[m + 1]) = FrontOf(vs, m + 1)
  <1> DEFINE V == {vs[i] : i \in 1 .. m + 1}
             x == FrontOf(vs, m)
             y == FrontOf(vs, m + 1)
             u == vs[m + 1]
             z == Append(x, u)
  <1>1. \A i \in 1 .. m + 1 : vs[i] \in V
    BY Zenon
  <1>2. 1 .. m \subseteq 1 .. m + 1 /\ m + 1 \in 1 .. m + 1
    OBVIOUS
  <1> HIDE DEF V
  <1>3. x \in [1 .. m -> V] /\ y \in [1 .. m + 1 -> V] /\ u \in V
    BY Zenon, <1>1, <1>2 DEF FrontOf
  <1>4. (\A i \in 1 .. m : x[i] = vs[i]) /\ (\A i \in 1 .. m + 1 : y[i] = vs[i])
    BY Zenon DEF FrontOf
  <1> HIDE DEF x, y
  <1>5. x \in Seq(V) /\ Len(x) = m /\ y \in Seq(V) /\ Len(y) = m + 1
    BY <1>3
  <1> HIDE DEF u
  <1>6. z \in Seq(V) /\ Len(z) = m + 1 /\ z[m + 1] = u /\ \A i \in 1 .. m : z[i] = x[i]
    BY <1>3, <1>5
  <1> HIDE DEF z
  <1>7. ASSUME NEW i \in 1 .. m + 1
        PROVE  z[i] = y[i]
    <2>1. i = m + 1 \/ i \in 1 .. m
      OBVIOUS
    <2> QED
      BY Zenon, <1>4, <1>6, <2>1 DEF u
  <1>8. z = y
    BY <1>5, <1>6, <1>7, SeqEqual
  <1> QED
    BY Zenon, <1>8 DEF z, y, x, u

\* The reader makes of every text the value it was written for.
Fetches(f, reader, ws, vs) ==
  \A a \in Nat : \A i \in 1 .. Len(ws) : Follows(f, a, ws[i]) => Delivers(f, reader[a], a, ws[i], vs[i])

\* A loop that reads what was written one behind the other.
LEMMA RepeatDelivers ==
  ASSUME NEW f \in Seq(Byte), NEW a \in Nat, NEW ws \in Seq(Seq(Byte)), NEW vs, NEW reader,
         Fetches(f, reader, ws, vs), ~reader[Len(f) + 1].ok, Follows(f, a, Joined(ws))
  PROVE  Delivers(f, Repeat(reader, Read(Len(ws), a)), a, Joined(ws), FrontOf(vs, Len(ws)))
  <1> DEFINE n == Len(ws)
             L == Len(f)
  <1>1. n \in Nat /\ L \in Nat /\ n \in 0 .. n /\ 0 \in 0 .. n
    OBVIOUS
  <1>2. PICK g : Piles(g, ws)
    BY Zenon, SomePile
  <1>3. Joined(ws) = g[n]
    BY Zenon, <1>2, JoinedIs
  <1>4. PICK h : Repeated(h, reader, n, a) /\ Repeat(reader, Read(n, a)) = h[n]
    BY Zenon, <1>1, RepeatIs
  <1>5. ASSUME NEW k \in 0 .. n
        PROVE  g[k] \in Seq(Byte) /\ Follows(f, a, g[k])
    <2>1. g[k] \in Seq(Byte)
      BY Zenon, <1>2 DEF Piles
    <2>2. n \in k .. n
      BY <1>1
    <2>3. PICK rest \in Seq(Byte) : g[n] = g[k] \o rest
      BY Zenon, <1>2, <2>2, PilePrefix DEF Begins
    <2>4. Follows(f, a, g[k] \o rest)
      BY Zenon, <1>3, <2>3
    <2> QED
      BY Zenon, <2>1, <2>4, FollowsParts
  <1> DEFINE K == {k \in Nat : k <= n => Delivers(f, h[k], a, g[k], FrontOf(vs, k))}
  <1>6. 0 \in K
    <2>1. h[0] = Read(<<>>, a) /\ g[0] = <<>>
      BY Zenon, <1>2, <1>4 DEF Repeated, Piles
    <2>2. FrontOf(vs, 0) = <<>>
      BY DEF FrontOf
    <2>3. a \in 1 .. L + 1
      BY Zenon DEF Follows
    <2>4. a + Len(<<>>) <= L + 1 /\ a + Len(<<>>) = a
      BY <1>1, <2>3
    <2>5. Delivers(f, h[0], a, g[0], FrontOf(vs, 0))
      BY Zenon, <2>1, <2>2, <2>4, GetsWhole
    <2> QED
      BY Zenon, <2>5
  <1>7. ASSUME NEW k \in Nat, k \in K
        PROVE  k + 1 \in K
    <2> SUFFICES ASSUME k + 1 <= n
                 PROVE  Delivers(f, h[k + 1], a, g[k + 1], FrontOf(vs, k + 1))
      OBVIOUS
    <2>1. k <= n /\ k \in 0 .. n /\ k + 1 \in 0 .. n /\ k + 1 \in 1 .. n /\ (k + 1) - 1 = k
      BY <1>1
    <2> DEFINE r == h[k]
               item == reader[r.next]
               w == g[k]
               x == ws[k + 1]
    <2>2. Delivers(f, r, a, w, FrontOf(vs, k))
      BY Zenon, <1>7, <2>1
    <2>3. h[k + 1] = Then(r, item)
      BY Zenon, <1>4, <2>1 DEF Repeated, ThenFrom
    <2>4. g[k + 1] = w \o x
      BY Zenon, <1>2, <2>1 DEF Piles
    <2>5. w \in Seq(Byte) /\ Follows(f, a, w \o x)
      BY Zenon, <1>5, <2>1, <2>4
    <2>6. x \in Seq(Byte)
      BY <2>1, ElementOfSeq
    <2> HIDE DEF r, w, x, item
    <2>7. Gets(f, r, a, w, FrontOf(vs, k))
      BY Zenon, <2>2, DeliversGets
    <2>8. ASSUME a + Len(w) <= Len(f) + 1
          PROVE  Delivers(f, item, a + Len(w), x, vs[k + 1])
      <3>1. r = Read(FrontOf(vs, k), a + Len(w))
        BY Zenon, <2>7, <2>8 DEF Gets
      <3>2. r.next = a + Len(w)
        BY Zenon, <3>1, ReadFields
      <3>3. item = reader[a + Len(w)]
        BY Zenon, <3>2 DEF item
      <3>4. a + Len(w) \in Nat
        BY Zenon, <2>5, <2>6, PartsFit
      <3>5. Follows(f, a + Len(w), x)
        BY Zenon, <2>5, <2>6, <2>8, FollowsParts
      <3>6. Delivers(f, reader[a + Len(w)], a + Len(w), x, vs[k + 1])
        BY Zenon, <2>1, <3>4, <3>5 DEF Fetches, x
      <3> QED
        BY Zenon, <3>3, <3>6
    <2>9. ASSUME ~(a + Len(w) <= Len(f) + 1), r.ok
          PROVE  ~item.ok
      <3>1. ToEnd(f, r)
        BY Zenon, <2>7, <2>9, GetsEnd
      <3>2. item = reader[Len(f) + 1]
        BY Zenon, <3>1 DEF item, ToEnd
      <3> QED
        BY Zenon, <3>2
    <2>10. Delivers(f, Then(r, item), a, w \o x, Append(FrontOf(vs, k), vs[k + 1]))
      BY Zenon, <2>5, <2>6, <2>7, <2>8, <2>9, ThenDelivers
    <2> QED
      BY Zenon, <2>3, <2>4, <2>10, FrontAppend
  <1> HIDE DEF K
  <1>8. n \in K /\ n <= n
    <2>1. Nat \subseteq K
      BY Zenon, <1>6, <1>7, Induction
    <2> QED
      BY <1>1, <2>1
  <1>9. Delivers(f, h[n], a, g[n], FrontOf(vs, n))
    BY Zenon, <1>8 DEF K
  <1> QED
    BY Zenon, <1>3, <1>4, <1>9

\* A loop whose first round fails.
LEMMA RepeatFails ==
  ASSUME NEW reader, NEW a, ~reader[a].ok, NEW n \in Nat, n # 0
  PROVE  ~Repeat(reader, Read(n, a)).ok
  <1>1. PICK h : Repeated(h, reader, n, a) /\ Repeat(reader, Read(n, a)) = h[n]
    BY Zenon, RepeatIs
  <1> DEFINE K == {k \in Nat : k + 1 <= n => ~h[k + 1].ok}
  <1>2. 0 \in K
    <2>1. 1 \in 1 .. n /\ 1 - 1 = 0 /\ 0 + 1 = 1
      OBVIOUS
    <2>2. h[0] = Read(<<>>, a) /\ h[1] = ThenFrom(reader, h[0])
      BY Zenon, <1>1, <2>1 DEF Repeated
    <2> DEFINE x == h[0]
    <2> HIDE DEF x
    <2>3. x = Read(<<>>, a)
      BY Zenon, <2>2 DEF x
    <2>6. x.next = a
      BY Zenon, <2>3, ReadFields
    <2>4. h[1] = Then(x, reader[a])
      BY Zenon, <2>2, <2>6 DEF ThenFrom, x
    <2>5. ~h[1].ok
      BY Zenon, <2>4, ThenFails
    <2> QED
      BY Zenon, <2>1, <2>5
  <1>3. ASSUME NEW k \in Nat, k \in K
        PROVE  k + 1 \in K
    <2> SUFFICES ASSUME (k + 1) + 1 <= n
                 PROVE  ~h[(k + 1) + 1].ok
      OBVIOUS
    <2>1. k + 1 <= n /\ (k + 1) + 1 \in 1 .. n /\ ((k + 1) + 1) - 1 = k + 1
      OBVIOUS
    <2>2. ~h[k + 1].ok
      BY Zenon, <1>3, <2>1
    <2>3. h[(k + 1) + 1] = Then(h[k + 1], reader[h[k + 1].next])
      BY Zenon, <1>1, <2>1 DEF Repeated, ThenFrom
    <2> QED
      BY Zenon, <2>2, <2>3, ThenFails
  <1> HIDE DEF K
  <1>4. n - 1 \in Nat /\ (n - 1) + 1 = n /\ n <= n
    OBVIOUS
  <1>5. ~h[n].ok
    BY Zenon, <1>2, <1>3, <1>4, Induction DEF K
  <1> QED
    BY Zenon, <1>1, <1>5

\* A loop of no rounds.
LEMMA RepeatNone ==
  ASSUME NEW reader, NEW a
  PROVE  Repeat(reader, Read(0, a)) = Read(<<>>, a)
  <1>1. PICK h : Repeated(h, reader, 0, a) /\ Repeat(reader, Read(0, a)) = h[0]
    BY Zenon, RepeatIs
  <1> QED
    BY Zenon, <1>1 DEF Repeated

\* Where the second of two parts begins and ends.
Fits(f, at, w, x) ==
  /\ (at + Len(w)) + Len(x) = at + Len(w \o x) /\ at + Len(w) \in Nat
  /\ at + Len(w \o x) <= Len(f) + 1 => at + Len(w) <= Len(f) + 1

\* The second part does begin and end there.
LEMMA PartsFits ==
  ASSUME NEW f \in Seq(Byte), NEW at \in Nat, NEW w \in Seq(Byte), NEW x \in Seq(Byte)
  PROVE  Fits(f, at, w, x)
  BY ZenonT(30), PartsFit DEF Fits

\* As many rounds as a number of the file says, p times over.
Times(count, number, p) == count = Multiplied(number, p) \/ (count = number /\ p = 1)

\* A number that was read, so many times over.
LEMMA TimesRead ==
  ASSUME NEW count, NEW m \in Nat, NEW next, NEW p \in Nat, Times(count, Read(m, next), p)
  PROVE  count = Read(m * p, next)
  <1> DEFINE number == Read(m, next)
  <1>1. number.ok /\ number.value = m /\ number.next = next
    BY Zenon, ReadFields
  <1>2. p = 1 => m * p = m
    OBVIOUS
  <1>3. count = Multiplied(number, p) \/ (count = number /\ p = 1)
    BY Zenon DEF Times
  <1>4. CASE count = Multiplied(number, p)
    <2> HIDE DEF number
    <2> QED
      BY Zenon, <1>1, <1>4 DEF Multiplied
  <1>5. CASE count = number /\ p = 1
    BY Zenon, <1>2, <1>5
  <1> QED
    BY Zenon, <1>3, <1>4, <1>5

\* A number that was not read.
LEMMA TimesNothing ==
  ASSUME NEW count, NEW number, NEW p, Times(count, number, p), ~number.ok
  PROVE  ~count.ok
  <1>1. count = Failed \/ count = number
    BY Zenon DEF Times, Multiplied
  <1> QED
    BY Zenon, <1>1, ReadFields

\* A number and so many things behind it.
LEMMA CountedDelivers ==
  ASSUME NEW f \in Seq(Byte), NEW a \in Nat, NEW ws \in Seq(Seq(Byte)), NEW vs, NEW reader,
         Fetches(f, reader, ws, vs), ~reader[Len(f) + 1].ok,
         NEW n \in Nat, NEW p \in Nat \ {0}, Len(ws) = n * p, NEW count, Times(count, readNumber(f, a), p),
         Follows(f, a, writeLine(Decimal(n)) \o Joined(ws))
  PROVE  Delivers(f, Repeat(reader, count), a, writeLine(Decimal(n)) \o Joined(ws), FrontOf(vs, Len(ws)))
  <1> DEFINE u == writeLine(Decimal(n))
             j == Joined(ws)
             number == readNumber(f, a)
             L == Len(f)
             N == Len(ws)
             r == Repeat(reader, count)
             v == FrontOf(vs, N)
  <1>1. n \in Int /\ L \in Nat /\ N \in Nat /\ j \in Seq(Byte)
    <2>1. j \in Seq(Byte)
      BY Zenon, JoinedType
    <2> HIDE DEF j
    <2> QED
      BY <2>1
  <1>2. u \in Seq(Byte)
    BY Zenon, <1>1, DecimalText, LineText
  <1>3. Follows(f, a, u) /\ (a + Len(u) <= Len(f) + 1 => Follows(f, a + Len(u), j))
    BY Zenon, <1>1, <1>2, FollowsParts
  <1>4. /\ Gets(f, number, a, u, n)
        /\ ~(a + Len(u) <= Len(f) + 1) /\ number.ok => Shortened(f, number, a, u, n)
    BY Zenon, <1>1, <1>3, NumberDelivered
  <1> HIDE DEF u, j, number, N, r, v
  <1>5. /\ (a + Len(u)) + Len(j) = a + Len(u \o j) /\ a + Len(u) \in Nat
        /\ a + Len(u \o j) <= Len(f) + 1 => a + Len(u) <= Len(f) + 1
    <2>1. Fits(f, a, u, j)
      BY Zenon, <1>1, <1>2, PartsFits
    <2> QED
      BY Zenon, <2>1 DEF Fits
  <1>6. CASE a + Len(u) <= Len(f) + 1
    <2>1. number = Read(n, a + Len(u))
      BY Zenon, <1>4, <1>6 DEF Gets
    <2>2. p \in Nat
      OBVIOUS
    <2>3. count = Read(N, a + Len(u))
      <3>1. Times(count, Read(n, a + Len(u)), p)
        BY Zenon, <2>1 DEF number
      <3>2. count = Read(n * p, a + Len(u))
        BY Zenon, <2>2, <3>1, TimesRead
      <3> QED
        BY Zenon, <3>2 DEF N
    <2>4. Delivers(f, r, a + Len(u), j, v)
      BY Zenon, <1>3, <1>5, <1>6, <2>3, RepeatDelivers DEF r, j, N, v
    <2>5. CASE a + Len(u \o j) <= Len(f) + 1
      <3>1. r = Read(v, a + Len(u \o j))
        BY Zenon, <1>5, <2>4, <2>5 DEF Delivers
      <3> QED
        BY Zenon, <2>5, <3>1, GetsWhole DEF u, j, r, v, N
    <2>6. CASE ~(a + Len(u \o j) <= Len(f) + 1)
      <3>1. ~((a + Len(u)) + Len(j) <= Len(f) + 1)
        BY Zenon, <1>5, <2>6
      <3>2. r.ok => NearlyGets(f, r, a + Len(u), j, v)
        BY Zenon, <2>4, <3>1, DeliversEnd
      <3>3. r.ok => NearlyGets(f, r, a, u \o j, v)
        BY Zenon, <1>5, <3>2 DEF NearlyGets
      <3> QED
        BY Zenon, <2>6, <3>3, DeliversTorn DEF u, j, r, v, N
    <2> QED
      BY Zenon, <2>5, <2>6
  <1>7. CASE ~(a + Len(u) <= Len(f) + 1)
    <2>0. ~(a + Len(u \o j) <= Len(f) + 1)
      BY Zenon, <1>5, <1>7
    <2> SUFFICES ASSUME r.ok
                 PROVE  NearlyGets(f, r, a, u \o j, v)
      BY Zenon, <2>0, DeliversTorn DEF u, j, r, v, N
    <2>1. number.ok
      <3> SUFFICES ASSUME ~number.ok
                   PROVE  FALSE
        OBVIOUS
      <3>1. ~count.ok
        BY Zenon, TimesNothing DEF number
      <3>2. r = Failed
        BY Zenon, <3>1 DEF Repeat, r
      <3> QED
        BY Zenon, <3>2, ReadFields
    <2>2. PICK m \in Nat : /\ number = Read(m, Len(f) + 1) /\ (n # 0 => m # 0)
                           /\ n = 0 => m = 0 /\ a + Len(u) = Len(f) + 2
      BY Zenon, <1>4, <1>7, <2>1 DEF Shortened
    <2>3. p \in Nat
      OBVIOUS
    <2>4. count = Read(m * p, Len(f) + 1)
      <3>1. Times(count, Read(m, Len(f) + 1), p)
        BY Zenon, <2>2 DEF number
      <3> QED
        BY Zenon, <2>3, <3>1, TimesRead
    <2>5. CASE n # 0
      <3>1. m * p \in Nat /\ m * p # 0
        BY <2>2, <2>5
      <3>2. ~r.ok
        BY Zenon, <2>4, <3>1, RepeatFails DEF r
      <3> QED
        BY Zenon, <3>2
    <2>6. CASE n = 0
      <3>1. m = 0 /\ m * p = 0 /\ N = 0
        <4>1. m = 0 /\ N = 0 * p
          BY Zenon, <2>2, <2>6 DEF N
        <4> QED
          BY <4>1
      <3>2. r = Read(<<>>, Len(f) + 1)
        BY Zenon, <2>4, <3>1, RepeatNone DEF r
      <3>3. v = <<>>
        BY <3>1 DEF v, FrontOf
      <3>4. j = <<>>
        <4>1. ws = <<>>
          BY <3>1 DEF N
        <4> QED
          BY Zenon, <4>1 DEF j, Joined
      <3>5. u \o j = u
        BY <1>2, <3>4
      <3> QED
        BY Zenon, <2>2, <2>6, <3>2, <3>3, <3>5 DEF NearlyGets
    <2> QED
      BY Zenon, <2>5, <2>6
  <1> QED
    BY Zenon, <1>6, <1>7

-----------------------------------------------------------------------------
\* The elements of a value.

\* What is written of the parts of a value, one by one.
Bulks(parts) == [i \in DOMAIN parts |-> writeBulk(parts[i])]

\* The reader of one of them.
BulkReader(f) == [at \in Nat |-> readBulk(f, at)]

\* All of a sequence.
LEMMA FrontAll ==
  ASSUME NEW S, NEW s \in Seq(S)
  PROVE  FrontOf(s, Len(s)) = s
  <1>1. s = [i \in 1 .. Len(s) |-> s[i]]
    OBVIOUS
  <1> QED
    BY Zenon, <1>1 DEF FrontOf

\* What is written of the parts.
LEMMA BulksText ==
  ASSUME NEW parts \in Seq(Seq(Byte))
  PROVE  Bulks(parts) \in Seq(Seq(Byte)) /\ Len(Bulks(parts)) = Len(parts)
  <1> DEFINE n == Len(parts)
             ws == Bulks(parts)
  <1>1. n \in Nat /\ DOMAIN parts = 1 .. n /\ \A i \in 1 .. n : parts[i] \in Seq(Byte)
    BY ElementOfSeq
  <1>2. ws = [i \in 1 .. n |-> writeBulk(parts[i])]
    BY Zenon, <1>1 DEF Bulks
  <1>3. ws \in [1 .. n -> Seq(Byte)]
    BY Zenon, <1>1, <1>2, BulkText
  <1> HIDE DEF ws, n
  <1>4. ws \in Seq(Seq(Byte)) /\ Len(ws) = n
    BY <1>1, <1>3
  <1> QED
    BY Zenon, <1>4 DEF ws, n

\* Bulk by bulk the parts are read back.
LEMMA BulksFetched ==
  ASSUME NEW f \in Seq(Byte), NEW parts \in Seq(Seq(Byte))
  PROVE  Fetches(f, BulkReader(f), Bulks(parts), parts) /\ ~BulkReader(f)[Len(f) + 1].ok
  <1>1. ASSUME NEW a \in Nat, NEW i \in 1 .. Len(Bulks(parts)), Follows(f, a, Bulks(parts)[i])
        PROVE  Delivers(f, BulkReader(f)[a], a, Bulks(parts)[i], parts[i])
    <2>1. i \in 1 .. Len(parts) /\ DOMAIN parts = 1 .. Len(parts)
      BY BulksText
    <2>2. parts[i] \in Seq(Byte)
      BY <2>1, ElementOfSeq
    <2>3. Bulks(parts)[i] = writeBulk(parts[i]) /\ BulkReader(f)[a] = readBulk(f, a)
      BY Zenon, <2>1 DEF Bulks, BulkReader
    <2> QED
      BY Zenon, <1>1, <2>2, <2>3, BulkDelivered
  <1>2. Len(f) + 1 \in Nat
    OBVIOUS
  <1>3. BulkReader(f)[Len(f) + 1] = readBulk(f, Len(f) + 1)
    BY Zenon, <1>2 DEF BulkReader
  <1> QED
    BY Zenon, <1>1, <1>3, BulkAtEnd DEF Fetches

\* The elements are read by a loop over their bulks.
LEMMA ElementsAre ==
  ASSUME NEW f, NEW type, NEW number
  PROVE  Elements(f, type, number) = Repeat(BulkReader(f), Multiplied(number, PartsOf(type)))
  BY Zenon DEF Elements, BulkReader

\* A string is read by a loop of one round.
LEMMA StringIs ==
  ASSUME NEW f, NEW a
  PROVE  Elements(f, "s", Read(1, a)) = Repeat(BulkReader(f), Read(1, a))
  <1> DEFINE count == Multiplied(Read(1, a), PartsOf("s"))
  <1>1. PartsOf("s") = 1 /\ 1 * 1 = 1
    BY DEF PartsOf
  <1>2. Read(1, a).ok /\ Read(1, a).value = 1 /\ Read(1, a).next = a
    BY Zenon, ReadFields
  <1>3. count = Read(1, a)
    BY Zenon, <1>1, <1>2 DEF Multiplied
  <1>4. Elements(f, "s", Read(1, a)) = Repeat(BulkReader(f), count)
    BY Zenon, ElementsAre
  <1> HIDE DEF count
  <1> QED
    BY Zenon, <1>3, <1>4

\* A string is one bulk.
LEMMA StringDelivered ==
  ASSUME NEW f \in Seq(Byte), NEW a \in Nat, NEW parts \in Seq(Seq(Byte)), Len(parts) = 1,
         Follows(f, a, Joined(Bulks(parts)))
  PROVE  Delivers(f, Elements(f, "s", Read(1, a)), a, Joined(Bulks(parts)), parts)
  <1> DEFINE reader == BulkReader(f)
             ws == Bulks(parts)
  <1>2. Elements(f, "s", Read(1, a)) = Repeat(reader, Read(1, a))
    BY Zenon, StringIs
  <1>3. ws \in Seq(Seq(Byte)) /\ Len(ws) = Len(parts)
    BY Zenon, BulksText
  <1>4. Fetches(f, reader, ws, parts) /\ ~reader[Len(f) + 1].ok
    BY Zenon, BulksFetched
  <1> HIDE DEF reader, ws
  <1>5. Delivers(f, Repeat(reader, Read(Len(ws), a)), a, Joined(ws), FrontOf(parts, Len(ws)))
    BY Zenon, <1>3, <1>4, RepeatDelivers DEF ws
  <1>6. FrontOf(parts, Len(parts)) = parts
    BY Zenon, FrontAll
  <1> QED
    BY Zenon, <1>2, <1>3, <1>5, <1>6 DEF ws

\* Any other value is a number and so many elements.
LEMMA ElementsDelivered ==
  ASSUME NEW f \in Seq(Byte), NEW a \in Nat, NEW parts \in Seq(Seq(Byte)), NEW type,
         NEW n \in Nat, Len(parts) = n * PartsOf(type),
         Follows(f, a, writeLine(Decimal(n)) \o Joined(Bulks(parts)))
  PROVE  Delivers(f, Elements(f, type, readNumber(f, a)), a,
                  writeLine(Decimal(n)) \o Joined(Bulks(parts)), parts)
  <1> DEFINE reader == BulkReader(f)
             ws == Bulks(parts)
             p == PartsOf(type)
             count == Multiplied(readNumber(f, a), p)
             w == writeLine(Decimal(n)) \o Joined(ws)
  <1>1. p \in Nat \ {0}
    BY DEF PartsOf
  <1>2. Elements(f, type, readNumber(f, a)) = Repeat(reader, count)
    BY Zenon, ElementsAre
  <1>3. ws \in Seq(Seq(Byte)) /\ Len(ws) = Len(parts)
    BY Zenon, BulksText
  <1>4. Fetches(f, reader, ws, parts) /\ ~reader[Len(f) + 1].ok
    BY Zenon, BulksFetched
  <1>5. Times(count, readNumber(f, a), p)
    BY Zenon DEF Times
  <1> HIDE DEF reader, ws, count, p
  <1>6. Len(ws) = n * p /\ Follows(f, a, w)
    BY Zenon, <1>3 DEF ws, p
  <1>7. Delivers(f, Repeat(reader, count), a, w, FrontOf(parts, Len(ws)))
    BY Zenon, <1>1, <1>3, <1>4, <1>5, <1>6, CountedDelivers
  <1>8. FrontOf(parts, Len(parts)) = parts
    BY Zenon, FrontAll
  <1> QED
    BY Zenon, <1>2, <1>3, <1>7, <1>8 DEF ws

\* There are no elements at the end of the file, and no number of them.
LEMMA NumberAtEnd ==
  ASSUME NEW f \in Seq(Byte)
  PROVE  ~readNumber(f, Len(f) + 1).ok
  <1>1. Len(f) + 1 > Len(f)
    OBVIOUS
  <1>2. readLine(f, Len(f) + 1) = Failed
    BY Zenon, <1>1 DEF readLine
  <1> QED
    BY Zenon, <1>2, NumberOnNext, ReadFields DEF readNumber

\* A loop whose count would be there.
LEMMA CountedAtEnd ==
  ASSUME NEW f \in Seq(Byte), NEW reader, NEW count, NEW p, Times(count, readNumber(f, Len(f) + 1), p)
  PROVE  ~Repeat(reader, count).ok
  <1>1. ~count.ok
    BY Zenon, NumberAtEnd, TimesNothing
  <1>2. Repeat(reader, count) = Failed
    BY Zenon, <1>1 DEF Repeat
  <1> QED
    BY Zenon, <1>2, ReadFields

\* The elements of a value, of any type.
LEMMA ElementsAtEnd ==
  ASSUME NEW f \in Seq(Byte), NEW type
  PROVE  ~Elements(f, "s", Read(1, Len(f) + 1)).ok /\ ~Elements(f, type, readNumber(f, Len(f) + 1)).ok
  <1> DEFINE a == Len(f) + 1
  <1>1. 1 \in Nat /\ 1 # 0 /\ <<>> \in Seq(Seq(Byte))
    OBVIOUS
  <1>2. ~BulkReader(f)[a].ok
    BY Zenon, <1>1, BulksFetched
  <1>3. ~Repeat(BulkReader(f), Read(1, a)).ok
    BY Zenon, <1>1, <1>2, RepeatFails
  <1>4. Times(Multiplied(readNumber(f, a), PartsOf(type)), readNumber(f, a), PartsOf(type))
    BY Zenon DEF Times
  <1>5. ~Repeat(BulkReader(f), Multiplied(readNumber(f, a), PartsOf(type))).ok
    BY Zenon, <1>4, CountedAtEnd
  <1>6. Elements(f, "s", Read(1, a)) = Repeat(BulkReader(f), Read(1, a))
    BY Zenon, StringIs
  <1>7. Elements(f, type, readNumber(f, a)) = Repeat(BulkReader(f), Multiplied(readNumber(f, a), PartsOf(type)))
    BY Zenon, ElementsAre
  <1> QED
    BY Zenon, <1>3, <1>5, <1>6, <1>7

-----------------------------------------------------------------------------
\* Entries.

\* One more bulk behind what was read.
LEMMA ThenBulkGets ==
  ASSUME NEW f \in Seq(Byte), NEW a \in Nat, NEW w \in Seq(Byte), NEW v, NEW r, Gets(f, r, a, w, v),
         NEW b \in Seq(Byte), Follows(f, a, w \o writeBulk(b))
  PROVE  Gets(f, ThenBulk(f, r), a, w \o writeBulk(b), Append(v, b))
  <1> DEFINE x == writeBulk(b)
             item == readBulk(f, r.next)
  <1>1. x \in Seq(Byte) /\ a + Len(w) \in Nat
    <2>1. x \in Seq(Byte)
      BY Zenon, BulkText
    <2>2. Fits(f, a, w, x)
      BY Zenon, <2>1, PartsFits
    <2> QED
      BY Zenon, <2>1, <2>2 DEF Fits
  <1>2. ASSUME a + Len(w) <= Len(f) + 1
        PROVE  Gets(f, item, a + Len(w), x, b)
    <2>1. r = Read(v, a + Len(w))
      BY Zenon, <1>2 DEF Gets
    <2>2. r.next = a + Len(w)
      BY Zenon, <2>1, ReadFields
    <2>3. Follows(f, a + Len(w), x)
      BY Zenon, <1>1, <1>2, FollowsParts
    <2>4. Delivers(f, readBulk(f, a + Len(w)), a + Len(w), x, b)
      BY Zenon, <1>1, <2>3, BulkDelivered
    <2>5. Gets(f, readBulk(f, a + Len(w)), a + Len(w), x, b)
      BY Zenon, <2>4, DeliversGets
    <2> QED
      BY Zenon, <2>2, <2>5
  <1>3. ASSUME ~(a + Len(w) <= Len(f) + 1), r.ok
        PROVE  ~item.ok
    <2>1. ToEnd(f, r)
      BY Zenon, <1>3, GetsEnd
    <2> QED
      BY Zenon, <2>1, BulkAtEnd DEF ToEnd
  <1>4. ThenBulk(f, r) = Then(r, item)
    BY Zenon DEF ThenBulk
  <1> HIDE DEF x, item
  <1>5. Gets(f, Then(r, item), a, w \o x, Append(v, b))
    BY Zenon, <1>1, <1>2, <1>3, ThenGets
  <1> QED
    BY Zenon, <1>4, <1>5 DEF x

\* One more number.
LEMMA ThenNumberGets ==
  ASSUME NEW f \in Seq(Byte), NEW a \in Nat, NEW w \in Seq(Byte), NEW v, NEW r, Gets(f, r, a, w, v),
         NEW n \in Int, Follows(f, a, w \o writeLine(Decimal(n)))
  PROVE  Gets(f, ThenNumber(f, r), a, w \o writeLine(Decimal(n)), Append(v, n))
  <1> DEFINE x == writeLine(Decimal(n))
             item == readNumber(f, r.next)
  <1>1. x \in Seq(Byte) /\ a + Len(w) \in Nat
    <2>1. x \in Seq(Byte)
      BY Zenon, DecimalText, LineText
    <2>2. Fits(f, a, w, x)
      BY Zenon, <2>1, PartsFits
    <2> QED
      BY Zenon, <2>1, <2>2 DEF Fits
  <1>2. ASSUME a + Len(w) <= Len(f) + 1
        PROVE  Gets(f, item, a + Len(w), x, n)
    <2>1. r = Read(v, a + Len(w))
      BY Zenon, <1>2 DEF Gets
    <2>2. r.next = a + Len(w)
      BY Zenon, <2>1, ReadFields
    <2>3. Follows(f, a + Len(w), x)
      BY Zenon, <1>1, <1>2, FollowsParts
    <2>4. Gets(f, readNumber(f, a + Len(w)), a + Len(w), x, n)
      BY Zenon, <1>1, <2>3, NumberDelivered
    <2> QED
      BY Zenon, <2>2, <2>4
  <1>3. ASSUME ~(a + Len(w) <= Len(f) + 1), r.ok
        PROVE  ~item.ok
    <2>1. ToEnd(f, r)
      BY Zenon, <1>3, GetsEnd
    <2> QED
      BY Zenon, <2>1, NumberAtEnd DEF ToEnd
  <1>4. ThenNumber(f, r) = Then(r, item)
    BY Zenon DEF ThenNumber
  <1> HIDE DEF x, item
  <1>5. Gets(f, Then(r, item), a, w \o x, Append(v, n))
    BY Zenon, <1>1, <1>2, <1>3, ThenGets
  <1> QED
    BY Zenon, <1>4, <1>5 DEF x

\* The fields of an entry, in order.
LEMMA EntryFields ==
  ASSUME NEW e \in Entry
  PROVE  /\ e.key \in Seq(Byte) /\ e.type \in {"s", "l", "h", "e"} /\ <<e.type>> \in Seq(Byte)
         /\ e.createdAt \in Int /\ e.expiresAt \in Int /\ e.parts \in Seq(Seq(Byte))
         /\ e.type = "s" => Len(e.parts) = 1
         /\ e.type = "h" => Len(e.parts) % 2 = 0
         /\ e = [key |-> e.key, type |-> e.type, createdAt |-> e.createdAt, expiresAt |-> e.expiresAt,
                 parts |-> e.parts]
  <1>1. e \in [key : Seq(Byte), type : {"s", "l", "h", "e"}, createdAt : Int, expiresAt : Int,
               parts : Seq(Seq(Byte))]
    BY Zenon DEF Entry
  <1>2. (e.type = "s" => Len(e.parts) = 1) /\ (e.type = "h" => Len(e.parts) % 2 = 0)
    BY Zenon DEF Entry
  <1>3. /\ e.key \in Seq(Byte) /\ e.type \in {"s", "l", "h", "e"}
        /\ e.createdAt \in Int /\ e.expiresAt \in Int /\ e.parts \in Seq(Seq(Byte))
    BY <1>1
  <1>4. e = [key |-> e.key, type |-> e.type, createdAt |-> e.createdAt, expiresAt |-> e.expiresAt,
             parts |-> e.parts]
    BY <1>1
  <1>5. <<e.type>> \in Seq(Byte)
    <2>1. e.type \in Byte
      BY Zenon, <1>3, SymbolsAssumption
    <2> QED
      BY <2>1
  <1> QED
    BY Zenon, <1>2, <1>3, <1>4, <1>5

\* What is written of key, type, createdAt and expiresAt.
HeaderText(e) ==
  writeBulk(e.key) \o writeBulk(<<e.type>>) \o writeLine(Decimal(e.createdAt)) \o writeLine(Decimal(e.expiresAt))

\* What is read of them.
HeaderValue(e) == Append(Append(Append(Append(<<>>, e.key), <<e.type>>), e.createdAt), e.expiresAt)

\* How it is read.
HeaderRead(f, a) ==
  ThenNumber(f, ThenNumber(f, ThenBulk(f, ThenBulk(f, Read(<<>>, a)))))

\* The header is read as it was written.
LEMMA HeaderGets ==
  ASSUME NEW f \in Seq(Byte), NEW a \in Nat, NEW e \in Entry, Follows(f, a, HeaderText(e))
  PROVE  HeaderText(e) \in Seq(Byte) /\ Gets(f, HeaderRead(f, a), a, HeaderText(e), HeaderValue(e))
  <1> DEFINE b1 == writeBulk(e.key)
             b2 == writeBulk(<<e.type>>)
             b3 == writeLine(Decimal(e.createdAt))
             b4 == writeLine(Decimal(e.expiresAt))
             r1 == ThenBulk(f, Read(<<>>, a))
             r2 == ThenBulk(f, r1)
             r3 == ThenNumber(f, r2)
             r4 == ThenNumber(f, r3)
             v1 == Append(<<>>, e.key)
             v2 == Append(v1, <<e.type>>)
             v3 == Append(v2, e.createdAt)
             v4 == Append(v3, e.expiresAt)
  <1>1. e.key \in Seq(Byte) /\ <<e.type>> \in Seq(Byte) /\ e.createdAt \in Int /\ e.expiresAt \in Int
    BY Zenon, EntryFields
  <1>2. b1 \in Seq(Byte) /\ b2 \in Seq(Byte)
    BY Zenon, <1>1, BulkText
  <1>3. b3 \in Seq(Byte) /\ b4 \in Seq(Byte)
    BY Zenon, <1>1, DecimalText, LineText
  <1>4. HeaderText(e) = ((b1 \o b2) \o b3) \o b4 /\ HeaderRead(f, a) = r4 /\ HeaderValue(e) = v4
    BY Zenon DEF HeaderText, HeaderRead, HeaderValue
  <1>5. a \in 1 .. Len(f) + 1
    BY Zenon DEF Follows
  <1>6. a + Len(<<>>) = a /\ a + Len(<<>>) <= Len(f) + 1 /\ <<>> \in Seq(Byte)
    BY <1>5
  <1>7. Gets(f, Read(<<>>, a), a, <<>>, <<>>)
    BY Zenon, <1>6, GetsWhole
  <1>8. <<>> \o b1 = b1
    <2> HIDE DEF b1
    <2> QED
      BY <1>2
  <1>9. b1 \o b2 \in Seq(Byte) /\ (b1 \o b2) \o b3 \in Seq(Byte) /\ ((b1 \o b2) \o b3) \o b4 \in Seq(Byte)
    <2>1. b1 \o b2 \in Seq(Byte)
      BY Zenon, <1>2, BothTogether
    <2>2. (b1 \o b2) \o b3 \in Seq(Byte)
      BY Zenon, <1>3, <2>1, BothTogether
    <2>3. ((b1 \o b2) \o b3) \o b4 \in Seq(Byte)
      BY Zenon, <1>3, <2>2, BothTogether
    <2> QED
      BY Zenon, <2>1, <2>2, <2>3
  <1> HIDE DEF v1, v2, v3, v4, r1, r2, r3, r4
  <1>10. Follows(f, a, ((b1 \o b2) \o b3) \o b4)
    BY Zenon, <1>4
  <1>11. Follows(f, a, (b1 \o b2) \o b3)
    BY Zenon, <1>3, <1>9, <1>10, FollowsParts
  <1>12. Follows(f, a, b1 \o b2)
    BY Zenon, <1>3, <1>9, <1>11, FollowsParts
  <1>13. Follows(f, a, b1)
    BY Zenon, <1>2, <1>12, FollowsParts
  <1>14. Gets(f, r1, a, b1, v1)
    <2>1. Gets(f, r1, a, <<>> \o b1, v1)
      BY Zenon, <1>1, <1>6, <1>7, <1>8, <1>13, ThenBulkGets DEF r1, v1
    <2> QED
      BY Zenon, <1>8, <2>1
  <1>15. Gets(f, r2, a, b1 \o b2, v2)
    BY Zenon, <1>1, <1>2, <1>12, <1>14, ThenBulkGets DEF r2, v2
  <1>16. Gets(f, r3, a, (b1 \o b2) \o b3, v3)
    BY Zenon, <1>1, <1>9, <1>11, <1>15, ThenNumberGets DEF r3, v3
  <1>17. Gets(f, r4, a, ((b1 \o b2) \o b3) \o b4, v4)
    BY Zenon, <1>1, <1>9, <1>10, <1>16, ThenNumberGets DEF r4, v4
  <1> QED
    BY Zenon, <1>4, <1>9, <1>17

\* What is made of a result that is delivered behind w.
Makes(r, v, p, u) == (~p.ok => ~r.ok) /\ \A next : p = Read(u, next) => r = Read(v, next)

\* Something whole in front changes nothing of what is delivered.
LEMMA BehindDelivers ==
  ASSUME NEW f \in Seq(Byte), NEW a \in Nat, NEW w \in Seq(Byte), NEW x \in Seq(Byte), NEW p, NEW r, NEW u, NEW v,
         Delivers(f, p, a + Len(w), x, u), Makes(r, v, p, u)
  PROVE  Delivers(f, r, a, w \o x, v)
  <1>1. Fits(f, a, w, x)
    BY Zenon, PartsFits
  <1>2. (a + Len(w)) + Len(x) = a + Len(w \o x)
    BY Zenon, <1>1 DEF Fits
  <1>3. CASE a + Len(w \o x) <= Len(f) + 1
    <2>1. p = Read(u, a + Len(w \o x))
      BY Zenon, <1>2, <1>3 DEF Delivers
    <2>2. r = Read(v, a + Len(w \o x))
      BY Zenon, <2>1 DEF Makes
    <2> QED
      BY Zenon, <1>3, <2>2, GetsWhole
  <1>4. CASE ~(a + Len(w \o x) <= Len(f) + 1)
    <2> SUFFICES ASSUME r.ok
                 PROVE  NearlyGets(f, r, a, w \o x, v)
      BY Zenon, <1>4, DeliversTorn
    <2>1. p.ok
      BY Zenon DEF Makes
    <2>2. ~((a + Len(w)) + Len(x) <= Len(f) + 1)
      BY Zenon, <1>2, <1>4
    <2>3. NearlyGets(f, p, a + Len(w), x, u)
      BY Zenon, <2>1, <2>2, DeliversEnd
    <2>4. p = Read(u, Len(f) + 1) /\ a + Len(w \o x) = Len(f) + 2
      BY Zenon, <1>2, <2>3 DEF NearlyGets
    <2>5. r = Read(v, Len(f) + 1)
      BY Zenon, <2>4 DEF Makes
    <2> QED
      BY Zenon, <2>4, <2>5 DEF NearlyGets
  <1> QED
    BY Zenon, <1>3, <1>4

\* What follows the header, and how it is read.
BodyText(e) ==
  IF e.type = "s" THEN Joined(Bulks(e.parts))
  ELSE writeLine(Decimal(Len(e.parts) \div PartsOf(e.type))) \o Joined(Bulks(e.parts))

\* How readEntry goes on, by the type it read.
BodyRead(f, type, at) ==
  IF type = "s" THEN Elements(f, "s", Read(1, at)) ELSE Elements(f, type, readNumber(f, at))

\* As many elements as there are parts, or half as many.
LEMMA PartsCounted ==
  ASSUME NEW e \in Entry
  PROVE  /\ Len(e.parts) \div PartsOf(e.type) \in Nat
         /\ Len(e.parts) = (Len(e.parts) \div PartsOf(e.type)) * PartsOf(e.type)
  <1> DEFINE n == Len(e.parts)
  <1>1. n \in Nat
    <2>1. e.parts \in Seq(Seq(Byte))
      BY Zenon, EntryFields
    <2> QED
      BY <2>1
  <1>2. CASE e.type = "h"
    <2>1. PartsOf(e.type) = 2
      BY Zenon, <1>2 DEF PartsOf
    <2>2. n % 2 = 0
      BY Zenon, <1>2, EntryFields
    <2> HIDE DEF n
    <2>3. n \div 2 \in Nat /\ n = (n \div 2) * 2
      BY <1>1, <2>2
    <2> QED
      BY Zenon, <2>1, <2>3 DEF n
  <1>3. CASE e.type # "h"
    <2>1. PartsOf(e.type) = 1
      BY Zenon, <1>3 DEF PartsOf
    <2> HIDE DEF n
    <2>2. n \div 1 \in Nat /\ n = (n \div 1) * 1
      BY <1>1
    <2> QED
      BY Zenon, <2>1, <2>2 DEF n
  <1> QED
    BY Zenon, <1>2, <1>3

\* The parts of an entry are read as they were written.
LEMMA BodyDelivers ==
  ASSUME NEW f \in Seq(Byte), NEW a \in Nat, NEW e \in Entry, Follows(f, a, BodyText(e))
  PROVE  Delivers(f, BodyRead(f, e.type, a), a, BodyText(e), e.parts)
  <1> DEFINE n == Len(e.parts) \div PartsOf(e.type)
  <1>1. e.parts \in Seq(Seq(Byte)) /\ (e.type = "s" => Len(e.parts) = 1)
    BY Zenon, EntryFields
  <1>2. CASE e.type = "s"
    <2>1. BodyText(e) = Joined(Bulks(e.parts)) /\ BodyRead(f, e.type, a) = Elements(f, "s", Read(1, a))
      BY Zenon, <1>2 DEF BodyText, BodyRead
    <2> QED
      BY Zenon, <1>1, <1>2, <2>1, StringDelivered
  <1>3. CASE e.type # "s"
    <2>1. n \in Nat /\ Len(e.parts) = n * PartsOf(e.type)
      BY Zenon, PartsCounted
    <2>2. /\ BodyText(e) = writeLine(Decimal(n)) \o Joined(Bulks(e.parts))
          /\ BodyRead(f, e.type, a) = Elements(f, e.type, readNumber(f, a))
      BY Zenon, <1>3 DEF BodyText, BodyRead
    <2> HIDE DEF n
    <2> QED
      BY Zenon, <1>1, <2>1, <2>2, ElementsDelivered
  <1> QED
    BY Zenon, <1>2, <1>3

\* What is written of an entry.
LEMMA EntryText ==
  ASSUME NEW e \in Entry
  PROVE  /\ writeEntry(e) = HeaderText(e) \o BodyText(e) /\ writeEntry(e) \in Seq(Byte)
         /\ HeaderText(e) \in Seq(Byte) /\ BodyText(e) \in Seq(Byte)
  <1> DEFINE h == HeaderText(e)
             j == Joined(Bulks(e.parts))
             n == Len(e.parts) \div PartsOf(e.type)
             c == writeLine(Decimal(n))
             x == IF e.type = "s" THEN <<>> ELSE c
  <1>1. h \in Seq(Byte)
    <2>1. <<>> \in Seq(Byte) /\ Len(<<>>) + 1 \in Nat
      OBVIOUS
    <2>2. Follows(<<>>, Len(<<>>) + 1, h)
      <3>1. Len(<<>>) + 1 \in 1 .. Len(<<>>) + 1 /\ \A i \in Nat \ {0} : ~((Len(<<>>) + 1) + i - 1 <= Len(<<>>))
        OBVIOUS
      <3>2. \A i \in 1 .. Len(h) : i \in Nat \ {0} /\ ~((Len(<<>>) + 1) + i - 1 <= Len(<<>>))
        OBVIOUS
      <3> QED
        BY Zenon, <3>1, <3>2 DEF Follows
    <2> QED
      BY Zenon, <2>1, <2>2, HeaderGets
  <1>2. j \in Seq(Byte)
    BY Zenon, EntryFields, BulksText, JoinedType
  <1>3. c \in Seq(Byte)
    <2>1. n \in Int
      BY PartsCounted
    <2> QED
      BY Zenon, <2>1, DecimalText, LineText
  <1>4. writeEntry(e) = (h \o x) \o j
    BY Zenon DEF writeEntry, HeaderText, Bulks
  <1>5. BodyText(e) = IF e.type = "s" THEN j ELSE c \o j
    BY Zenon DEF BodyText
  <1> HIDE DEF h, j, c
  <1>6. c \o j \in Seq(Byte) /\ h \o j \in Seq(Byte) /\ h \o (c \o j) \in Seq(Byte)
    BY Zenon, <1>1, <1>2, <1>3, BothTogether
  <1>7. (h \o c) \o j = h \o (c \o j) /\ h \o <<>> = h
    <2>1. (h \o c) \o j = h \o (c \o j)
      BY Zenon, <1>1, <1>2, <1>3, BytesAssociative
    <2>2. h \o <<>> = h
      BY <1>1
    <2> QED
      BY Zenon, <2>1, <2>2
  <1>8. CASE e.type = "s"
    BY Zenon, <1>1, <1>2, <1>4, <1>5, <1>6, <1>7, <1>8 DEF h
  <1>9. CASE e.type # "s"
    BY Zenon, <1>1, <1>4, <1>5, <1>6, <1>7, <1>9 DEF h
  <1> QED
    BY Zenon, <1>8, <1>9

\* A sequence of n elements and one more.
Longer(s, x, t, n, V) ==
  t \in Seq(V) /\ Len(t) = n + 1 /\ t[n + 1] = x /\ \A i \in 1 .. n : t[i] = s[i]

\* Append makes a sequence one longer and leaves its elements.
LEMMA OneLonger ==
  ASSUME NEW V, NEW s \in Seq(V), NEW x \in V, NEW n \in Nat, Len(s) = n
  PROVE  Longer(s, x, Append(s, x), n, V)
  <1> DEFINE t == Append(s, x)
  <1>1. t \in Seq(V) /\ Len(t) = n + 1 /\ t[n + 1] = x /\ \A i \in 1 .. n : t[i] = s[i]
    OBVIOUS
  <1> HIDE DEF t
  <1> QED
    BY Zenon, <1>1 DEF Longer, t

\* The fields of the header.
LEMMA HeaderFields ==
  ASSUME NEW e
  PROVE  /\ HeaderValue(e)[1] = e.key /\ HeaderValue(e)[2] = <<e.type>>
         /\ HeaderValue(e)[3] = e.createdAt /\ HeaderValue(e)[4] = e.expiresAt
  <1> DEFINE a == e.key
             b == <<e.type>>
             c == e.createdAt
             d == e.expiresAt
             V == {a, b, c, d}
             v1 == Append(<<>>, a)
             v2 == Append(v1, b)
             v3 == Append(v2, c)
             v4 == Append(v3, d)
  <1>1. a \in V /\ b \in V /\ c \in V /\ d \in V
    BY Zenon
  <1>2. HeaderValue(e) = v4
    BY Zenon DEF HeaderValue
  <1> HIDE DEF V, a, b, c, d
  <1>3. <<>> \in Seq(V) /\ Len(<<>>) = 0
    OBVIOUS
  <1>4. \A i \in 1 .. 3 : i \in 1 .. i /\ 0 + 1 = 1 /\ 1 + 1 = 2 /\ 2 + 1 = 3 /\ 3 + 1 = 4
    OBVIOUS
  <1>5. 0 \in Nat /\ 1 \in Nat /\ 2 \in Nat /\ 3 \in Nat /\ 1 \in 1 .. 1 /\ 1 \in 1 .. 2 /\ 1 \in 1 .. 3 /\ 2 \in 1 .. 2 /\ 2 \in 1 .. 3 /\ 3 \in 1 .. 3
    OBVIOUS
  <1>6. Longer(<<>>, a, v1, 0, V) /\ Longer(v1, b, v2, 1, V) /\ Longer(v2, c, v3, 2, V) /\ Longer(v3, d, v4, 3, V)
    <2>1. Longer(<<>>, a, v1, 0, V)
      BY Zenon, <1>1, <1>3, <1>5, OneLonger
    <2> HIDE DEF v1
    <2>2. v1 \in Seq(V) /\ Len(v1) = 1
      BY <2>1 DEF Longer
    <2>3. Longer(v1, b, v2, 1, V)
      BY Zenon, <1>1, <1>5, <2>2, OneLonger
    <2> HIDE DEF v2
    <2>4. v2 \in Seq(V) /\ Len(v2) = 2
      BY <2>3 DEF Longer
    <2>5. Longer(v2, c, v3, 2, V)
      BY Zenon, <1>1, <1>5, <2>4, OneLonger
    <2> HIDE DEF v3
    <2>6. v3 \in Seq(V) /\ Len(v3) = 3
      BY <2>5 DEF Longer
    <2>7. Longer(v3, d, v4, 3, V)
      BY Zenon, <1>1, <1>5, <2>6, OneLonger
    <2> HIDE DEF v4
    <2> QED
      BY Zenon, <2>1, <2>3, <2>5, <2>7 DEF v2, v3, v4
  <1> HIDE DEF v1, v2, v3, v4
  <1>7. v1[1] = a /\ v2[2] = b /\ v3[3] = c /\ v4[4] = d
    BY <1>6 DEF Longer
  <1>8. v2[1] = v1[1] /\ v3[1] = v2[1] /\ v4[1] = v3[1] /\ v3[2] = v2[2] /\ v4[2] = v3[2] /\ v4[3] = v3[3]
    BY Zenon, <1>5, <1>6 DEF Longer
  <1> QED
    BY Zenon, <1>2, <1>7, <1>8 DEF a, b, c, d

\* The types readEntry knows, as they are read.
Types == {<<"s">>, <<"l">>, <<"h">>, <<"e">>}

\* What EntryAfter makes of a header.
LEMMA EntryAfterIs ==
  ASSUME NEW f, NEW header
  PROVE  EntryAfter(f, header) =
           IF ~header.ok \/ header.value[2] \notin Types THEN Failed
           ELSE EntryWith(header.value,
                  IF header.value[2] = <<"s">> THEN Elements(f, "s", Read(1, header.next))
                  ELSE Elements(f, header.value[2][1], readNumber(f, header.next)))
  BY Zenon DEF EntryAfter, Types

\* An entry is made of its header and its parts.
LEMMA EntryMade ==
  ASSUME NEW e \in Entry, NEW p
  PROVE  Makes(EntryWith(HeaderValue(e), p), e, p, e.parts)
  <1> DEFINE hv == HeaderValue(e)
             r == EntryWith(hv, p)
  <1>1. hv[1] = e.key /\ hv[2] = <<e.type>> /\ hv[3] = e.createdAt /\ hv[4] = e.expiresAt
    BY Zenon, HeaderFields
  <1>2. hv[2][1] = e.type
    <2>1. <<e.type>>[1] = e.type
      OBVIOUS
    <2> QED
      BY Zenon, <1>1, <2>1
  <1> HIDE DEF hv
  <1>3. r = IF p.ok THEN Read([key |-> e.key, type |-> e.type, createdAt |-> e.createdAt,
                               expiresAt |-> e.expiresAt, parts |-> p.value], p.next)
            ELSE Failed
    BY Zenon, <1>1, <1>2 DEF EntryWith
  <1> HIDE DEF r
  <1>4. ASSUME ~p.ok
        PROVE  ~r.ok
    <2>1. r = Failed
      BY Zenon, <1>3, <1>4
    <2> QED
      BY Zenon, <2>1, ReadFields
  <1>5. ASSUME NEW next, p = Read(e.parts, next)
        PROVE  r = Read(e, next)
    <2> DEFINE parts == e.parts
    <2> HIDE DEF parts
    <2>1. p = Read(parts, next)
      BY Zenon, <1>5 DEF parts
    <2>2. p.ok /\ p.value = parts /\ p.next = next
      BY Zenon, <2>1, ReadFields
    <2>3. e = [key |-> e.key, type |-> e.type, createdAt |-> e.createdAt, expiresAt |-> e.expiresAt,
               parts |-> parts]
      BY Zenon, EntryFields DEF parts
    <2> DEFINE d == [key |-> e.key, type |-> e.type, createdAt |-> e.createdAt, expiresAt |-> e.expiresAt,
                     parts |-> parts]
    <2>4. r = Read(d, next)
      BY Zenon, <1>3, <2>2
    <2> HIDE DEF d
    <2>5. e = d
      BY Zenon, <2>3 DEF d
    <2> QED
      BY Zenon, <2>4, <2>5
  <1> QED
    BY Zenon, <1>4, <1>5 DEF Makes, r, hv

\* An entry is read as it was written.
LEMMA EntryDelivered ==
  ASSUME NEW f \in Seq(Byte), NEW a \in Nat, NEW e \in Entry, Follows(f, a, writeEntry(e))
  PROVE  Delivers(f, readEntry(f, a), a, writeEntry(e), e)
  <1> DEFINE header == HeaderRead(f, a)
             h == HeaderText(e)
             b == BodyText(e)
             r == readEntry(f, a)
             hv == HeaderValue(e)
             t == e.type
  <1>1. writeEntry(e) = h \o b /\ h \in Seq(Byte) /\ b \in Seq(Byte)
    BY Zenon, EntryText
  <1>2. Fits(f, a, h, b)
    BY Zenon, <1>1, PartsFits
  <1>3. Follows(f, a, h) /\ (a + Len(h) <= Len(f) + 1 => Follows(f, a + Len(h), b))
    BY Zenon, <1>1, FollowsParts
  <1>4. Gets(f, header, a, h, hv)
    BY Zenon, <1>3, HeaderGets
  <1>5. r = EntryAfter(f, header)
    BY Zenon DEF readEntry, HeaderRead
  <1>6. t \in {"s", "l", "h", "e"} /\ hv[2] = <<t>>
    BY Zenon, EntryFields, HeaderFields
  <1> HIDE DEF header, h, b, r, hv, t
  <1>7. CASE a + Len(h) <= Len(f) + 1
    <2> DEFINE next == a + Len(h)
               p == BodyRead(f, t, next)
    <2>1. header = Read(hv, next)
      BY Zenon, <1>4, <1>7 DEF Gets
    <2> HIDE DEF next
    <2>2. header.ok /\ header.value = hv /\ header.next = next
      BY Zenon, <2>1, ReadFields
    <2>3. <<t>> \in Types /\ (<<t>> = <<"s">> <=> t = "s") /\ <<t>>[1] = t
      BY <1>6 DEF Types
    <2>4. r = EntryWith(hv, p)
      <3>1. r = EntryWith(hv, IF t = "s" THEN Elements(f, "s", Read(1, next)) ELSE Elements(f, <<t>>[1], readNumber(f, next)))
        BY Zenon, <1>5, <1>6, <2>2, <2>3, EntryAfterIs
      <3> QED
        BY Zenon, <2>3, <3>1 DEF BodyRead
    <2> HIDE DEF p
    <2>5. Makes(r, e, p, e.parts)
      BY Zenon, <2>4, EntryMade DEF hv
    <2>6. Delivers(f, p, a + Len(h), b, e.parts)
      BY Zenon, <1>2, <1>3, <1>7, BodyDelivers DEF Fits, b, p, next, t
    <2>7. Delivers(f, r, a, h \o b, e)
      BY Zenon, <1>1, <2>5, <2>6, BehindDelivers
    <2> QED
      BY Zenon, <1>1, <2>7 DEF r
  <1>8. CASE ~(a + Len(h) <= Len(f) + 1)
    <2>1. ~(a + Len(h \o b) <= Len(f) + 1)
      BY Zenon, <1>2, <1>8 DEF Fits
    <2>2. ~r.ok
      <3>1. CASE ~header.ok \/ header.value[2] \notin Types
        <4>1. r = Failed
          BY Zenon, <1>5, <3>1, EntryAfterIs
        <4> QED
          BY Zenon, <4>1, ReadFields
      <3>2. CASE ~(~header.ok \/ header.value[2] \notin Types)
        <4>1. header.next = Len(f) + 1
          BY Zenon, <1>4, <1>8, <3>2, GetsEnd DEF ToEnd
        <4> DEFINE v == header.value
                   p == IF v[2] = <<"s">> THEN Elements(f, "s", Read(1, Len(f) + 1))
                        ELSE Elements(f, v[2][1], readNumber(f, Len(f) + 1))
        <4>2. r = EntryWith(v, p)
          BY Zenon, <1>5, <3>2, <4>1, EntryAfterIs
        <4>3. ~p.ok
          BY Zenon, ElementsAtEnd
        <4> HIDE DEF p, v
        <4>4. r = Failed
          BY Zenon, <4>2, <4>3 DEF EntryWith
        <4> QED
          BY Zenon, <4>4, ReadFields
      <3> QED
        BY Zenon, <3>1, <3>2
    <2>3. Delivers(f, r, a, h \o b, e)
      BY Zenon, <2>1, <2>2, DeliversTorn
    <2> QED
      BY Zenon, <1>1, <2>3 DEF r
  <1> QED
    BY Zenon, <1>7, <1>8

\* There are no entries at the end of the file.
LEMMA EntryAtEnd ==
  ASSUME NEW f \in Seq(Byte)
  PROVE  ~readEntry(f, Len(f) + 1).ok
  <1> DEFINE a == Len(f) + 1
             first == Read(<<>>, a)
             r1 == ThenBulk(f, first)
             r2 == ThenBulk(f, r1)
             r3 == ThenNumber(f, r2)
             header == ThenNumber(f, r3)
             r == readEntry(f, a)
  <1>1. first.next = a /\ ~readBulk(f, a).ok
    BY Zenon, ReadFields, BulkAtEnd
  <1>2. r = EntryAfter(f, header)
    BY Zenon DEF readEntry
  <1>3. r1 = Then(first, readBulk(f, a))
    BY Zenon, <1>1 DEF ThenBulk
  <1>4. r2 = Then(r1, readBulk(f, r1.next))
    BY Zenon DEF ThenBulk
  <1>5. r3 = Then(r2, readNumber(f, r2.next))
    BY Zenon DEF ThenNumber
  <1>6. header = Then(r3, readNumber(f, r3.next))
    BY Zenon DEF ThenNumber
  <1> HIDE DEF first, r1, r2, r3, header, r
  <1>7. ~r1.ok
    BY Zenon, <1>1, <1>3, ThenFails
  <1>8. ~r2.ok
    BY Zenon, <1>4, <1>7, ThenFails
  <1>9. ~r3.ok
    BY Zenon, <1>5, <1>8, ThenFails
  <1>10. ~header.ok
    BY Zenon, <1>6, <1>9, ThenFails
  <1>11. r = Failed
    BY Zenon, <1>2, <1>10, EntryAfterIs
  <1>12. ~r.ok
    BY Zenon, <1>11, ReadFields
  <1> QED
    BY Zenon, <1>12 DEF r, a

-----------------------------------------------------------------------------
\* Databases.

\* What is written of the entries of a database, one by one.
EntryTexts(entries) == [i \in DOMAIN entries |-> writeEntry(entries[i])]

\* The reader of one of them.
EntryReader(f) == [a \in Nat |-> readEntry(f, a)]

\* What is written of the entries of a database.
LEMMA EntriesText ==
  ASSUME NEW entries \in Seq(Entry)
  PROVE  /\ EntryTexts(entries) \in Seq(Seq(Byte)) /\ Len(EntryTexts(entries)) = Len(entries)
         /\ writeEntries(entries) = writeLine(Decimal(Len(entries))) \o Joined(EntryTexts(entries))
         /\ writeEntries(entries) \in Seq(Byte) /\ Len(entries) \in Nat
  <1> DEFINE n == Len(entries)
             ws == EntryTexts(entries)
             c == writeLine(Decimal(n))
  <1>1. n \in Nat /\ n \in Int /\ DOMAIN entries = 1 .. n /\ \A i \in 1 .. n : entries[i] \in Entry
    BY ElementOfSeq
  <1>2. ws = [i \in 1 .. n |-> writeEntry(entries[i])]
    BY Zenon, <1>1 DEF EntryTexts
  <1>3. ws \in [1 .. n -> Seq(Byte)]
    BY Zenon, <1>1, <1>2, EntryText
  <1>4. writeEntries(entries) = c \o Joined(ws)
    BY Zenon DEF writeEntries, EntryTexts
  <1>5. c \in Seq(Byte)
    BY Zenon, <1>1, DecimalText, LineText
  <1> HIDE DEF ws, n, c
  <1>6. ws \in Seq(Seq(Byte)) /\ Len(ws) = n
    BY <1>1, <1>3
  <1>7. Joined(ws) \in Seq(Byte)
    BY Zenon, <1>6, JoinedType
  <1>8. c \o Joined(ws) \in Seq(Byte)
    BY Zenon, <1>5, <1>7, BothTogether
  <1> QED
    BY Zenon, <1>1, <1>4, <1>6, <1>8 DEF ws, n, c

\* Entry by entry they are read back.
LEMMA EntriesFetched ==
  ASSUME NEW f \in Seq(Byte), NEW entries \in Seq(Entry)
  PROVE  Fetches(f, EntryReader(f), EntryTexts(entries), entries) /\ ~EntryReader(f)[Len(f) + 1].ok
  <1>1. ASSUME NEW a \in Nat, NEW i \in 1 .. Len(EntryTexts(entries)), Follows(f, a, EntryTexts(entries)[i])
        PROVE  Delivers(f, EntryReader(f)[a], a, EntryTexts(entries)[i], entries[i])
    <2>1. i \in 1 .. Len(entries)
      BY Zenon, EntriesText
    <2>2. entries[i] \in Entry /\ i \in DOMAIN entries
      BY <2>1, ElementOfSeq
    <2>3. EntryTexts(entries)[i] = writeEntry(entries[i]) /\ EntryReader(f)[a] = readEntry(f, a)
      BY Zenon, <2>2 DEF EntryTexts, EntryReader
    <2> QED
      BY Zenon, <1>1, <2>2, <2>3, EntryDelivered
  <1>2. Len(f) + 1 \in Nat
    OBVIOUS
  <1>3. EntryReader(f)[Len(f) + 1] = readEntry(f, Len(f) + 1)
    BY Zenon, <1>2 DEF EntryReader
  <1> QED
    BY Zenon, <1>1, <1>3, EntryAtEnd DEF Fetches

\* The entries of a database are read as they were written.
LEMMA EntriesDelivered ==
  ASSUME NEW f \in Seq(Byte), NEW a \in Nat, NEW entries \in Seq(Entry), Follows(f, a, writeEntries(entries))
  PROVE  Delivers(f, readEntries(f, a), a, writeEntries(entries), entries)
  <1> DEFINE n == Len(entries)
             ws == EntryTexts(entries)
             reader == EntryReader(f)
             number == readNumber(f, a)
             w == writeLine(Decimal(n)) \o Joined(ws)
  <1>1. n \in Nat /\ ws \in Seq(Seq(Byte)) /\ Len(ws) = n /\ writeEntries(entries) = w
    BY Zenon, EntriesText
  <1>2. Fetches(f, reader, ws, entries) /\ ~reader[Len(f) + 1].ok
    BY Zenon, EntriesFetched
  <1>3. Times(number, number, 1)
    BY Zenon DEF Times
  <1>4. readEntries(f, a) = Repeat(reader, number)
    BY Zenon DEF readEntries, EntryReader
  <1>5. 1 \in Nat \ {0} /\ n = n * 1
    BY <1>1
  <1>6. FrontOf(entries, n) = entries
    BY Zenon, FrontAll
  <1> HIDE DEF n, ws, reader
  <1>7. Len(ws) = n * 1 /\ Follows(f, a, w)
    BY Zenon, <1>1, <1>5
  <1>8. Delivers(f, Repeat(reader, number), a, w, FrontOf(entries, Len(ws)))
    BY Zenon, <1>1, <1>2, <1>3, <1>5, <1>7, CountedDelivers
  <1> QED
    BY Zenon, <1>1, <1>4, <1>6, <1>8

\* What is written of the databases, one by one.
StoreTexts(stores) == [i \in DOMAIN stores |-> writeEntries(stores[i])]

\* The reader of one of them.
StoreReader(f) == [at \in Nat |-> readEntries(f, at)]

\* What is written of the databases.
LEMMA StoresText ==
  ASSUME NEW stores \in Seq(Seq(Entry))
  PROVE  /\ StoreTexts(stores) \in Seq(Seq(Byte)) /\ Len(StoreTexts(stores)) = Len(stores)
         /\ Len(stores) \in Nat
  <1> DEFINE n == Len(stores)
             ws == StoreTexts(stores)
  <1>1. n \in Nat /\ DOMAIN stores = 1 .. n /\ \A i \in 1 .. n : stores[i] \in Seq(Entry)
    BY ElementOfSeq
  <1>2. ws = [i \in 1 .. n |-> writeEntries(stores[i])]
    BY Zenon, <1>1 DEF StoreTexts
  <1>3. ws \in [1 .. n -> Seq(Byte)]
    BY Zenon, <1>1, <1>2, EntriesText
  <1> HIDE DEF ws, n
  <1>4. ws \in Seq(Seq(Byte)) /\ Len(ws) = n
    BY <1>1, <1>3
  <1> QED
    BY Zenon, <1>1, <1>4 DEF ws, n

\* Database by database they are read back.
LEMMA StoresFetched ==
  ASSUME NEW f \in Seq(Byte), NEW stores \in Seq(Seq(Entry))
  PROVE  Fetches(f, StoreReader(f), StoreTexts(stores), stores) /\ ~StoreReader(f)[Len(f) + 1].ok
  <1>1. ASSUME NEW a \in Nat, NEW i \in 1 .. Len(StoreTexts(stores)), Follows(f, a, StoreTexts(stores)[i])
        PROVE  Delivers(f, StoreReader(f)[a], a, StoreTexts(stores)[i], stores[i])
    <2>1. i \in 1 .. Len(stores)
      BY Zenon, StoresText
    <2>2. stores[i] \in Seq(Entry) /\ i \in DOMAIN stores
      BY <2>1, ElementOfSeq
    <2>3. StoreTexts(stores)[i] = writeEntries(stores[i]) /\ StoreReader(f)[a] = readEntries(f, a)
      BY Zenon, <2>2 DEF StoreTexts, StoreReader
    <2> QED
      BY Zenon, <1>1, <2>2, <2>3, EntriesDelivered
  <1>2. Len(f) + 1 \in Nat
    OBVIOUS
  <1>3. StoreReader(f)[Len(f) + 1] = readEntries(f, Len(f) + 1)
    BY Zenon, <1>2 DEF StoreReader
  <1>4. Times(readNumber(f, Len(f) + 1), readNumber(f, Len(f) + 1), 1)
    BY Zenon DEF Times
  <1>5. ~readEntries(f, Len(f) + 1).ok
    BY Zenon, <1>4, CountedAtEnd DEF readEntries
  <1> QED
    BY Zenon, <1>1, <1>3, <1>5 DEF Fetches

-----------------------------------------------------------------------------
\* The file.

\* What is written behind the magic line.
BodyOf(version, stores) ==
  IF version = "V1" THEN Joined(StoreTexts(stores))
  ELSE writeLine(Decimal(Len(stores))) \o Joined(StoreTexts(stores))

\* How many databases the magic line makes load read.
CountOf(f, version, next) == IF version = "V1" THEN Read(1, next) ELSE readNumber(f, next)

\* The databases read behind the magic line.
StoresRead(f, version, next) == Repeat(StoreReader(f), CountOf(f, version, next))

\* One part joined is that part.
LEMMA JoinedOne ==
  ASSUME NEW parts \in Seq(Seq(Byte)), Len(parts) = 1
  PROVE  Joined(parts) = parts[1]
  <1>1. PICK g : Piles(g, parts)
    BY Zenon, SomePile
  <1>2. 1 \in 1 .. Len(parts) /\ 1 - 1 = 0
    OBVIOUS
  <1>3. g[0] = <<>> /\ g[1] = g[1 - 1] \o parts[1]
    BY Zenon, <1>1, <1>2 DEF Piles
  <1>4. g[1] = <<>> \o parts[1]
    BY Zenon, <1>2, <1>3
  <1>5. parts[1] \in Seq(Byte)
    BY <1>2, ElementOfSeq
  <1>6. <<>> \o parts[1] = parts[1]
    BY <1>5
  <1> QED
    BY Zenon, <1>1, <1>4, <1>6, JoinedIs

\* The magic line and what is behind it.
LEMMA SaveText ==
  ASSUME NEW version \in {"V1", "V2"}, NEW stores \in Seq(Seq(Entry)), version = "V1" => Len(stores) = 1
  PROVE  /\ save(version, stores) = writeLine(<<version>>) \o BodyOf(version, stores)
         /\ <<version>> \in Seq(Byte) /\ Len(<<version>>) = 1 /\ \A i \in 1 .. Len(<<version>>) : <<version>>[i] # "LF"
         /\ BodyOf(version, stores) \in Seq(Byte) /\ save(version, stores) \in Seq(Byte)
  <1> DEFINE j == Joined(StoreTexts(stores))
             c == writeLine(Decimal(Len(stores)))
             m == writeLine(<<version>>)
  <1>1. version \in Byte /\ "V1" # "V2" /\ version # "LF"
    BY SymbolsAssumption
  <1>2. <<version>> \in Seq(Byte) /\ Len(<<version>>) = 1 /\ \A i \in 1 .. Len(<<version>>) : <<version>>[i] # "LF"
    BY <1>1
  <1>3. m \in Seq(Byte)
    BY Zenon, <1>2, LineText
  <1>4. StoreTexts(stores) \in Seq(Seq(Byte)) /\ Len(StoreTexts(stores)) = Len(stores) /\ Len(stores) \in Nat
    BY Zenon, StoresText
  <1>5. j \in Seq(Byte)
    BY Zenon, <1>4, JoinedType
  <1>6. Len(stores) \in Int
    BY <1>4
  <1>7. c \in Seq(Byte)
    BY Zenon, <1>6, DecimalText, LineText
  <1>8. CASE version = "V1"
    <2>1. Len(StoreTexts(stores)) = 1
      BY Zenon, <1>4, <1>8
    <2>2. 1 \in DOMAIN stores
      BY <1>8
    <2>3. StoreTexts(stores)[1] = writeEntries(stores[1])
      BY Zenon, <2>2 DEF StoreTexts
    <2>4. j = writeEntries(stores[1])
      BY Zenon, <1>4, <2>1, <2>3, JoinedOne
    <2>5. BodyOf(version, stores) = j
      BY Zenon, <1>8 DEF BodyOf
    <2>6. save(version, stores) = m \o j
      BY Zenon, <1>8, <2>4 DEF save
    <2> QED
      BY Zenon, <1>2, <1>3, <1>5, <2>5, <2>6, BothTogether
  <1>9. CASE version = "V2"
    <2>1. BodyOf(version, stores) = c \o j
      BY Zenon, <1>1, <1>9 DEF BodyOf
    <2>2. save(version, stores) = (m \o c) \o j
      BY Zenon, <1>1, <1>9 DEF save, StoreTexts
    <2>3. (m \o c) \o j = m \o (c \o j)
      BY Zenon, <1>3, <1>5, <1>7, BytesAssociative
    <2>4. c \o j \in Seq(Byte)
      BY Zenon, <1>5, <1>7, BothTogether
    <2>5. m \o (c \o j) \in Seq(Byte)
      BY Zenon, <1>3, <2>4, BothTogether
    <2> QED
      BY Zenon, <1>2, <2>1, <2>2, <2>3, <2>4, <2>5
  <1> QED
    BY Zenon, <1>8, <1>9

\* What load makes of the magic line.
LEMMA LoadIs ==
  ASSUME NEW f, NEW d, NEW version \in {"V1", "V2"}
  PROVE  /\ readLine(f, 1).value = <<version>> =>
              load(f, d) = Distributed(StoresRead(f, version, readLine(f, 1).next), d)
         /\ readLine(f, 1).value = <<>> => load(f, d) = Failed
  <1>1. "V1" # "V2" /\ <<"V1">> # <<"V2">> /\ <<>> # <<"V1">> /\ <<>> # <<"V2">>
    OBVIOUS
  <1>2. ASSUME readLine(f, 1).value = <<"V1">>
        PROVE  load(f, d) = Distributed(StoresRead(f, "V1", readLine(f, 1).next), d)
    BY Zenon, <1>1, <1>2 DEF load, StoresRead, CountOf, StoreReader
  <1>3. ASSUME readLine(f, 1).value = <<"V2">>
        PROVE  load(f, d) = Distributed(StoresRead(f, "V2", readLine(f, 1).next), d)
    BY Zenon, <1>1, <1>3 DEF load, StoresRead, CountOf, StoreReader
  <1>4. ASSUME readLine(f, 1).value = <<>>
        PROVE  load(f, d) = Failed
    BY Zenon, <1>1, <1>4 DEF load
  <1> QED
    BY Zenon, <1>2, <1>3, <1>4

\* The databases behind the magic line are read as they were written.
LEMMA StoresDelivered ==
  ASSUME NEW f \in Seq(Byte), NEW a \in Nat, NEW version \in {"V1", "V2"}, NEW stores \in Seq(Seq(Entry)),
         version = "V1" => Len(stores) = 1, Follows(f, a, BodyOf(version, stores))
  PROVE  Delivers(f, StoresRead(f, version, a), a, BodyOf(version, stores), stores)
  <1> DEFINE n == Len(stores)
             ws == StoreTexts(stores)
             reader == StoreReader(f)
             number == readNumber(f, a)
  <1>0. "V1" # "V2"
    OBVIOUS
  <1>1. n \in Nat /\ ws \in Seq(Seq(Byte)) /\ Len(ws) = n
    BY Zenon, StoresText
  <1>2. Fetches(f, reader, ws, stores) /\ ~reader[Len(f) + 1].ok
    BY Zenon, StoresFetched
  <1>3. FrontOf(stores, n) = stores
    BY Zenon, FrontAll
  <1>4. CASE version = "V1"
    <2>1. BodyOf(version, stores) = Joined(ws) /\ StoresRead(f, version, a) = Repeat(reader, Read(Len(ws), a))
      BY Zenon, <1>1, <1>4 DEF BodyOf, StoresRead, CountOf
    <2>2. Follows(f, a, Joined(ws))
      BY Zenon, <2>1
    <2>3. Delivers(f, Repeat(reader, Read(Len(ws), a)), a, Joined(ws), FrontOf(stores, Len(ws)))
      BY Zenon, <1>1, <1>2, <2>2, RepeatDelivers
    <2> QED
      BY Zenon, <1>1, <1>3, <2>1, <2>3
  <1>5. CASE version = "V2"
    <2> DEFINE w == writeLine(Decimal(n)) \o Joined(ws)
    <2>1. BodyOf(version, stores) = w /\ StoresRead(f, version, a) = Repeat(reader, number)
      BY Zenon, <1>0, <1>5 DEF BodyOf, StoresRead, CountOf
    <2>2. Times(number, number, 1)
      BY Zenon DEF Times
    <2>3. 1 \in Nat \ {0} /\ n = n * 1
      BY <1>1
    <2>4. Len(ws) = n * 1 /\ Follows(f, a, w)
      BY Zenon, <1>1, <2>1, <2>3
    <2>5. Delivers(f, Repeat(reader, number), a, w, FrontOf(stores, Len(ws)))
      BY Zenon, <1>1, <1>2, <2>2, <2>3, <2>4, CountedDelivers
    <2> QED
      BY Zenon, <1>1, <1>3, <2>1, <2>5
  <1> QED
    BY Zenon, <1>4, <1>5

\* Behind a file's end there are no databases.
LEMMA StoresAtEnd ==
  ASSUME NEW f \in Seq(Byte), NEW version \in {"V1", "V2"}
  PROVE  ~StoresRead(f, version, Len(f) + 1).ok
  <1>0. "V1" # "V2" /\ 1 \in Nat /\ 1 # 0
    OBVIOUS
  <1>1. <<>> \in Seq(Seq(Entry))
    OBVIOUS
  <1>2. ~StoreReader(f)[Len(f) + 1].ok
    BY Zenon, <1>1, StoresFetched
  <1>3. CASE version = "V1"
    <2>1. StoresRead(f, version, Len(f) + 1) = Repeat(StoreReader(f), Read(1, Len(f) + 1))
      BY Zenon, <1>3 DEF StoresRead, CountOf
    <2> QED
      BY Zenon, <1>0, <1>2, <2>1, RepeatFails
  <1>4. CASE version = "V2"
    <2>1. StoresRead(f, version, Len(f) + 1) = Repeat(StoreReader(f), readNumber(f, Len(f) + 1))
      BY Zenon, <1>0, <1>4 DEF StoresRead, CountOf
    <2>2. Times(readNumber(f, Len(f) + 1), readNumber(f, Len(f) + 1), 1)
      BY Zenon DEF Times
    <2> QED
      BY Zenon, <2>1, <2>2, CountedAtEnd
  <1> QED
    BY Zenon, <1>3, <1>4

\* What load makes of the databases it read.
Loads(f, d, w, stores, loaded) ==
  \E s : Delivers(f, s, 1, w, stores) /\ loaded = Distributed(s, d)

\* load makes of a file, or of a front of it, what it read of the databases.
LEMMA LoadDelivers ==
  ASSUME NEW version \in {"V1", "V2"}, NEW stores \in Seq(Seq(Entry)), version = "V1" => Len(stores) = 1,
         NEW f \in Seq(Byte), Follows(f, 1, save(version, stores)), NEW d
  PROVE  Loads(f, d, save(version, stores), stores, load(f, d))
  <1> DEFINE L == Len(f)
             v == <<version>>
             m == writeLine(v)
             b == BodyOf(version, stores)
             w == save(version, stores)
             s(next) == StoresRead(f, version, next)
  <1>1. w = m \o b /\ v \in Seq(Byte) /\ Len(v) = 1 /\ (\A i \in 1 .. Len(v) : v[i] # "LF")
        /\ b \in Seq(Byte) /\ w \in Seq(Byte)
    BY Zenon, SaveText
  <1>2. m \in Seq(Byte) /\ Len(m) = Len(v) + 1
    BY Zenon, <1>1, LineText
  <1>3. Len(w) = Len(m) + Len(b) /\ Len(b) \in Nat
    BY Zenon, <1>1, <1>2, BothTogether
  <1>4. L \in Nat /\ 1 \in Nat
    OBVIOUS
  <1>5. Follows(f, 1, m) /\ (1 + Len(m) <= L + 1 => Follows(f, 1 + Len(m), b))
    BY Zenon, <1>1, <1>2, <1>4, FollowsParts
  <1>6. /\ 1 + Len(v) <= L => readLine(f, 1) = Read(v, 1 + Len(v) + 1)
        /\ 1 = L + 1 => readLine(f, 1) = Failed
        /\ 1 <= L /\ L < 1 + Len(v) => readLine(f, 1) = Read(SubSeq(v, 1, L - 1 + 1), L + 1)
    BY Zenon, <1>1, <1>4, <1>5, LineDelivered
  <1> HIDE DEF L, v, m, b, w, s
  <1>7. SubSeq(v, 1, 1) = v
    BY <1>1
  <1>8. CASE 2 <= L
    <2>1. 1 + Len(v) <= L /\ 1 + Len(v) + 1 = 3 /\ 1 + Len(m) = 3 /\ 1 + Len(m) <= L + 1 /\ 3 \in Nat
      BY <1>1, <1>2, <1>4, <1>8
    <2>2. readLine(f, 1) = Read(v, 3)
      BY Zenon, <1>6, <2>1
    <2>3. load(f, d) = Distributed(s(3), d)
      <3>0. Read(v, 3).value = v /\ Read(v, 3).next = 3
        BY Zenon, ReadFields
      <3>1. readLine(f, 1).value = v /\ readLine(f, 1).next = 3
        BY Zenon, <2>2, <3>0
      <3>2. load(f, d) = Distributed(s(readLine(f, 1).next), d)
        BY Zenon, <3>1, LoadIs DEF s, v
      <3> QED
        BY Zenon, <3>1, <3>2
    <2>4. Follows(f, 3, b)
      BY Zenon, <1>5, <2>1
    <2>5. Delivers(f, s(3), 3, b, stores)
      BY Zenon, <2>1, <2>4, StoresDelivered DEF s, b
    <2>6. Makes(s(3), stores, s(3), stores)
      BY Zenon DEF Makes
    <2>7. Delivers(f, s(3), 1 + Len(m), b, stores)
      BY Zenon, <2>1, <2>5
    <2>8. Delivers(f, s(3), 1, m \o b, stores)
      BY Zenon, <1>1, <1>2, <1>4, <2>6, <2>7, BehindDelivers
    <2> QED
      BY Zenon, <1>1, <2>3, <2>8 DEF Loads, w
  <1>9. CASE L = 1
    <2>1. 1 <= L /\ L < 1 + Len(v) /\ L - 1 + 1 = 1 /\ ~(1 + Len(w) <= L + 1)
      BY <1>1, <1>2, <1>3, <1>9
    <2>2. readLine(f, 1) = Read(v, L + 1)
      BY Zenon, <1>6, <1>7, <2>1
    <2>3. load(f, d) = Distributed(s(L + 1), d)
      <3>0. Read(v, L + 1).value = v /\ Read(v, L + 1).next = L + 1
        BY Zenon, ReadFields
      <3>1. readLine(f, 1).value = v /\ readLine(f, 1).next = L + 1
        BY Zenon, <2>2, <3>0
      <3>2. load(f, d) = Distributed(s(readLine(f, 1).next), d)
        BY Zenon, <3>1, LoadIs DEF s, v
      <3> QED
        BY Zenon, <3>1, <3>2
    <2>4. ~s(L + 1).ok
      BY Zenon, StoresAtEnd DEF s, L
    <2>5. Delivers(f, s(L + 1), 1, w, stores)
      BY Zenon, <2>1, <2>4, DeliversTorn DEF L
    <2> QED
      BY Zenon, <2>3, <2>5 DEF Loads, w
  <1>10. CASE L = 0
    <2>1. 1 = L + 1 /\ ~(1 + Len(w) <= L + 1)
      BY <1>1, <1>2, <1>3, <1>10
    <2>2. Failed.value = <<>> /\ ~Failed.ok
      BY Zenon DEF Failed
    <2>3. load(f, d) = Failed
      BY Zenon, <1>6, <2>1, <2>2, LoadIs
    <2>4. Failed = Distributed(Failed, d)
      BY Zenon, <2>2 DEF Distributed
    <2>5. Delivers(f, Failed, 1, w, stores)
      BY Zenon, <2>1, <2>2, DeliversTorn DEF L
    <2> QED
      BY Zenon, <2>3, <2>4, <2>5 DEF Loads, w
  <1> QED
    BY <1>4, <1>8, <1>9, <1>10

\* Some image, and as much of its file as there is.
SnapshotInv ==
  /\ image \in Images
  /\ File \in Seq(Byte)
  /\ onDisk \in 0 .. Len(File)

\* In such a state what is on disk is loaded right.
LEMMA FrontLoaded ==
  ASSUME SnapshotInv
  PROVE  SnapshotReadBack
  <1> DEFINE stores == image.stores
             d == image.databases
             f == SubSeq(File, 1, onDisk)
             w == File
             loaded == load(f, d)
  <1>1. image.version \in {"V1", "V2"} /\ stores \in Seq(Seq(Entry)) /\ (image.version = "V1" => Len(stores) = 1)
    BY Zenon, ImagesAssumption DEF SnapshotInv
  <1>2. f \in Seq(Byte) /\ Len(f) = onDisk /\ Follows(f, 1, w)
    BY Zenon, FollowsFront DEF SnapshotInv
  <1>3. Loads(f, d, w, stores, loaded)
    BY Zenon, <1>1, <1>2, LoadDelivers DEF File
  <1>4. PICK s : Delivers(f, s, 1, w, stores) /\ loaded = Distributed(s, d)
    BY Zenon, <1>3 DEF Loads
  <1>5. ASSUME NEW next, s = Read(stores, next)
        PROVE  loaded = Read(Saved, next)
    <2>1. s.ok /\ s.value = stores /\ s.next = next
      BY Zenon, <1>5, ReadFields
    <2> HIDE DEF loaded
    <2> QED
      BY Zenon, <1>4, <2>1 DEF Distributed, Saved
  <1>6. loaded.ok => s.ok
    <2>1. Failed.ok = FALSE
      BY Zenon DEF Failed
    <2>2. ~s.ok => Distributed(s, d) = Failed
      BY Zenon DEF Distributed
    <2> HIDE DEF loaded
    <2> QED
      BY Zenon, <1>4, <2>1, <2>2
  <1>7. onDisk \in Nat /\ Len(w) \in Nat /\ onDisk <= Len(w)
    BY DEF SnapshotInv
  <1> HIDE DEF f, d, stores, loaded, w
  <1>8. CASE 1 + Len(w) <= Len(f) + 1
    <2>1. s = Read(stores, 1 + Len(w))
      BY Zenon, <1>4, <1>8 DEF Delivers
    <2>2. loaded = Read(Saved, 1 + Len(w))
      BY Zenon, <1>5, <2>1
    <2>4. loaded.ok /\ loaded.value = Saved
      BY Zenon, <2>2, ReadFields
    <2>3. onDisk >= Len(w) - 1
      BY <1>2, <1>7, <1>8
    <2> QED
      BY Zenon, <2>3, <2>4 DEF SnapshotReadBack, LoadedRight, f, d, w, loaded
  <1>9. CASE ~(1 + Len(w) <= Len(f) + 1)
    <2>1. onDisk # Len(w)
      BY <1>2, <1>7, <1>9
    <2>2. ASSUME loaded.ok
          PROVE  loaded.value = Saved /\ onDisk >= Len(w) - 1
      <3>1. NearlyGets(f, s, 1, w, stores)
        BY Zenon, <1>4, <1>6, <1>9, <2>2 DEF Delivers
      <3>2. s = Read(stores, Len(f) + 1) /\ 1 + Len(w) = Len(f) + 2
        BY Zenon, <3>1 DEF NearlyGets
      <3>3. onDisk >= Len(w) - 1
        BY <1>2, <1>7, <3>2
      <3>4. loaded = Read(Saved, Len(f) + 1)
        BY Zenon, <1>5, <3>2
      <3>5. loaded.value = Saved
        BY Zenon, <3>4, ReadFields
      <3> QED
        BY Zenon, <3>3, <3>5
    <2> QED
      BY Zenon, <2>1, <2>2 DEF SnapshotReadBack, LoadedRight, f, d, w, loaded
  <1> QED
    BY Zenon, <1>8, <1>9

\* Any image that SnapshotPersistence::save can write, with however many databases
\* and entries and whatever bytes in them, is loaded by load from its whole file as it
\* was saved, by a process with any number of databases, and from no front of the file
\* but the one that lacks only the end of the last line.
THEOREM SnapshotTheorem == SnapshotSpec => []SnapshotReadBack
  <1>1. SnapshotInit => SnapshotInv
    <2> SUFFICES ASSUME SnapshotInit
                 PROVE  SnapshotInv
      OBVIOUS
    <2>1. image \in Images /\ onDisk = 0
      BY Zenon DEF SnapshotInit
    <2>2. image.version \in {"V1", "V2"} /\ image.stores \in Seq(Seq(Entry))
          /\ (image.version = "V1" => Len(image.stores) = 1)
      BY Zenon, <2>1, ImagesAssumption
    <2>3. File \in Seq(Byte)
      BY Zenon, <2>2, SaveText DEF File
    <2>4. 0 \in 0 .. Len(File)
      BY <2>3
    <2> QED
      BY Zenon, <2>1, <2>3, <2>4 DEF SnapshotInv
  <1>2. SnapshotInv /\ [WriteByte]_snapshotVars => SnapshotInv'
    <2> SUFFICES ASSUME SnapshotInv, [WriteByte]_snapshotVars
                 PROVE  SnapshotInv'
      OBVIOUS
    <2>1. CASE WriteByte
      <3>1. image' = image /\ onDisk' = onDisk + 1 /\ onDisk < Len(File)
        BY Zenon, <2>1 DEF WriteByte
      <3>2. File' = File
        BY Zenon, <3>1 DEF File
      <3>3. onDisk + 1 \in 0 .. Len(File)
        BY <3>1 DEF SnapshotInv
      <3> QED
        BY Zenon, <3>1, <3>2, <3>3 DEF SnapshotInv
    <2>2. CASE UNCHANGED snapshotVars
      <3>1. image' = image /\ onDisk' = onDisk
        BY Zenon, <2>2 DEF snapshotVars
      <3>2. File' = File
        BY Zenon, <3>1 DEF File
      <3> QED
        BY Zenon, <3>1, <3>2 DEF SnapshotInv
    <2> QED
      BY Zenon, <2>1, <2>2
  <1>3. SnapshotInv => SnapshotReadBack
    BY Zenon, FrontLoaded
  <1> QED
    BY <1>1, <1>2, <1>3, PTL DEF SnapshotSpec

=============================================================================
