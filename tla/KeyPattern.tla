----------------------------- MODULE KeyPattern -----------------------------
(***************************************************************************)
(* DataStore::matchesPattern, which KEYS and SCAN select keys with: one    *)
(* pass over the key that remembers the last star of the pattern and goes  *)
(* back to it.  Positions count from 1; 0 is npos.                         *)
(***************************************************************************)
EXTENDS Integers, Sequences, Functions

CONSTANT Queries  \* <<value, pattern>>: keys and the patterns they are matched with

ASSUME QueriesAssumption == Queries \subseteq Seq(STRING) \X Seq(STRING)

VARIABLE match    \* value, pattern and the locals of matchesPattern; result: "none" until it returns

Query(value, pattern) ==
  [value |-> value, pattern |-> pattern, valueIndex |-> 1, patternIndex |-> 1,
   starIndex |-> 0, matchIndex |-> 1, result |-> "none"]

PatternInit == \E q \in Queries : match = Query(q[1], q[2])

\* The loop has a byte of the value left to match ...
InValue == match.result = "none" /\ match.valueIndex <= Len(match.value)

InPattern == match.patternIndex <= Len(match.pattern)

\* ... with the byte of the pattern: the same, or one that stands for any.
BytesAgree ==
  InPattern /\ match.pattern[match.patternIndex] \in {"?", match.value[match.valueIndex]}

AtStar == InPattern /\ match.pattern[match.patternIndex] = "*"

MatchByte ==
  /\ InValue /\ BytesAgree
  /\ match' = [match EXCEPT !.valueIndex = @ + 1, !.patternIndex = @ + 1]

MatchStar ==
  /\ InValue /\ ~BytesAgree /\ AtStar
  /\ match' = [match EXCEPT !.starIndex = match.patternIndex, !.patternIndex = @ + 1,
                            !.matchIndex = match.valueIndex]

\* The last star takes one more byte.
Backtrack ==
  /\ InValue /\ ~BytesAgree /\ ~AtStar /\ match.starIndex # 0
  /\ match' = [match EXCEPT !.patternIndex = match.starIndex + 1,
                            !.matchIndex = @ + 1, !.valueIndex = match.matchIndex + 1]

Mismatch ==
  /\ InValue /\ ~BytesAgree /\ ~AtStar /\ match.starIndex = 0
  /\ match' = [match EXCEPT !.result = "no"]

\* Slip: stars at the end of the pattern are not skipped.
EndOfValueExact ==
  /\ match.result = "none" /\ ~InValue
  /\ match' = [match EXCEPT !.result = IF InPattern THEN "no" ELSE "yes"]

\* Only stars may be left of the pattern.
EndOfValue ==
  LET rest == SubSeq(match.pattern, match.patternIndex, Len(match.pattern))
  IN /\ match.result = "none" /\ ~InValue
     /\ match' = [match EXCEPT !.result = IF Range(rest) \subseteq {"*"} THEN "yes" ELSE "no"]

PatternNext == MatchByte \/ MatchStar \/ Backtrack \/ Mismatch \/ EndOfValue

PatternSpec == PatternInit /\ [][PatternNext]_match

-----------------------------------------------------------------------------
\* Properties.

\* Byte i of the pattern stands for the bytes of the value from one place up to
\* another: a star for any bytes, a question mark for one.
Takes(value, pattern, i, from, to) ==
  IF pattern[i] = "*" THEN from <= to
                      ELSE to = from + 1 /\ pattern[i] \in {"?", value[from]}

\* What a pattern means: its bytes can be laid out over the value one behind the
\* other, the first at its beginning and the last up to its end.
Covers(at, value, pattern) ==
  /\ at[1] = 1 /\ at[Len(pattern) + 1] = Len(value) + 1
  /\ \A i \in 1 .. Len(pattern) : Takes(value, pattern, i, at[i], at[i + 1])

Glob(value, pattern) ==
  \E at \in [1 .. Len(pattern) + 1 -> 1 .. Len(value) + 1] : Covers(at, value, pattern)

\* Going back to the last star only is enough: a key that is reported matches,
\* and one that is not does not.  The second half needs a key without a star:
\* one in the key is compared with the one in the pattern before that is
\* recognised as a wildcard, so KEYS * leaves out a key such as "*a".
PatternDecided ==
  /\ match.result = "yes" => Glob(match.value, match.pattern)
  /\ match.result = "no" /\ "*" \notin Range(match.value) => ~Glob(match.value, match.pattern)

=============================================================================
