---------------------------- MODULE ByteStrings -----------------------------
(***************************************************************************)
(* Sequences of bytes, as the parser and the file formats see them.  A     *)
(* byte is a symbol: "CR" and "LF" end a line, "*" and "$" introduce a     *)
(* frame and an argument.                                                  *)
(***************************************************************************)
EXTENDS Integers, Sequences, Functions, FiniteSetsExt

CONSTANT Byte  \* the symbols

Digits == <<"0", "1", "2", "3", "4", "5", "6", "7", "8", "9">>
Space == {" ", "CR", "LF"}

ASSUME ByteAssumption == Range(Digits) \cup {"CR", "LF", "*", "$"} \subseteq Byte

\* The first position from at on where what stands, 0 if there is none.
Find(buffer, what, at) ==
  LET places == {i \in at .. Len(buffer) - Len(what) + 1 :
                   SubSeq(buffer, i, i + Len(what) - 1) = what}
  IN IF places = {} THEN 0 ELSE Min(places)

DigitValue(digit) == CHOOSE i \in 0 .. 9 : Digits[i + 1] = digit

\* The first and the last place of a byte that is not in the set, 0 if there is none.
FirstNotIn(bytes, set) ==
  LET places == {i \in DOMAIN bytes : bytes[i] \notin set}
  IN IF places = {} THEN 0 ELSE Min(places)

LastNotIn(bytes, set) ==
  LET places == {i \in DOMAIN bytes : bytes[i] \notin set}
  IN IF places = {} THEN 0 ELSE Max(places)

\* The parts one behind the other.
Joined(parts) ==
  LET upTo[n \in 1 .. Len(parts)] == IF n = 1 THEN parts[1] ELSE upTo[n - 1] \o parts[n]
  IN IF parts = <<>> THEN <<>> ELSE upTo[Len(parts)]

Number(digits) ==
  LET upTo[n \in 0 .. Len(digits)] == IF n = 0 THEN 0 ELSE 10 * upTo[n - 1] + DigitValue(digits[n])
  IN upTo[Len(digits)]

\* The digits of n: what is left of it after so many divisions by 10, modulo 10.
Unsigned(n) ==
  LET left[m \in Nat] == IF m = 0 THEN n ELSE left[m - 1] \div 10
      size == Min({m \in 1 .. n + 1 : left[m] = 0})
  IN [i \in 1 .. size |-> Digits[(left[size - i] % 10) + 1]]

\* std::to_string.
Decimal(n) == IF n < 0 THEN <<"-">> \o Unsigned(-n) ELSE Unsigned(n)

=============================================================================
