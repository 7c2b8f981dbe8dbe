------------------------------- MODULE Parser -------------------------------
(***************************************************************************)
(* parser/CommandParser.cpp: how the bytes of a connection, or of the      *)
(* append-only file, become commands; and encodeRespCommand, which writes  *)
(* the file.                                                               *)
(*                                                                         *)
(* Numbers have no greatest value: a count for which vector::reserve       *)
(* throws, which nothing catches, is here a frame that waits for its rest. *)
(***************************************************************************)
EXTENDS ByteStrings

CONSTANTS
  Sources,   \* what a peer may send, or the file hold
  Accepted   \* <<name, n>>: a command of n tokens that is not refused

VARIABLES
  source,    \* where the bytes come from
  received,  \* how many of them recv has returned
  pending,   \* the bytes kept for the next recv
  commands   \* the commands handed to the dispatcher

vars == <<source, received, pending, commands>>

EndOfLine == <<"CR", "LF">>

-----------------------------------------------------------------------------
\* A number on a line of its own; -1 when the line is not one.

ASSUME NulAssumption == "NUL" \in Byte

\* c_str ends at the first NUL.
CString(line) ==
  LET nul == Find(line, <<"NUL">>, 1)
  IN IF nul = 0 THEN line ELSE SubSeq(line, 1, nul - 1)

\* strtoll skips white space in front ...
AfterSpace(line) ==
  LET first == FirstNotIn(line, Space)
  IN IF first = 0 THEN <<>> ELSE SubSeq(line, first, Len(line))

Signed(text) == text # <<>> /\ text[1] \in {"+", "-"}

\* ... takes a sign, and must reach the end.
WholeNumber(text) ==
  LET digits == IF Signed(text) THEN Tail(text) ELSE text
  IN IF digits = <<>> \/ ~(Range(digits) \subseteq Range(Digits)) THEN -1
     ELSE IF text[1] = "-" THEN -Number(digits) ELSE Number(digits)

\* The line from at to its end; end is 0 when the buffer does not have it yet.
LineTo(end, buffer, at) ==
  [found |-> end # 0, value |-> WholeNumber(AfterSpace(CString(SubSeq(buffer, at, end - 1)))),
   next |-> end + 2]

parseIntegerLine(buffer, at) == LineTo(Find(buffer, EndOfLine, at), buffer, at)

-----------------------------------------------------------------------------
\* parseRespFrame: whether a frame ends in the buffer, how many bytes it takes
\* and its tokens.

Incomplete == [state |-> "incomplete", consumed |-> 0, tokens |-> <<>>]

Reading(consumed, parsed) == [state |-> "reading", consumed |-> consumed, tokens |-> parsed]

Frame(consumed, tokens) == [state |-> "complete", consumed |-> consumed, tokens |-> tokens]

\* Slip: what was parsed of a malformed frame is kept.
MalformedKept(consumed, parsed) == Frame(consumed, parsed)

\* A malformed frame is consumed up to the fault and has no tokens.
Malformed(consumed, parsed) == Frame(consumed, <<>>)

\* An argument whose length is on the line.
ArgumentAfter(line, buffer, parsed) ==
  LET end == line.next + line.value
  IN IF ~line.found THEN Incomplete
     ELSE IF line.value < 0 THEN Reading(line.next - 1, Append(parsed, <<>>))
     ELSE IF Len(buffer) < end + 1 THEN Incomplete
     ELSE IF SubSeq(buffer, end, end + 1) # EndOfLine THEN Malformed(end - 1, parsed)
     ELSE Reading(end + 1, Append(parsed, SubSeq(buffer, line.next, end - 1)))

\* One round of the loop over the arguments.
Argument(buffer, r) ==
  LET at == r.consumed + 1
  IN IF r.state # "reading" THEN r
     ELSE IF at > Len(buffer) THEN Incomplete
     ELSE IF buffer[at] # "$" THEN Malformed(at, r.tokens)
     ELSE ArgumentAfter(parseIntegerLine(buffer, at + 1), buffer, r.tokens)

\* The loop, from behind the first bytes.
Arguments(buffer, first, count) ==
  LET after[n \in Nat] == IF n = 0 THEN Reading(first, <<>>) ELSE Argument(buffer, after[n - 1])
      last == after[count]
  IN IF last.state = "reading" THEN Frame(last.consumed, last.tokens) ELSE last

\* A frame whose number of arguments is on the line.
FrameAfter(line, buffer) ==
  IF ~line.found THEN Incomplete
  ELSE IF line.value < 0 THEN Malformed(line.next - 1, <<>>)
  ELSE Arguments(buffer, line.next - 1, line.value)

parseRespFrame(buffer) == FrameAfter(parseIntegerLine(buffer, 2), buffer)

-----------------------------------------------------------------------------
\* parseAvailable: the commands that end in the buffer, and the bytes kept.

\* One more byte of a line: white space ends a word.
AddByte(r, byte) ==
  IF byte \in Space THEN [r EXCEPT !.inWord = FALSE]
  ELSE [inWord |-> TRUE,
        words |-> IF r.inWord THEN [r.words EXCEPT ![Len(r.words)] = Append(@, byte)]
                              ELSE Append(r.words, <<byte>>)]

\* The words of a line.
parse(line) ==
  LET upTo[n \in 0 .. Len(line)] == IF n = 0 THEN [inWord |-> FALSE, words |-> <<>>]
                                             ELSE AddByte(upTo[n - 1], line[n])
  IN upTo[Len(line)].words

\* A line without the CRs and LFs at its end.
Stripped(line) == SubSeq(line, 1, LastNotIn(line, {"CR", "LF"}))

\* The first command in the buffer: how many bytes it takes and what is handed
\* on, nothing for an empty line.
NoCommand == [consumed |-> 0, out |-> <<>>]

RespCommand(frame) ==
  IF frame.state = "incomplete" THEN NoCommand
  ELSE [consumed |-> frame.consumed, out |-> <<[tokens |-> frame.tokens, protocol |-> "Resp"]>>]

InlineCommand(line, consumed) ==
  [consumed |-> consumed,
   out |-> IF line = <<>> THEN <<>> ELSE <<[tokens |-> parse(line), protocol |-> "Inline"]>>]

\* Slip: a line that has not ended yet is dropped.
FirstCommandDropping(buffer) ==
  LET newline == Find(buffer, <<"LF">>, 1)
  IN IF buffer[1] = "*" THEN RespCommand(parseRespFrame(buffer))
     ELSE IF newline = 0 THEN InlineCommand(<<>>, Len(buffer))
     ELSE InlineCommand(Stripped(SubSeq(buffer, 1, newline)), newline)

FirstCommand(buffer) ==
  LET newline == Find(buffer, <<"LF">>, 1)
  IN IF buffer[1] = "*" THEN RespCommand(parseRespFrame(buffer))
     ELSE IF newline = 0 THEN NoCommand
     ELSE InlineCommand(Stripped(SubSeq(buffer, 1, newline)), newline)

\* The first command and those behind it; the loop ends where there is none.
parseAvailable[buffer \in Seq(Byte)] ==
  LET first == FirstCommand(buffer)
      rest == parseAvailable[SubSeq(buffer, first.consumed + 1, Len(buffer))]
  IN IF buffer = <<>> \/ first.consumed = 0 THEN [commands |-> <<>>, pending |-> buffer]
     ELSE [commands |-> first.out \o rest.commands, pending |-> rest.pending]

-----------------------------------------------------------------------------
\* encodeRespCommand.

\* Slip: the command is written as a line.
encodeAsLine(tokens) == Joined([i \in DOMAIN tokens |-> tokens[i] \o <<" ">>]) \o <<"LF">>

encodeRespCommand(tokens) ==
  <<"*">> \o Decimal(Len(tokens)) \o EndOfLine
    \o Joined([i \in DOMAIN tokens |->
                     <<"$">> \o Decimal(Len(tokens[i])) \o EndOfLine \o tokens[i] \o EndOfLine])

-----------------------------------------------------------------------------
\* Bytes arrive in pieces.

\* A source is a command cut after some bytes, as a crash in the middle of an
\* append leaves it, then whole commands, then bytes of any kind.  chunk bounds
\* the bytes one recv returns, unless it returns all; a file is read at once.
Bytes(s) ==
  SubSeq(encodeRespCommand(s.torn), 1, s.cut)
    \o Joined([i \in DOMAIN s.whole |-> encodeRespCommand(s.whole[i])])
    \o s.raw

ASSUME SourcesAssumption ==
  \A s \in Sources :
    /\ s.torn \in Seq(Seq(Byte)) /\ s.cut \in 0 .. Len(encodeRespCommand(s.torn))
    /\ s.whole \in Seq(Seq(Seq(Byte))) /\ s.raw \in Seq(Byte)

Init ==
  /\ source \in Sources
  /\ received = 0
  /\ pending = <<>>
  /\ commands = <<>>

\* How many bytes recv may return.
Sizes ==
  LET left == Len(Bytes(source)) - received
  IN {n \in 1 .. left : n <= source.chunk \/ n = left}

\* recv in handleClient; replay reads the file in one piece.
Receive(n) ==
  LET parsed == parseAvailable[pending \o SubSeq(Bytes(source), received + 1, received + n)]
  IN /\ received' = received + n
     /\ pending' = parsed.pending
     /\ commands' = commands \o parsed.commands
     /\ UNCHANGED source

Next == \E n \in Sizes : Receive(n)

Spec == Init /\ [][Next]_vars

-----------------------------------------------------------------------------
\* Properties.

Tokens == [i \in DOMAIN commands |-> commands[i].tokens]

\* How TCP cuts the stream does not matter: what has been handed on and what is
\* kept are what one parse of all the bytes received would give.
ChunkingInvisible ==
  [commands |-> commands, pending |-> pending] = parseAvailable[SubSeq(Bytes(source), 1, received)]

\* Commands written by encodeRespCommand are read back as they were, whatever
\* bytes their arguments hold, each when its last byte arrives: a log that ends
\* in the middle of a command gives exactly the commands before it.
LogReadBack ==
  source.cut = 0 /\ source.raw = <<>> =>
    LET end(n) == Len(Joined([i \in 1 .. n |-> encodeRespCommand(source.whole[i])]))
        complete == {n \in 0 .. Len(source.whole) : end(n) <= received}
    IN /\ Tokens = SubSeq(source.whole, 1, Max(complete))
       /\ pending = SubSeq(Bytes(source), end(Max(complete)) + 1, received)

\* The commands that replay does not skip.
Effective == SelectSeq(Tokens, LAMBDA tokens : tokens # <<>> /\ <<tokens[1], Len(tokens)>> \in Accepted)

\* A command cut short by a crash, with whole ones appended behind it by the
\* next process, costs the first n of these and no others.  It may itself take
\* effect, completed by bytes of theirs into a command of the same name and
\* length, and the last of the n may survive if it is a single word.
TornFrameContained ==
  source.cut # 0 /\ received = Len(Bytes(source)) =>
    \E n \in 0 .. Len(source.whole) :
      \E completed \in {<<>>} \cup {<<tokens>> : tokens \in Range(Tokens)},
         word \in {<<>>} \cup {<<source.whole[m]>> : m \in {n} \ {0}} :
        /\ \A tokens \in Range(completed) :
             n # 0 /\ tokens # <<>> /\ tokens[1] = source.torn[1] /\ Len(tokens) = Len(source.torn)
        /\ \A tokens \in Range(word) : Len(tokens) = 1
        /\ Effective = completed \o word \o SubSeq(source.whole, n + 1, Len(source.whole))

=============================================================================
