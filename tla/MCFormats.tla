----------------------------- MODULE MCFormats ------------------------------
(***************************************************************************)
(* Sources for the parser: short streams of any bytes, logs whose          *)
(* arguments hold the bytes of the protocol, and logs with a torn command; *)
(* snapshot files; keys and patterns.  A behaviour is about one of them.   *)
(***************************************************************************)
EXTENDS Parser, SnapshotFormat, KeyPattern

Symbols == STRING

Stream(raw) == [torn |-> <<>>, cut |-> 0, whole |-> <<>>, raw |-> raw, chunk |-> 2]

Log(whole) == [torn |-> <<>>, cut |-> 0, whole |-> whole, raw |-> <<>>, chunk |-> 2]

TornLog(torn, cut, whole) ==
  [torn |-> torn, cut |-> cut, whole |-> whole, raw |-> <<>>, chunk |-> 0]

Over(bytes, n) == UNION {[1 .. m -> bytes] : m \in 0 .. n}

UpTo(n) == Over({"*", "$", "1", "CR", "LF", "a"}, n)

\* Streams of any bytes, alone and where a frame expects its second argument.
AnyBytes == {Stream(raw) : raw \in UpTo(5)}

AnyArgument ==
  {Stream(<<"*", "2", "CR", "LF", "$", "1", "CR", "LF", "a", "CR", "LF">> \o raw) :
     raw \in UpTo(4)}

\* Numbers as strtoll takes them.
AnyNumber ==
  {Stream(<<"*">> \o raw \o <<"CR", "LF", "$", "1", "CR", "LF", "a", "CR", "LF">>) :
     raw \in Over({"+", "-", "1", "NUL", " "}, 3)}

\* FLUSHDB, a SET and a DEL, with one letter for every word.
F == <<<<"F">>>>
S(v) == <<<<"S">>, <<"k">>, v>>
D == <<<<"D">>, <<"k">>, <<"j">>>>

Known == {<<<<"F">>, 1>>, <<<<"S">>, 3>>} \cup {<<<<"D">>, n>> : n \in 2 .. 4}

Hard == {<<>>, <<"a">>, <<"CR", "LF">>, <<"*", "1", "CR", "LF">>, <<"$", "1", " ", "LF">>}

Logs == {Log(<<S(v), F, S(w)>>) : v, w \in Hard}

\* Every place where a command can be cut, in front of every two or three whole ones.
Plain == {F, S(<<"a">>), D}

Long == [i \in 1 .. 7 |-> "a"]

Torn ==
  UNION {{TornLog(c, cut, whole) : cut \in 1 .. Len(encodeRespCommand(c)) - 1,
                                   whole \in (Plain \X Plain) \cup (Plain \X Plain \X Plain)} :
           c \in Plain \cup {S(Long)}}

AllSources == AnyBytes \cup AnyArgument \cup AnyNumber \cup Logs \cup Torn

-----------------------------------------------------------------------------

EntryOf(key, type, parts, expiresAt) ==
  [key |-> key, type |-> type, createdAt |-> 12, expiresAt |-> expiresAt, parts |-> parts]

\* Keys and values that look like parts of the format, and counts of two digits.
SomeEntries ==
  {EntryOf(key, "s", <<value>>, -1) : key, value \in {<<>>, <<"LF">>, <<"1", "LF">>}} \cup
  {EntryOf(<<"a">>, type, parts, 10) :
     type \in {"l", "e"},
     parts \in {<<<<"0">>>>, <<<<"LF">>, <<>>>>, [i \in 1 .. 11 |-> Decimal(i)]}} \cup
  {EntryOf(<<"a">>, "h", <<<<"1">>, <<"LF", "0">>, <<"2">>, <<>>>>, -1)}

Databases ==
  {<<s>> : s \in {<<>>} \cup {<<e>> : e \in SomeEntries}} \cup
  {<<<<>>, <<e>>>> : e \in SomeEntries} \cup {<<<<e, e>>, <<>>>> : e \in SomeEntries}

Image(version, stores, databases) ==
  [version |-> version, stores |-> stores, databases |-> databases]

NoImage == Image("V2", <<>>, 0)

AllImages ==
  {NoImage} \cup {Image("V2", stores, n) : stores \in Databases, n \in 1 .. 3} \cup
  {Image("V1", <<stores[1]>>, 2) : stores \in Databases}

AllQueries == Over({"a", "b", "*"}, 3) \X Over({"a", "b", "*", "?"}, 4)

-----------------------------------------------------------------------------

NoSource == Stream(<<>>)
NoSnapshot == image = NoImage /\ onDisk = 0
NoQuery == match = [Query(<<>>, <<>>) EXCEPT !.result = "yes"]

FormatsInit ==
  /\ Init
  /\ \/ source # NoSource /\ NoSnapshot /\ NoQuery
     \/ source = NoSource /\ SnapshotInit /\ NoQuery
     \/ source = NoSource /\ NoSnapshot /\ PatternInit

FormatsNext ==
  \/ Next /\ UNCHANGED <<snapshotVars, match>>
  \/ image # NoImage /\ WriteByte /\ UNCHANGED <<vars, match>>
  \/ PatternNext /\ UNCHANGED <<vars, snapshotVars>>

FormatsSpec == FormatsInit /\ [][FormatsNext]_<<vars, snapshotVars, match>>

=============================================================================
