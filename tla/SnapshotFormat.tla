--------------------------- MODULE SnapshotFormat ---------------------------
(***************************************************************************)
(* core/SnapshotPersistence.cpp: the bytes of a snapshot file, and what    *)
(* load makes of them when the file ends early.                            *)
(*                                                                         *)
(* The magic line and the name of a type are one byte each: "V1" or "V2",  *)
(* "s", "l", "h" or "e".  The parts of an entry are the value of a string, *)
(* the elements of a list, fields and values of a hash in turn, or the     *)
(* members of a set.                                                       *)
(***************************************************************************)
EXTENDS ByteStrings

CONSTANT Images  \* what is saved, in which version of the format, and for which process

VARIABLES
  image,  \* version, the entries of every database, databases of the process that loads it
  onDisk  \* how many bytes of the file have reached the disk: save does not sync it

snapshotVars == <<image, onDisk>>

\* A string has one part, a hash as many values as fields.
Entry ==
  {e \in [key : Seq(Byte), type : {"s", "l", "h", "e"}, createdAt : Int, expiresAt : Int,
          parts : Seq(Seq(Byte))] :
     /\ e.type = "s" => Len(e.parts) = 1
     /\ e.type = "h" => Len(e.parts) % 2 = 0}

ASSUME SymbolsAssumption == {"-", "V1", "V2", "s", "l", "h", "e"} \subseteq Byte

ASSUME ImagesAssumption ==
  \A i \in Images :
    /\ i.version \in {"V1", "V2"} /\ i.databases \in Nat
    /\ i.stores \in Seq(Seq(Entry)) /\ (i.version = "V1" => Len(i.stores) = 1)

-----------------------------------------------------------------------------
\* Writing.

writeLine(value) == value \o <<"LF">>

writeBulk(value) == writeLine(Decimal(Len(value))) \o writeLine(value)

\* Bulks that make up one element.
PartsOf(type) == IF type = "h" THEN 2 ELSE 1

writeEntry(e) ==
  writeBulk(e.key) \o writeBulk(<<e.type>>)
    \o writeLine(Decimal(e.createdAt)) \o writeLine(Decimal(e.expiresAt))
    \o (IF e.type = "s" THEN <<>> ELSE writeLine(Decimal(Len(e.parts) \div PartsOf(e.type))))
    \o Joined([i \in DOMAIN e.parts |-> writeBulk(e.parts[i])])

writeEntries(entries) ==
  writeLine(Decimal(Len(entries))) \o Joined([i \in DOMAIN entries |-> writeEntry(entries[i])])

\* save writes version 2; version 1 is what an earlier release left, with one database.
save(version, stores) ==
  IF version = "V1" THEN writeLine(<<"V1">>) \o writeEntries(stores[1])
  ELSE writeLine(<<"V2">>) \o writeLine(Decimal(Len(stores)))
         \o Joined([i \in DOMAIN stores |-> writeEntries(stores[i])])

-----------------------------------------------------------------------------
\* Reading: whether it succeeded, what was read and where to go on.

Failed == [ok |-> FALSE, value |-> <<>>, next |-> 0]

Read(value, next) == [ok |-> TRUE, value |-> value, next |-> next]

\* getline is content with a last line that has no end.
readLine(file, at) ==
  LET end == Find(file, <<"LF">>, at)
  IN IF at > Len(file) THEN Failed
     ELSE IF end = 0 THEN Read(SubSeq(file, at, Len(file)), Len(file) + 1)
     ELSE Read(SubSeq(file, at, end - 1), end + 1)

\* stoll and stoull take the number in front and ignore what follows it.
LeadingDigits(bytes) ==
  LET after == FirstNotIn(bytes, Range(Digits))
  IN IF after = 0 THEN bytes ELSE SubSeq(bytes, 1, after - 1)

NumberOn(line) ==
  LET negative == line.value # <<>> /\ line.value[1] = "-"
      digits == LeadingDigits(IF negative THEN Tail(line.value) ELSE line.value)
  IN IF ~line.ok \/ digits = <<>> THEN Failed
     ELSE Read(IF negative THEN -Number(digits) ELSE Number(digits), line.next)

readNumber(file, at) == NumberOn(readLine(file, at))

\* Slip: as many bytes as there are.
BulkOfAtMost(file, size) ==
  IF size.ok THEN Read(SubSeq(file, size.next, Min({Len(file), size.next + size.value - 1})),
                       size.next + size.value + 1)
             ELSE Failed

\* So many bytes and the end of the line.
BulkOf(file, size) ==
  LET end == size.next + size.value
  IN IF size.ok /\ end <= Len(file) /\ file[end] = "LF"
     THEN Read(SubSeq(file, size.next, end - 1), end + 1) ELSE Failed

readBulk(file, at) == BulkOf(file, readNumber(file, at))

\* What was read so far, r, and one more item behind it.
Then(r, item) ==
  IF r.ok /\ item.ok THEN Read(Append(r.value, item.value), item.next) ELSE Failed

ThenBulk(file, r) == Then(r, readBulk(file, r.next))

ThenNumber(file, r) == Then(r, readNumber(file, r.next))

\* The reader as often as count says, from where count ends.
ThenFrom(reader, r) == Then(r, reader[r.next])

Repeat(reader, count) ==
  LET after[n \in 0 .. count.value] ==
        IF n = 0 THEN Read(<<>>, count.next) ELSE ThenFrom(reader, after[n - 1])
  IN IF count.ok THEN after[count.value] ELSE Failed

Multiplied(count, n) == IF count.ok THEN Read(count.value * n, count.next) ELSE Failed

Elements(file, type, count) ==
  Repeat([at \in Nat |-> readBulk(file, at)], Multiplied(count, PartsOf(type)))

EntryWith(header, parts) ==
  IF parts.ok
  THEN Read([key |-> header[1], type |-> header[2][1], createdAt |-> header[3],
             expiresAt |-> header[4], parts |-> parts.value], parts.next)
  ELSE Failed

\* An entry of which key, type, createdAt and expiresAt have been read.
EntryAfter(file, header) ==
  LET type == header.value[2]
  IN IF ~header.ok \/ type \notin {<<"s">>, <<"l">>, <<"h">>, <<"e">>} THEN Failed
     ELSE EntryWith(header.value,
                    IF type = <<"s">> THEN Elements(file, "s", Read(1, header.next))
                    ELSE Elements(file, type[1], readNumber(file, header.next)))

readEntry(file, at) ==
  EntryAfter(file, ThenNumber(file, ThenNumber(file,
                     ThenBulk(file, ThenBulk(file, Read(<<>>, at))))))

readEntries(file, at) == Repeat([a \in Nat |-> readEntry(file, a)], readNumber(file, at))

\* The stores of a process with so many databases; those the file does not
\* have are empty, those the process does not have are read and dropped.
Distributed(stores, databases) ==
  IF stores.ok
  THEN Read([d \in 1 .. databases |-> IF d <= Len(stores.value) THEN stores.value[d] ELSE <<>>],
            stores.next)
  ELSE Failed

load(file, databases) ==
  LET magic == readLine(file, 1)
      reader == [at \in Nat |-> readEntries(file, at)]
  IN CASE magic.value = <<"V1">> -> Distributed(Repeat(reader, Read(1, magic.next)), databases)
       [] magic.value = <<"V2">> ->
            Distributed(Repeat(reader, readNumber(file, magic.next)), databases)
       [] OTHER -> Failed

-----------------------------------------------------------------------------

File == save(image.version, image.stores)

SnapshotInit ==
  /\ image \in Images
  /\ onDisk = 0

\* The bytes reach the disk in order; power may fail after any of them.
WriteByte ==
  /\ onDisk < Len(File)
  /\ onDisk' = onDisk + 1
  /\ UNCHANGED image

SnapshotSpec == SnapshotInit /\ [][WriteByte]_snapshotVars

-----------------------------------------------------------------------------
\* Properties.

\* The image in as many databases as the process that loads it has.
Saved == [d \in 1 .. image.databases |->
            IF d <= Len(image.stores) THEN image.stores[d] ELSE <<>>]

LoadedRight(loaded) ==
  /\ onDisk = Len(File) => loaded.ok
  /\ loaded.ok => loaded.value = Saved /\ onDisk >= Len(File) - 1

\* A snapshot file is loaded as it was saved, whatever bytes its keys and values
\* hold and however many databases the process has; a file that ends early is
\* refused, unless all it lacks is the end of its last line.
SnapshotReadBack == LoadedRight(load(SubSeq(File, 1, onDisk), image.databases))

=============================================================================
