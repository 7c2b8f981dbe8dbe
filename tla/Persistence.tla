---------------------------- MODULE Persistence -----------------------------
(***************************************************************************)
(* The append-only file, the snapshot file, checkpoints, crashes and       *)
(* restarts: core/AofPersistence.cpp, core/SnapshotPersistence.cpp,        *)
(* core/SnapshotWorker.cpp, the start-up sequence of main.cpp and the      *)
(* callers in networking/TcpServer.cpp.                                    *)
(*                                                                         *)
(* Client threads execute and append mutating commands, the snapshot       *)
(* worker and SAVE write snapshots.  With the append-only file enabled     *)
(* both hold the mutex of AofPersistence throughout, but not atomically    *)
(* for a crash: phase says how far the holder has come, and "idle" that    *)
(* the mutex is free.  With --no-aof there is no mutex: commands go on     *)
(* while saves write, and two saves write the same temporary file.  A      *)
(* crash loses memory and keeps what was written.  Eviction is off.        *)
(***************************************************************************)
EXTENDS Replay

CONSTANTS
  Setups,       \* the situations a run covers, by name: see Setup
  Saver,        \* threads that save snapshots: the worker, clients that send SAVE
  MaxSwallowed  \* bound: entries the parser loses behind a torn frame

\* The file cannot be opened or written, the temporary snapshot cannot be
\* written, the log cannot be truncated, a crash leaves part of an append.
FaultKind == {"append", "save", "truncate", "torn"}

\* A situation: how the server is configured, who saves snapshots, what clients
\* send, what may go wrong, and how far the run goes.
Setup ==
  [aofEnabled : BOOLEAN,             \* not --no-aof
   databases : (SUBSET (Nat \ {0})) \ {{}},  \* --databases, chosen at every start
   savers : SUBSET Saver,
   commands : SUBSET Command,        \* the mutating commands clients send
   faults : SUBSET FaultKind,
   maxTime : Nat,                    \* bound: the clock stops here
   maxLog : Nat,                     \* bound: entries in the append-only file
   maxSize : Nat,                    \* bound: integers, chunks of a string, elements
   maxCrashes : Nat]                 \* bound: crashes

ASSUME PersistenceAssumption ==
  /\ \A n \in DOMAIN Setups : Setups[n] \in Setup
  /\ MaxSwallowed \in Nat

VARIABLES
  setup,                  \* the name of the situation
  up,                     \* the process is running
  databases,              \* config.databaseCount of the process
  stores,                 \* values_ of every DataStore, in memory
  now,                    \* the clock
  aof,                    \* the append-only file: commands, SELECT markers, torn frames
  currentAppendDatabase,  \* the database the last append was for
  snapshotFile,           \* the snapshot file
  tempFile,               \* the file a snapshot is written to before it is renamed
  saving,                 \* per saver: how many stores it wrote, to which file
  phase,                  \* what the holder of the mutex does next
  inFlight,               \* the command being logged, its database, the stores before it
  crashes                 \* crashes so far

files == <<snapshotFile, tempFile>>
log == <<aof, currentAppendDatabase>>
lock == <<phase, inFlight>>
process == <<setup, up, databases, crashes>>
vars == <<process, stores, now, log, files, saving, lock>>

This == Setups[setup]

Db == 0 .. databases - 1

Empty == [d \in Db |-> EmptyMap]

\* What a saver does: it has written so many stores to the file its stream is
\* open on, which is the temporary file until somebody renames it.
NotSaving == [written |-> 0, target |-> "closed"]

\* What is left of the frame of command c that was not written to its end.  What
\* follows it in the file is read as its missing bytes: how many entries are lost
\* that way depends on the lengths involved.  They may complete the frame into a
\* command of the same name with other arguments, and the last of them may still
\* be run when it is a single word, which then stands on a line of its own.
TornFrames(c) ==
  {frame \in [name : {"torn"}, swallows : 0 .. MaxSwallowed, inline : BOOLEAN,
              completed : {NoCommand} \cup {m \in This.commands : m.name = c.name}] :
     frame.completed # NoCommand => frame.swallows > 0 /\ c.name \notin OneWord}

\* The stores a process started now would serve.
Recovered == Replayed(aof, Loaded(snapshotFile, databases, now), now).stores

-----------------------------------------------------------------------------

Init ==
  /\ setup \in DOMAIN Setups
  /\ up = TRUE
  /\ databases \in This.databases
  /\ stores = Empty
  /\ now = 0
  /\ aof = <<>>
  /\ currentAppendDatabase = 0
  /\ snapshotFile = NoFile
  /\ tempFile = NoFile
  /\ saving = [s \in Saver |-> NotSaving]
  /\ phase = "idle"
  /\ inFlight = NoCommand
  /\ crashes = 0

-----------------------------------------------------------------------------
\* AofPersistence::executeAndAppend, called for every mutating command.

WithinBounds(ss) ==
  \A d \in Db : \A k \in DOMAIN ss[d] :
    /\ Len(ss[d][k].value) <= This.maxSize /\ Len(ss[d][k].list) <= This.maxSize
    /\ IsInteger(ss[d][k].value) => ss[d][k].value[1] <= This.maxSize

\* The command runs first; one that answers "ERR ..." is not logged, and none
\* is when there is no append-only file.
ExecuteCommand(c, d) ==
  /\ up /\ phase = "idle"
  /\ Len(aof) < This.maxLog
  /\ c.name = "MOVE" => c.arg \in Db
  /\ stores' = Applied(c, d, stores, now)
  /\ WithinBounds(stores')
  /\ IF IsErr(c, stores[d], now) \/ ~This.aofEnabled
     THEN UNCHANGED lock
     ELSE phase' = "append" /\ inFlight' = [command |-> c, db |-> d, before |-> stores]
  /\ UNCHANGED <<process, now, log, files, saving>>

\* Slip: no SELECT marker in front of the command.
EntriesUnmarked == <<inFlight.command>>

\* What writeCommand sends to the file for the command in flight.
Entries ==
  (IF inFlight.db # currentAppendDatabase THEN <<Select(inFlight.db)>> ELSE <<>>)
    \o <<inFlight.command>>

\* What is in the file when the write stops short of the last byte.
PartialEntries ==
  {SubSeq(Entries, 1, n) : n \in 0 .. Len(Entries) - 1} \cup
  UNION {{Append(SubSeq(Entries, 1, n), frame) : frame \in TornFrames(Entries[n + 1])} :
           n \in 0 .. Len(Entries) - 1}

AppendCommand ==
  /\ phase = "append"
  /\ aof' = aof \o Entries
  /\ currentAppendDatabase' = inFlight.db
  /\ phase' = "idle"
  /\ inFlight' = NoCommand
  /\ UNCHANGED <<process, stores, now, files, saving>>

\* The client is answered all the same.
AppendFails ==
  /\ phase = "append" /\ "append" \in This.faults
  /\ \/ UNCHANGED log
     \/ \E written \in PartialEntries :
          aof' = aof \o written /\ currentAppendDatabase' = inFlight.db
  /\ phase' = "idle"
  /\ inFlight' = NoCommand
  /\ UNCHANGED <<process, stores, now, files, saving>>

-----------------------------------------------------------------------------
\* SnapshotPersistence::save, called by the snapshot worker and by SAVE: inside
\* AofPersistence::checkpoint when there is an append-only file, bare otherwise.

MayBegin == IF This.aofEnabled THEN phase = "idle" ELSE TRUE

\* Slip: the log is truncated before the snapshot is in place.
SaveBeginTruncating(s) ==
  /\ up /\ saving[s] = NotSaving /\ MayBegin
  /\ phase' = (IF This.aofEnabled THEN "save" ELSE "idle")
  /\ tempFile' = [count |-> databases, sections |-> <<>>, mangled |-> {}]
  /\ saving' = [saving EXCEPT ![s] = [written |-> 0, target |-> "temp"]]
  /\ aof' = <<>>
  /\ UNCHANGED <<process, stores, now, currentAppendDatabase, snapshotFile, inFlight>>

\* The temporary file is opened and truncated, whoever else is writing it.
SaveBegin(s) ==
  /\ up /\ saving[s] = NotSaving /\ MayBegin
  /\ phase' = (IF This.aofEnabled THEN "save" ELSE "idle")
  /\ tempFile' = [count |-> databases, sections |-> <<>>, mangled |-> {}]
  /\ saving' = [saving EXCEPT ![s] = [written |-> 0, target |-> "temp"]]
  /\ UNCHANGED <<process, stores, now, log, snapshotFile, inFlight>>

\* The file after a stream that is n stores into it has written one more.  Bytes
\* another writer truncated leave a gap, and a store of another size than the
\* one it overwrites shifts into what follows it.
Written(file, n, store) ==
  LET m == Len(file.sections)
      gap == m + 1 .. n
      kept == [i \in 1 .. Max({m, n + 1}) |->
                 IF i = n + 1 THEN store ELSE IF i <= m THEN file.sections[i] ELSE EmptyMap]
      mixed == (file.mangled \cup gap) \ {n + 1}
  IN {[file EXCEPT !.sections = kept, !.mangled = bad] :
        bad \in IF m <= n \/ (n + 1 \notin file.mangled /\ file.sections[n + 1] = store)
                THEN {mixed} ELSE {mixed, mixed \cup (n + 2 .. m)}}

\* The next store.  A stream whose file was replaced writes to no file at all.
SaveStore(s) ==
  LET d == saving[s].written
      target == saving[s].target
      live == Without(stores[d], Expired(stores[d], now))
      store == Image(live)
  IN /\ saving[s] # NotSaving /\ d \in Db
     /\ stores' = [stores EXCEPT ![d] = live]
     /\ saving' = [saving EXCEPT ![s].written = d + 1]
     /\ tempFile' \in IF target = "temp" THEN Written(tempFile, d, store) ELSE {tempFile}
     /\ snapshotFile' \in IF target = "final" THEN Written(snapshotFile, d, store) ELSE {snapshotFile}
     /\ UNCHANGED <<process, now, log, lock>>

\* A write fails.  The temporary file stays behind; once no saver is left that
\* could rename it, it is truncated before it is used and counts as missing.
SaveFails(s) ==
  /\ saving[s] # NotSaving /\ "save" \in This.faults
  /\ saving' = [saving EXCEPT ![s] = NotSaving]
  /\ tempFile' = IF \A t \in Saver : saving'[t] = NotSaving THEN NoFile ELSE tempFile
  /\ phase' = "idle"
  /\ UNCHANGED <<process, stores, now, log, snapshotFile, inFlight>>

\* Who else has the temporary file open now has the snapshot file open, and who
\* had that one open is left with a file that has no name.
Retargeted(s) ==
  [t \in Saver |->
     CASE t = s -> NotSaving
       [] t # s /\ saving[t].target = "temp" -> [saving[t] EXCEPT !.target = "final"]
       [] t # s /\ saving[t].target = "final" -> [saving[t] EXCEPT !.target = "unlinked"]
       [] OTHER -> saving[t]]

\* Slip: a temporary file that was not written to its end is renamed.
SaveRenameShort(s) ==
  /\ saving[s] # NotSaving /\ tempFile # NoFile
  /\ snapshotFile' = tempFile
  /\ tempFile' = NoFile
  /\ saving' = Retargeted(s)
  /\ phase' = (IF This.aofEnabled THEN "truncate" ELSE "idle")
  /\ UNCHANGED <<process, stores, now, log, inFlight>>

SaveRename(s) ==
  /\ saving[s] # NotSaving /\ saving[s].written = databases
  /\ tempFile # NoFile
  /\ snapshotFile' = tempFile
  /\ tempFile' = NoFile
  /\ saving' = Retargeted(s)
  /\ phase' = (IF This.aofEnabled THEN "truncate" ELSE "idle")
  /\ UNCHANGED <<process, stores, now, log, inFlight>>

\* AofPersistence::checkpoint after a save that succeeded.
Truncate ==
  /\ phase = "truncate"
  /\ aof' = <<>>
  /\ currentAppendDatabase' = 0
  /\ phase' = "idle"
  /\ UNCHANGED <<process, stores, now, files, saving, inFlight>>

TruncateFails ==
  /\ phase = "truncate" /\ "truncate" \in This.faults
  /\ currentAppendDatabase' = 0
  /\ phase' = "idle"
  /\ UNCHANGED <<process, stores, now, aof, files, saving, inFlight>>

-----------------------------------------------------------------------------
\* The process, its other threads and the clock.

Dies ==
  /\ up' = FALSE
  /\ stores' = Empty
  /\ saving' = [s \in Saver |-> NotSaving]
  /\ tempFile' = NoFile
  /\ phase' = "idle"
  /\ inFlight' = NoCommand
  /\ UNCHANGED <<setup, databases, now, currentAppendDatabase, snapshotFile>>

Crash ==
  /\ up /\ crashes < This.maxCrashes
  /\ crashes' = crashes + 1
  /\ \/ UNCHANGED aof
     \/ /\ phase = "append" /\ "torn" \in This.faults
        /\ \E written \in PartialEntries : aof' = aof \o written
  /\ Dies

\* The temporary file is gone: rename throws and no thread catches it.
RenameThrows(s) ==
  /\ saving[s] # NotSaving /\ saving[s].written = databases
  /\ tempFile = NoFile
  /\ Dies
  /\ UNCHANGED <<aof, crashes>>

\* main: a new AofPersistence, the snapshot loaded, the log replayed and kept.
Restart ==
  /\ ~up /\ Complete(snapshotFile)
  /\ up' = TRUE
  /\ databases' \in This.databases
  /\ currentAppendDatabase' = 0
  /\ UNCHANGED <<setup, now, aof, files, saving, lock, crashes>>
  /\ stores' = Recovered'

\* main returns 1: the snapshot cannot be read to its end.
StartRefused ==
  /\ ~up /\ ~Complete(snapshotFile)
  /\ UNCHANGED vars

\* Slip: a key goes a tick before its deadline.
DropExpiredEarly(d, k) ==
  /\ up /\ k \in Expired(stores[d], now + 1)
  /\ stores' = [stores EXCEPT ![d] = Without(@, {k})]
  /\ UNCHANGED <<process, now, log, files, saving, lock>>

\* The expiry worker and reads need only the mutex of the store.
DropExpired(d, k) ==
  /\ up /\ k \in Expired(stores[d], now)
  /\ stores' = [stores EXCEPT ![d] = Without(@, {k})]
  /\ UNCHANGED <<process, now, log, files, saving, lock>>

Tick ==
  /\ now < This.maxTime
  /\ now' = now + 1
  /\ UNCHANGED <<process, stores, log, files, saving, lock>>

Next ==
  \/ \E c \in This.commands, d \in Db : ExecuteCommand(c, d)
  \/ AppendCommand \/ AppendFails
  \/ \E s \in This.savers :
       SaveBegin(s) \/ SaveStore(s) \/ SaveFails(s) \/ SaveRename(s) \/ RenameThrows(s)
  \/ Truncate \/ TruncateFails
  \/ Crash \/ Restart \/ StartRefused
  \/ \E d \in Db, k \in Key : DropExpired(d, k)
  \/ Tick

Spec == Init /\ [][Next]_vars
-----------------------------------------------------------------------------
\* Properties.

Entry ==
  This.commands \cup {Select(d) : d \in UNION {0 .. n - 1 : n \in This.databases}}
    \cup UNION {TornFrames(c) : c \in This.commands \cup {Select(0)}}

IsFile(file) ==
  /\ file.count \in This.databases \cup {0}
  /\ Len(file.sections) <= file.count
  /\ \A i \in DOMAIN file.sections : IsStore(file.sections[i])
  /\ file.mangled \subseteq DOMAIN file.sections

\* Types: memory and the snapshot files hold stores, the log holds entries
\* replay knows, a command in flight names a database, and a saver whose stream
\* is open on a file finds that file there.
TypeOK ==
  /\ setup \in DOMAIN Setups
  /\ up \in BOOLEAN
  /\ databases \in This.databases
  /\ DOMAIN stores = Db /\ \A d \in Db : IsStore(stores[d])
  /\ now \in Nat
  /\ aof \in Seq(Entry)
  /\ currentAppendDatabase \in Db
  /\ IsFile(snapshotFile) /\ IsFile(tempFile)
  /\ \A s \in Saver :
       /\ saving[s].written \in 0 .. databases
       /\ saving[s].target \in {"closed", "temp", "final", "unlinked"}
       /\ saving[s].target = "temp" => tempFile # NoFile
       /\ saving[s].target = "final" => snapshotFile # NoFile
  /\ phase \in {"idle", "append", "save", "truncate"}
  /\ phase = "append" => inFlight.command \in This.commands /\ inFlight.db \in Db
  /\ crashes \in Nat

Contents(ss) == [d \in Db |-> Seen(ss[d], now)]

\* What a crash at this instant should bring back: a command that has been
\* executed and is not yet in the log was not acknowledged.
Acknowledged == IF phase = "append" THEN inFlight.before ELSE stores

\* While no command and no checkpoint is under way, the snapshot and the log
\* together reproduce memory: the same keys and values in the same databases.
RecoverableWhenIdle ==
  up /\ phase = "idle" => Contents(Recovered) = Contents(stores)

\* That holds until the first crash as long as every write succeeds and no
\* deadline has moved, whatever commands were logged and compacted.
RecoverableInFirstLife ==
  This.aofEnabled /\ This.faults = {} /\ crashes = 0 /\ now = 0 => RecoverableWhenIdle

\* The same at every instant, also while a checkpoint compacts the log: no
\* write is lost and none is applied twice (docs/persistence.md).
RecoverableAtAnyPoint == up => Contents(Recovered) = Contents(Acknowledged)

\* Commands that set a key's value and deadline outright, on a single database,
\* in a log that takes every write: replaying them again changes nothing.
Assigning ==
  /\ This.aofEnabled /\ This.databases = {1}
  /\ This.faults \subseteq {"save", "truncate"}
  /\ \A c \in This.commands : c.name \in {"SET", "DEL", "EXPIRE", "FLUSHDB", "FLUSHALL"}

\* The snapshot holds the key with a deadline that has passed.
Outlived(k) == snapshotFile.count > 0 /\ k \in Expired(snapshotFile.sections[1], now)

\* Whatever the crash point, a restart then brings back every live key with its
\* value.  Only deadlines may differ, and only to be later: the log holds TTLs
\* relative to the execution of the command, so replay starts them again and
\* may bring back keys that had expired, still with a deadline.  A key may be
\* missing when its deadline in the snapshot has passed since: loadSnapshot
\* leaves it out, and the EXPIRE in the log that prolonged its life finds no key.
RecoversUpToTtl ==
  Assigning /\ up => \A d \in Db :
    LET r == Contents(Recovered)[d]
        m == Contents(Acknowledged)[d]
    IN /\ \A k \in DOMAIN m \ DOMAIN r : Outlived(k)
       /\ \A k \in DOMAIN m \cap DOMAIN r :
            /\ r[k] = [m[k] EXCEPT !.expiresAt = r[k].expiresAt]
            /\ r[k].expiresAt = Never <=> m[k].expiresAt = Never
            /\ r[k].expiresAt >= m[k].expiresAt
       /\ \A k \in DOMAIN r \ DOMAIN m : r[k].expiresAt # Never

\* A checkpoint that completes makes the files equal to memory, whatever went
\* wrong before it: lost appends, torn frames, a log replayed into the wrong
\* database, an earlier checkpoint cut short, another number of databases.
CheckpointRestores ==
  [][Truncate => (Contents(Recovered) = Contents(stores))']_vars

\* The snapshot file is the complete image of a save or is not there: saves go
\* through a temporary file and a rename (docs/persistence.md).
SnapshotComplete == Complete(snapshotFile)

\* With the append-only file its mutex keeps saves apart, and so does a single
\* saver: the snapshot file is complete whenever the process may die.
OneSaverAtATime ==
  This.aofEnabled \/ (\A s, t \in This.savers : s = t) => SnapshotComplete

=============================================================================
