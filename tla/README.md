# SwiftCache in TLA+

TLA+ models of SwiftCache, a Redis-like in-memory cache in C++17
(`src/swiftcache/src/`), with the TLC runs that check them on small instances
and TLAPS proofs of what matters most for every instance.  `PROJECT.json` maps
every definition to the lines it models and lists runs, hazards and theorems.

## The system

| Part | Source | Module | State |
| --- | --- | --- | --- |
| Data store: keys, four data types, TTLs, eviction | `datastore/DataStore.*` | `StoreOps`, `DataStore`, `EvictionLoop`, `KeyPattern` | `values_`, the clock, the eviction configuration |
| What the databases promise to clients | the same methods, seen from outside | `Cache`, `StoreRefinement` | the live keys and what they hold |
| Append-only file (AOF) and snapshots, start-up | `core/AofPersistence.*`, `core/SnapshotPersistence.*`, `core/SnapshotWorker.*`, `main.cpp` | `Replay`, `Persistence`, `SnapshotFormat` | memory, both files and the temporary one, `currentAppendDatabase_`, who holds the mutex and how far every saver is |
| Connections, Pub/Sub, CLIENT KILL, client counters | `networking/TcpServer.*`, `core/ServerMetrics.*` | `Connections` | descriptors, the stage of every thread, `clients_`, both subscription maps, counters |
| Command dispatch: AUTH, READONLY, SELECT, MOVE, FLUSHALL, replies | `networking/TcpServer.*`, `core/CommandMetadata.*`, `core/CommandRegistry.*` | `Server` | each thread's locals, `readOnly_`, `clients_` info, the mutex of the AOF, `sendMutex_` |
| Request parser | `parser/CommandParser.*` | `Parser`, `ByteStrings` | the pending buffer |
| Expiry worker | `core/ExpiryWorker.*` | `DataStore.removeExpired`, `Persistence.DropExpired` | none of its own |
| Commands | `commands/**` | through the methods they call | none |
| Options, string utilities | `main.cpp`, `utils/*` | none | none shared |

One thread serves each connection.  It parses a command and tries a fixed chain
of handlers.  Most commands end in one method of one `DataStore`, which holds
that store's mutex from its first access to its return.  Mutating commands run
inside `AofPersistence::executeAndAppend` when the AOF is on; its mutex
serialises them with each other and with checkpoints.  Two workers run beside
the clients: one erases expired keys once a second, one takes checkpoints.

## The modules

**`StoreOps`** holds no state: it says what each method computes from the map
`values_`.  A store is a function from the keys present to `ValueObject`
records.  A string is a sequence of chunks, since only three things are ever
asked of it: is it an integer, how long is it, and what was appended.
`evictIfNeeded` gives the eviction loop in closed form: the key sets it may
erase (candidates in order of rank, ties in any order, stopping as soon as the
store is within its limits).  **`EvictionLoop`** writes the loop down as it stands
in the code; `EvictionLoopAgrees` compares the two on every store a run reaches.

**`DataStore`** has one action per public method, named as in the code, plus the
clock.  `Purged` is the lookup every method starts with; `Upsert`, `Lookup` and
`Shrink` are the three shapes methods have.  KEYS and DBSIZE take the mutex
twice: `ScanSweep` and `ScanRead`, with other threads in between.  `moveKeyTo`
holds both mutexes and is one action.

**`Cache`** is the abstract specification: a database is a map from live keys to
type, payload and deadline.  A command changes the keys it names, and the
policy may take keys it is allowed to take; nothing else is visible.
**`StoreRefinement`** maps a store to it by hiding expired objects and access
times; `ImplementsCache` says `DataStore` implements `Cache` under that mapping.

**`Replay`** holds no state either: what a mutating command does to all the stores
of a process (`Applied`) and whether it answers with an error (`IsErr`), what a
snapshot keeps of a store (`Image`), and what start-up makes of a snapshot
(`Loaded`) and of the entries of a log (`Replayed`, one `ReplayStep` per entry).
The time is an argument, because the same entries are executed at one time and
replayed at another.

**`Persistence`** extends `Replay` with the files.  A command executes
(`ExecuteCommand`) and is then appended (`AppendCommand`, `AppendFails`); a
checkpoint saves store by store, renames and truncates.  `phase` is the step
the holder of the AOF mutex is at; a `Crash` may come between any two.  Without
the AOF there is no mutex: commands go on, and the worker and SAVE write the
same temporary file.  `Written` is what one more store does to a file another
stream also writes; `Retargeted` is what a rename does to open streams.
`Recovered` is what a process started now would load and replay, with any of
the allowed numbers of databases.  A torn frame makes the parser take what
follows for its missing bytes: `TornFrames` allows it to swallow up to
`MaxSwallowed` entries, to be completed by them into a command of the same name
with other arguments, and to leave a one-word command runnable.  `Setups` names
the situations a run covers; `Init` picks one, so that one run asks the same
questions of all of them.

**`Parser`** is `CommandParser` on bytes: a source sends its bytes one piece at a
time, and `parseAvailable` runs after each.  It also holds `encodeRespCommand`
of the AOF, so that logs are written and read by their real encodings.
**`SnapshotFormat`** is the snapshot file byte by byte, versions 1 and 2, for
files that end anywhere.  It is what lets `Persistence` treat a file as complete
or refused.  **`KeyPattern`** is the loop of `matchesPattern`, one comparison per
step, beside what a pattern means (`Glob`: its bytes can be laid out over the key).
**`ByteStrings`** has the digits and searches the formats share.  A byte is a
symbol of the constant `Byte`, which holds at least the digits and the symbols
the formats give a meaning; the loops of the code are recursive functions.

**`Connections`** follows each thread from `accept` to `clientDisconnected`.
Descriptors are handed out again once closed.  PUBLISH and CLIENT KILL copy
descriptors under a lock and use them after releasing it, as the code does.  A
killed client's descriptor is closed twice, by the kill and by its own thread.

**`Server`** follows each thread through the handlers.  The read-only check,
the wait for the AOF mutex and the execution are separate steps, FLUSHALL
clears one store per step, and an answer is sent under `sendMutex_`, which stays
held for as long as the client does not read.  SAVE, INFO (for the size of the
log) and the checkpoints of the snapshot worker take the AOF mutex as well; what a
save does to the files is left to `Persistence`.  A store is only the set of its
keys here.

**`MC*`** modules give the constants of the runs; `MCFormats` puts the three byte
formats side by side, each initial state exercising one of them.  **`*Proofs`**
modules hold the theorems.  Operators marked `Slip` are plausible mistakes in
the code next to the definition they would replace: with the replacement, TLC
finds the property that watches over that definition violated.  They take no
part in the specifications.

## What TLC checks

| Run | Instance | Checked |
| --- | --- | --- |
| `store` | 2 keys, every method, TTL 1, time 0..1, every policy with key and memory limits | `TypeOK`, `WellFormed`, `WithinLimits`, `EvictionLoopAgrees`, `ExpiredStaysDead`, `DeadlineMovesOnlyByCommand`, `LruKeepsWritten`, `VolatileLimitKept`, `ImplementsCache` |
| `store_expiry` | 2 databases, half-second ticks, one scanner, limit of 1 key, fair worker | `TtlReplyInRange`, `ScanFindsNoneExpired`, `ExpiredCollected`, `ExpiredStaysDead`, `ImplementsCache` |
| `persistence` | seven situations, see below | `TypeOK`, `OneSaverAtATime`, `RecoverableInFirstLife`, `RecoversUpToTtl`, `CheckpointRestores` |
| `connections` | 3 connections, 2 descriptors, 2 channels, 2 kills | `TypeOK`, `SubscriptionsAgree`, `NoConnectionLeaked`, `DescriptorsOwned`, `StraysWithinKills`, `PeakCoversCount` |
| `server` | 2 clients, the snapshot worker, 1 key, 2 databases, password, AOF on or off | `ServerTypeOK`, `InfoCurrent`, `OneLateWrite`, `NothingBeforeAuth`, `FlushAllClears`, `LockReleased` |
| `formats` | requests in pieces, logs, torn logs, snapshot files cut anywhere, patterns | `ChunkingInvisible`, `LogReadBack`, `TornFrameContained`, `SnapshotReadBack`, `PatternDecided` |

The situations of `persistence`: commands that set no deadline until the
first restart (`first_life`); assigning commands with two crashes anywhere
(`restarts`); every fault, torn frames and another number of databases
(`every_fault`); deadlines that pass during a checkpoint (`deadlines`); two
savers with the mutex (`two_savers`); one or two savers without the AOF.

These hold.  Together they say:

- payloads match types and emptied collections go away; expired objects are
  never read, extended, moved or reported by a KEYS that began after they
  expired; clients see nothing the abstract store does not allow;
- limits hold after every method under `allkeys-lru` and `random`; under the
  volatile policies only EXPIRE can leave a store over its limit while it has
  candidates (it does not evict, where `docs/configuration.md:101` allows the
  excess only without TTL keys);
- until the first restart, with the AOF, while every write succeeds, before any time
  passes and with no element that starts with `ERR `, the files reproduce memory
  whenever no command or checkpoint is under way; across crashes assigning
  commands lose nothing but the age of their TTLs, except a key whose copy in
  the snapshot has expired since: `loadSnapshot` drops it (`DataStore.cpp:978`) before
  the EXPIRE in the log that prolonged its life is replayed; a completed checkpoint repairs
  any earlier damage to the log; the snapshot file is complete whenever only one
  thread can be saving;
- the subscription maps stay inverse even while descriptors are reused; no
  connection leaks; the peak of connections is never too low; before the first
  CLIENT KILL every table entry belongs to the connection that has the descriptor,
  and every kill costs at most one connection at a time its descriptor.  That need
  not be the client that was meant, where `docs/commands.md:27` says "Closes the
  client connection with the matching ID": the number is closed after the lock is
  released (`TcpServer.cpp:630`) and again by the thread of the killed client;
- at most one write per client slips past READONLY ON; FLUSHALL leaves nothing
  behind when the AOF is on; whoever takes the AOF mutex, a write, SAVE, INFO or
  the worker, releases it, even while a client that does not read holds up every
  answer;
- how a request is cut into pieces makes no difference; arguments that look like
  the protocol survive the log; a torn command costs the first few commands
  behind it and leaves all later ones as they were; a snapshot file that lacks more
  than the end of its last line is refused.

`PatternDecided` is weaker than "the keys that match": `matchesPattern` compares
bytes before it looks for a star, so a star in a key uses up the star of the
pattern and `KEYS *` leaves out a key named `*a` (`DataStore.cpp:130`;
`docs/commands.md:59`).  What it reports does match, and among keys without a
star it misses none.

Six runs end in a counterexample, because the code does something else than
its documentation says:

| Run | Property | What happens |
| --- | --- | --- |
| `store_dangling_reply` | `RepliesFromStoredKey` | APPEND, LPUSH and RPUSH read the new length through an iterator after `evictIfNeededLocked`, which may have erased that very element (`DataStore.cpp:338`, `433`, `468`; `docs/commands.md:99`). |
| `aof_context` | `RecoverableWhenIdle` | `currentAppendDatabase_` is 0 after a restart although the log ends in another database: writes to database 0 get no SELECT marker and are replayed elsewhere (`AofPersistence.cpp:208`; `docs/persistence.md:64`, `70`). |
| `err_element` | `RecoverableWhenIdle` | `executeAndAppend` takes an answer that starts with `ERR ` for an error: LPOP of such an element is not logged and the element is back after a restart (`AofPersistence.cpp:144`; `docs/persistence.md:43`, `48`). |
| `checkpoint_window` | `RecoverableAtAnyPoint` | A crash between the rename of the snapshot and the truncation of the log replays INCR on top of its own result (`AofPersistence.cpp:176`; `docs/persistence.md:60`). |
| `shared_temp_file` | `SnapshotComplete` | Without the AOF the worker and SAVE write one temporary file; the first to finish renames it while the other has just truncated it (`SnapshotPersistence.cpp:209`; `docs/persistence.md:15`).  A start that finds the file so is refused. |
| `connections_publish` | `DeliveredToSubscribers` | A subscriber leaves while a message is being sent out; its descriptor goes to a new connection, which receives the message (`TcpServer.cpp:933`; `docs/commands.md:42`, `47`). |

The properties of `persistence` are what remains true in spite of them:
`RecoverableInFirstLife` without restarts, faults or passing time, `RecoversUpToTtl` for one database and
commands that assign, `OneSaverAtATime` with one saver or the mutex, and
`CheckpointRestores` with everything allowed.

### Bounds

`MaxTime`, `MaxLen`, `MaxInt` (store), `maxTime`, `maxLog`, `maxSize`,
`maxCrashes`, `MaxSwallowed` (persistence) and `MaxKills` (connections) are
guards of the actions they bound.  Two keys are the least RENAME needs, and with
room for one key, or for less memory than both take, eviction has to choose.
One tick lets a deadline of a second be set and pass; the half-second ticks of
`store_expiry` give TTL something to round.  Three log entries hold a marker,
its command and one more; with two crashes a server that has already recovered
can fail again.  Two savers are all the code has beside each other: the worker
and clients that send SAVE.  Three connections on two descriptors force a
descriptor to be reused while another is in use; with two kills a connection that
lost its descriptor to one can meet the other.  The sources of `formats` hold
two or three short commands, so that every cut and every torn byte has a whole
command behind it.  `connections`, `connections_publish` and `formats` switch the
deadlock check off: when every client has come and gone, or all bytes are read,
there is nothing left to do.

### Fairness

`DataStore!FairSpec` is weak fairness of `removeExpired` for each store:
`ExpiryWorker::run` sweeps all stores once a second for as long as the server
runs.  `ServerFairSpec` is weak fairness of each client thread that has a
command to work on; nothing is assumed of clients, who need not send anything
nor ever read an answer.  The snapshot worker is only assumed to end a checkpoint it
has begun (`CheckpointEnd`): writing a file takes finite time.  The mutex of the AOF needs no more: `LockReleased` is
about its holder, which never waits for another lock while it has that one.

## What is proved

| Module | Theorem | Statement |
| --- | --- | --- |
| `DataStoreProofs` | `Invariance`, `TypeCorrect`, `PayloadsMatchTypes` | `Spec => []TypeOK` and `Spec => []WellFormed`, for all keys, values, databases, configurations and bounds |
| | `LoopTheorem` | the closed form `evictIfNeeded` equals the loop `Evicted`, for every store and configuration over finitely many names |
| | `LimitsHold`, `VolatileLimitTheorem` | `Spec => []WithinLimits` and `Spec => VolatileLimitKept`, both limits, over finitely many names |
| | `LruTheorem` | `Spec => LruKeepsWritten` |
| `RefinementProofs` | `StoresImplementCache` | `Spec => ImplementsCache`: the detailed store implements the abstract one |
| | `ExpiredNeverRevived`, `ScansNeverFindExpired` | `Spec => ExpiredStaysDead` and `Spec => []ScanFindsNoneExpired`, for any deadlines, clocks and scanners |
| | `DeadlinesMoveByCommand`, `TtlRepliesInRange` | `Spec => DeadlineMovesOnlyByCommand` and `Spec => []TtlReplyInRange`, for any number of ticks in a second |
| `ServerProofs` | `TablesTyped`, `SubscriptionsAlwaysAgree`, `ConnectionsNeverLeak`, `DescriptorsStayOwned`, `StraysStayWithinKills`, `PeakAlwaysCovers` | the six invariants of the `connections` run, for any connections, descriptors, channels and kills |
| | `ServerTypes`, `InfoAlwaysCurrent`, `AtMostOneLateWrite`, `NothingEverBeforeAuth`, `FlushAllAlwaysClears` | the five safety properties of the `server` run, for any clients, keys, requests and databases |
| `PersistenceProofs` | `TypesHold`, `SnapshotAlwaysComplete` | `Spec => []TypeOK` and `Spec => []OneSaverAtATime`, for any situations, stores, faults and crashes |
| | `CheckpointTheorem` | `Spec => CheckpointRestores`, with the same generality |
| | `FirstLifeTheorem` | `Spec => []RecoverableInFirstLife`, for any commands and databases, if `ErrElem \notin Elem` |
| | `RecoveryTheorem` | `Spec => []RecoversUpToTtl`, for any number of crashes and any passage of time |
| `FormatsProofs` | `PatternTheorem` | `PatternSpec => []PatternDecided`, for keys and patterns of any length |
| | `ChunkingTheorem` | `Spec => []ChunkingInvisible`, for any bytes, well formed or not, in any pieces |
| | `LogTheorem` | `Spec => []LogReadBack`, for any commands with arguments of any bytes |
| `SnapshotProofs` | `SnapshotTheorem` | `SnapshotSpec => []SnapshotReadBack`, for any databases, entries, values and times, in both versions of the format |

`StoreOpsProofs` and `ByteStringsProofs` hold only lemmas: what the operators of
`StoreOps` take good stores to; where a text stands in another, numbers and their
digits, texts joined; and induction.

*Store.*  `WellFormed` is not inductive alone: a push onto an object of unknown
shape proves nothing about the result.  `IInv == TypeOK /\ WellFormed` is.  One
lemma per operator of `StoreOps` shows it takes good stores to good stores, one
lemma per shape of method lifts that to steps.

*Expiry and deadlines.*  Four theorems rest on where the objects of the next state
and their deadlines come from (`Sound`).  An object was there before, or is made
by this step, or is carried from a live key, or takes the place of a live one with
a deadline that has not passed (`Origin`).  Its deadline is none, or was some
key's, or is now plus a TTL that was asked for (`Dated`), and a live key has its
own unless a command names it (`Kept`).  Expired keys are in none of the last
places of `Origin`, which is `ExpiredNeverRevived`; `Kept` is
`DeadlinesMoveByCommand`.  For scans, a sweep leaves only objects that are not past
their deadline, and every object a later step brings into the store is at least as
fresh as that step; `ScanInv` adds that no scan begins in the future.  For TTL,
`DeadlineInv` says that no deadline is further away than some TTL, and
`SecondsRoundedUp` does the division.

*Eviction.*  `LoopTheorem` unfolds the closed form once (`EvictionUnfolds`): an outcome is
the empty set when the store is within its limits or has no candidate, and otherwise one key
`evictOne` may choose together with an outcome of what is left.  The function that
the loop defines over sets of erased keys has one solution, by induction over the
keys still there, and the closed form is one.  The memory used is a sum over a
finite set; lemmas on the sum say that it falls when a key goes and does not
rise when no object gets heavier.  Every step leaves a store that is no heavier
and has no key it did not have, or ends in `evictIfNeeded` (`Bounded`); in
the second case what is left is within the limits or has no candidate.  Under
`allkeys-lru` and `random` that means it is empty; under the volatile policies
that no key has a deadline, and steps of the first kind other than EXPIRE give none
a deadline.  For `LruTheorem` the key a write has just touched ranks above every
other, and eviction goes in the order of rank.

*Refinement.*  One lemma per operator of `StoreOps` says what a client sees of
its result in terms of what it saw before; eviction becomes `SurvivesFrom`,
because whatever it takes is a candidate.  One lemma per action then names the
step of `Cache` it is, or shows that nothing visible changes.  `IInv` is needed
for the types of what is stored.

*Connections.*  `SInv` adds to `SubscriptionsAgree` the types of the maps and
that threads past `accept` have a descriptor.  `OInv` ties `socket` to `clientFd`
and the stages of the threads: an open descriptor belongs to a thread that has
not closed it, and, until a kill finds its client, table entries belong to
threads between registration and clean-up.  Both are preserved because a thread
cleans its tables before it closes its descriptor.  For the kills,
`StrayInv` adds to `StraysWithinKills` that what it counts is finite, and counting
does the rest: a close makes at most one thread a stray, the one that had the
number; a kill then has one descriptor less to close, and a thread that closes a
stranger's number was a stray itself and is through.  For the peak, either it
covers the count already or some thread in the exchange loop carries a value
that does and has still to install it.  That the count stays a natural number
needs `CountInv`: it is the number of threads between the two halves of the count.

*Server.*  Each property needs where the threads are: what a thread at a given
stage has been admitted with, that `clients_` and its locals agree outside the
handlers that change them, that only the holder of the mutex writes and how many
stores its FLUSHALL has cleared.

*Persistence.*  `SaveInv` says that in the situations at hand at most one saver
has a stream open, that it writes to the temporary file, and that this file holds
exactly the stores written so far: what is renamed is then complete, and nobody
else has it open.  For the types, a log may hold entries for more databases than
the process has and be replayed into any number of them; `ReplayedGood`, by
induction over the entries, says that good stores come out whatever was torn.
For checkpoints, `CheckpointInv` follows the save store by store: what is
written so far is, up to times of last use and keys expired since, what memory
holds, because with the mutex taken only expired keys can leave a store.  After
the rename that is true of the whole file, and replaying an empty log adds nothing.
For the first life, `FirstLifeInv` says that replaying the log now gives memory,
key by key (`Alike`: the same live keys with the same payloads and deadlines), and
ends in `currentAppendDatabase`; while a command is in flight, that it gives the
stores before it.  A step of replay takes stores that are alike to stores that are
alike (`AppliedAlike`), and a command that answers with an error changes nothing a
client can see (`ErrKeeps`).  The last fact is false for an element that starts
with `ERR `, the `err_element` run, which is why the theorem assumes
`ErrElem \notin Elem`; the `persistence` run satisfies it.

`RecoveryTheorem` is about what replay gives now, but a log is executed at many
times and replayed at one, and the next step may be a tick; so the invariant
(`TtlInv`) speaks of replay at every time from now on.  `Recovers` says that from
the snapshot that is there such a replay brings back memory, key by key
(`Tracks`).  That is lost at the rename, where another snapshot takes the place of
this one under a log that is still there.  `Rebuilds` is what survives: started
from any store at all, the log either brings back a key on its own, because it
holds a SET of it, or leaves it as it was in that store, at most with the deadline
of an EXPIRE.  A store that mirrors memory, which `CheckpointInv` says of the new
snapshot, then gives `Recovers` again (`SnapshotRecovers`).  While a command is in
flight the log is good for the stores before it, and with the command appended for
those after it.  A restart makes memory of the replay itself; that the same log
still brings this memory back is an induction over its entries (`StartRecovers`).

*Pattern.*  `MatchInv` has two halves.  What has been compared is a layout of the
pattern so far over the key so far, and so is what the last star has taken
(`MatchSound`).  In no layout of the whole pattern does the last star end earlier than
it ends now, if the key has no star (`MatchLeast`).  When bytes disagree, no layout lets
the star end where it does (`NotHere`), so the loop may give it one more byte; and
stars before it need not be touched again.

*Parsing.*  The definitions of the parser are recursive functions over all buffers;
that they exist is `Recursion`, an induction over the length of the buffer.
A frame that is complete in a buffer is the same frame in any longer one
(`FrameFacts`, one lemma per round of the loop over arguments), and so is a line;
an incomplete one takes no bytes.  Hence parsing a buffer and then what is kept
with more behind it is parsing both at once (`PiecesFacts`), which is what
`ChunkingHolds` needs of each `recv`.  For the log, a number is read as it was
written (`UnsignedRead`), an argument is delimited by its length whatever its bytes
are (`ArgumentRead`), a command is one frame (`EncodedRead`), and a front of a
command is none (`EndOfCommand`); `PrefixRead` puts them together.

*Snapshot file.*  The file is read by the same steps it was written by.
`Follows(f, at, w)` says that the file has the text `w` from `at` on as far as the
file goes.  Of each reader it is shown what it makes of its text: all of it when it
is there (`Gets`, `Delivers`), and when the file ends inside it, nothing, unless only
the last byte is missing.  Numbers are the exception that makes this delicate:
`getline` is content with a line that has no end, so a count or length whose digits are
cut is read as a smaller number.  Then the file has been read to its end
(`Gets`), and what the number announces is missing, unless it announces nothing:
a number other than 0 is never cut down to 0 (`UnsignedFront`), because it does
not begin with 0.  `BulkDelivered`, `CountedDelivers`, `EntryDelivered`,
`EntriesDelivered` and `LoadDelivers` carry this from the bytes to the file.

The proofs use only the assumptions on constants named in the modules
(`SecondAssumption`, `ConfigAssumption`, `BoundAssumption`,
`ConnectionsAssumption`, `ServerAssumption`, `PersistenceAssumption`,
`QueriesAssumption`, `ByteAssumption`, `NulAssumption`, `SourcesAssumption`, `SymbolsAssumption`,
`ImagesAssumption`) and those stated in the theorem: `FiniteNames` says that there
are finitely many keys, hash fields and list elements, so that sizes can be
counted (they are `std::string`s, which have a greatest length).

Folds are within reach because they are written as recursive functions, and
induction is stated for sets: a set of numbers, subsets or prefixes that holds the
first and with each the next holds all (`Induction`, `FiniteInduction`,
`SequenceInduction`).  Where a function recurs on something else than its
predecessor, as the parser does on the rest of the buffer, its existence is proved
first.

Only model-checked: liveness (`ExpiredCollected`, `LockReleased`), which TLAPS
does not prove under fairness; and `TornFrameContained`, which is about the given
sources: an argument that holds whole command lines can do more behind a torn frame
than the property allows, as noted below.
`EvictionLoopAgrees` is the instance of `LoopTheorem` that TLC evaluates.

## What is not modelled

- Texts: reply formats, INFO, CONFIG GET, COMMAND STATS, the argument checks of
  the commands and the counters they report.  None of them feeds back into the
  state.  SCAN accepts cursor 0 only and is KEYS.
- Integer widths: INCR and `ttl * 1000` may overflow in the code.  The parser
  reserves room for as many arguments as a request announces
  (`CommandParser.cpp:87`): for a number beyond what a vector can hold that throws,
  nothing catches it and the process ends, where the model has a request that waits
  for its arguments.
- SIGPIPE: the process neither ignores nor handles it, and `send` is called with
  flags 0 (`TcpServer.cpp:770`).  Sending to a peer that is gone may therefore end the
  process; `PublishFails` is the case in which `send` returns an error.
- Eviction together with persistence: evictions are not logged, and replay may
  evict other keys.  No document says which keys a restart keeps under a limit.
- A snapshot without the AOF is not one instant of all databases: MOVE may carry
  a key past a save.  The model has the behaviour; no document excludes it.
- Torn frames whose values contain whole command lines.
- Rehashing: `rename` erases through an iterator found before an insertion.
- Starting and stopping of the workers and shutdown.  The flag the signal handler
  sets is looked at once, before the server starts to listen; from then on
  `acceptLoop` returns only on an error, and no document says what a signal does.
- Reading options and configuration files, case folding: parsing without shared
  state.
