------------------------------- MODULE Replay -------------------------------
(***************************************************************************)
(* What a mutating command does to the stores of a server, what a snapshot *)
(* file keeps of them, and what start-up makes of a snapshot file and an   *)
(* append-only file: CommandHandler and AofPersistence::replay, without    *)
(* the threads, the faults and the crashes, which are in Persistence.      *)
(***************************************************************************)
EXTENDS StoreOps

CONSTANT ErrElem  \* a list element whose text starts with "ERR "

\* A command: key is its first argument, arg its second, seconds its TTL (-1:
\* none; the commands refuse a negative one).
Command ==
  {c \in [name : {"SET", "DEL", "EXPIRE", "PERSIST", "INCR", "APPEND", "LPUSH", "LPOP",
                  "RENAME", "MOVE", "FLUSHDB", "FLUSHALL"},
          key : Key, arg : Text \cup Elem \cup Key \cup Int, seconds : Nat \cup {-1}] :
     /\ c.name = "SET" => c.arg \in Text \cup Int
     /\ c.name = "EXPIRE" => c.seconds \in Nat
     /\ c.name = "APPEND" => c.arg \in Text
     /\ c.name = "LPUSH" => c.arg \in Elem
     /\ c.name = "RENAME" => c.arg \in Key
     /\ c.name = "MOVE" => c.arg \in Nat}

NoCommand == [command |-> "none"]

Select(d) == [name |-> "SELECT", db |-> d]

OneWord == {"FLUSHDB", "FLUSHALL"}

-----------------------------------------------------------------------------
\* Executing a command.

\* What the command, executed at time t, leaves of the store it is sent to.
Executed(c, s, t) ==
  LET p == Purged(s, c.key, t)
      k == c.key
  IN CASE c.name = "SET"     -> WithString(s, k, c.arg, c.seconds, t)
       [] c.name = "DEL"     -> Without(s, {k})
       [] c.name = "EXPIRE"  -> IF k \in DOMAIN p THEN WithDeadline(p, k, t + c.seconds * Second) ELSE p
       [] c.name = "PERSIST" -> IF k \in DOMAIN p /\ p[k].expiresAt # Never
                                THEN Touched(WithDeadline(p, k, Never), k, t) ELSE p
       [] c.name = "INCR"    -> IF Incrementable(p, k) THEN WithIncrement(p, k, 1, t) ELSE p
       [] c.name = "APPEND"  -> IF Accepts(p, k, "string") THEN WithSuffix(p, k, c.arg, t) ELSE p
       [] c.name = "LPUSH"   -> IF Accepts(p, k, "list") THEN WithHeads(p, k, <<c.arg>>, t) ELSE p
       [] c.name = "LPOP"    -> IF HasType(p, k, "list") THEN WithRest(p, k, Tail(p[k].list), t) ELSE p
       [] c.name = "RENAME"  -> IF k \in DOMAIN p /\ k # c.arg THEN Renamed(p, k, c.arg, t) ELSE p
       [] c.name = "FLUSHDB" -> EmptyMap

\* The response starts with "ERR ": an error, or an element that looks like one.
IsErr(c, s, t) ==
  LET p == Purged(s, c.key, t)
      k == c.key
  IN CASE c.name = "INCR"   -> ~Incrementable(p, k)
       [] c.name = "APPEND" -> ~Accepts(p, k, "string")
       [] c.name = "LPUSH"  -> ~Accepts(p, k, "list")
       [] c.name = "LPOP"   -> k \in DOMAIN p /\ (p[k].type = "list" => Head(p[k].list) = ErrElem)
       [] c.name = "RENAME" -> k \notin DOMAIN p
       [] OTHER -> FALSE

\* MOVE to a database that is out of range is refused by the server and skipped
\* by replay.
Moved(ss, d, k, e, t) ==
  LET source == Purged(ss[d], k, t)
      destination == Purged(ss[e], k, t)
  IN IF d = e \/ e \notin DOMAIN ss THEN ss
     ELSE IF k \notin DOMAIN source \/ k \in DOMAIN destination
          THEN [ss EXCEPT ![d] = source]
          ELSE [ss EXCEPT ![d] = Without(source, {k}),
                          ![e] = Put(destination, k, Touched(source, k, t)[k])]

\* What it leaves of all the stores, sent to database d.
Applied(c, d, ss, t) ==
  CASE c.name = "FLUSHALL" -> [e \in DOMAIN ss |-> EmptyMap]
    [] c.name = "MOVE" -> Moved(ss, d, c.key, c.arg, t)
    [] OTHER -> [ss EXCEPT ![d] = Executed(c, ss[d], t)]

-----------------------------------------------------------------------------
\* Snapshot files.

\* A snapshot file: the number of databases in its header, the stores written
\* so far, and the places where the bytes of two writers are mixed.
NoFile == [count |-> 0, sections |-> <<>>, mangled |-> {}]

Complete(file) == Len(file.sections) = file.count /\ file.mangled = {}

\* What DataStore::snapshot keeps of a store and writeEntries writes of that:
\* not when a key was last used.
Image(live) == [k \in DOMAIN live |-> Touched(live, k, Never)[k]]

-----------------------------------------------------------------------------
\* Start-up: load the snapshot, replay the log.

\* A store read back: its expired keys are left out, and the others count as
\* just used, since the file does not say when they were.
loadSnapshot(s, t) == [k \in DOMAIN s \ Expired(s, t) |-> Touched(s, k, t)[k]]

\* The stores of a process with n databases.  A missing file is an empty one;
\* databases the file does not have are empty, those the process does not have
\* are dropped.
Loaded(file, n, t) ==
  [d \in 0 .. n - 1 |-> IF d < file.count THEN loadSnapshot(file.sections[d + 1], t) ELSE EmptyMap]

\* One entry of the log: lost is how many more are swallowed by the frame torn.
ReplayStep(r, entry, t) ==
  CASE entry.name = "torn" ->
         [r EXCEPT !.lost = Max({@ - 1, entry.swallows}), !.torn = entry]
    [] entry.name # "torn" /\ r.lost > 0 ->
         LET completed == IF r.lost > 1 \/ r.torn.completed = NoCommand THEN r.stores
                          ELSE Applied(r.torn.completed, r.db, r.stores, t)
         IN [r EXCEPT !.lost = @ - 1,
                      !.stores = IF r.lost = 1 /\ r.torn.inline /\ entry.name \in OneWord
                                 THEN Applied(entry, r.db, completed, t) ELSE completed]
    [] r.lost = 0 /\ entry.name = "SELECT" ->
         IF entry.db \in DOMAIN r.stores THEN [r EXCEPT !.db = entry.db] ELSE r
    [] r.lost = 0 /\ entry.name \notin {"torn", "SELECT"} ->
         [r EXCEPT !.stores = Applied(entry, r.db, @, t)]

\* What replay has done after the entries, starting from stores ss.
Replayed(entries, ss, t) ==
  LET after[n \in 0 .. Len(entries)] ==
        IF n = 0 THEN [stores |-> ss, db |-> 0, lost |-> 0, torn |-> NoCommand]
                 ELSE ReplayStep(after[n - 1], entries[n], t)
  IN after[Len(entries)]

-----------------------------------------------------------------------------
\* What clients can see of a store: live keys, their payloads and deadlines.
Seen(s, t) ==
  [k \in DOMAIN s \ Expired(s, t) |-> [s[k] EXCEPT !.createdAt = Never, !.lastAccessedAt = Never]]

=============================================================================
