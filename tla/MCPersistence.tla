--------------------------- MODULE MCPersistence ----------------------------
(***************************************************************************)
(* Instances of Persistence for TLC: what the clients of a run send and    *)
(* what may happen to them.                                                *)
(***************************************************************************)
EXTENDS Persistence

CONSTANTS k1, k2, x, a

Cmd(name, key, arg) == [name |-> name, key |-> key, arg |-> arg, seconds |-> -1]

CmdEx(name, key, arg, seconds) == [Cmd(name, key, arg) EXCEPT !.seconds = seconds]

\* Commands that set no deadline, most of them not idempotent, with two
\* databases to move between, until the first restart and without faults.
FirstLife ==
  [aofEnabled |-> TRUE, databases |-> {2}, savers |-> {"worker"},
   commands |-> {Cmd("INCR", k1, 0), Cmd("APPEND", k1, x), Cmd("LPUSH", k2, a),
                 Cmd("LPOP", k2, 0), Cmd("RENAME", k2, k1), Cmd("MOVE", k1, 1),
                 Cmd("FLUSHDB", k1, 0), Cmd("FLUSHALL", k1, 0)},
   faults |-> {}, maxTime |-> 0, maxLog |-> 3, maxSize |-> 1, maxCrashes |-> 0]

\* Commands that set a key's value and deadline outright, and two crashes.
Restarts ==
  [aofEnabled |-> TRUE, databases |-> {1}, savers |-> {"worker"},
   commands |-> {Cmd("SET", k1, x), CmdEx("SET", k1, 0, 1), CmdEx("EXPIRE", k1, 0, 2),
                 Cmd("DEL", k1, 0), Cmd("FLUSHALL", k1, 0)},
   faults |-> {"save", "truncate"}, maxTime |-> 2, maxLog |-> 3, maxSize |-> 2, maxCrashes |-> 2]

\* A write a second replay would double and one that takes a single line, every
\* fault, and a restart with another number of databases.
EveryFault ==
  [aofEnabled |-> TRUE, databases |-> {1, 2}, savers |-> {"worker"},
   commands |-> {Cmd("INCR", k1, 0), Cmd("FLUSHDB", k1, 0), Cmd("MOVE", k1, 1)},
   faults |-> {"append", "save", "truncate", "torn"},
   maxTime |-> 0, maxLog |-> 2, maxSize |-> 1, maxCrashes |-> 1]

\* Keys that expire while a checkpoint goes from database to database.
Deadlines ==
  [aofEnabled |-> TRUE, databases |-> {2}, savers |-> {"worker"},
   commands |-> {Cmd("INCR", k1, 0), CmdEx("EXPIRE", k1, 0, 1), Cmd("PERSIST", k1, 0)},
   faults |-> {"save", "truncate"}, maxTime |-> 2, maxLog |-> 2, maxSize |-> 1, maxCrashes |-> 1]

\* No append-only file: the worker, or the worker and SAVE.
NoAof(savers) ==
  [aofEnabled |-> FALSE, databases |-> {2}, savers |-> savers,
   commands |-> {Cmd("SET", k1, x), Cmd("MOVE", k1, 1)},
   faults |-> {"save"}, maxTime |-> 0, maxLog |-> 1, maxSize |-> 1, maxCrashes |-> 1]

\* Two checkpoints that want the mutex of the append-only file.
TwoSavers ==
  [aofEnabled |-> TRUE, databases |-> {2}, savers |-> {"worker", "SAVE"},
   commands |-> {Cmd("INCR", k1, 0)},
   faults |-> {}, maxTime |-> 0, maxLog |-> 1, maxSize |-> 1, maxCrashes |-> 1]

Everything ==
  [first_life |-> FirstLife, restarts |-> Restarts, every_fault |-> EveryFault,
   deadlines |-> Deadlines,
   two_savers |-> TwoSavers, one_saver_no_aof |-> NoAof({"worker"}),
   two_savers_no_aof |-> NoAof({"worker", "SAVE"})]

TwoSavesWithoutAof == [two_savers_no_aof |-> NoAof({"worker", "SAVE"})]

\* Writes for two databases, across restarts.
WritesAcrossRestarts ==
  [writes |-> [TwoSavers EXCEPT !.savers = {"worker"},
                                !.commands = {Cmd("SET", k1, x), Cmd("DEL", k1, 0)},
                                !.maxLog = 3, !.maxCrashes = 2]]

\* A counter on one database, and one crash.
OneCounter == [counter |-> [TwoSavers EXCEPT !.databases = {1}, !.savers = {"worker"}, !.maxLog = 2,
                                             !.maxSize = 2]]

\* A list whose only element looks like an error message.
ErrElement ==
  [err |-> [TwoSavers EXCEPT !.databases = {1}, !.savers = {"worker"}, !.maxLog = 3, !.maxCrashes = 0,
                             !.commands = {Cmd("LPUSH", k1, ErrElem), Cmd("LPOP", k1, 0)}]]

=============================================================================
