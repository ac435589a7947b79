---------------------------- MODULE SharedCache -----------------------------
(***************************************************************************)
(* The locks of SQLite's shared-cache mode, as the connections of the      *)
(* server meet them.  get_db opens one connection per thread on the same   *)
(* in-memory database; connections to a shared cache lock whole tables,    *)
(* a refused statement fails at once, and Python's sqlite3 opens a         *)
(* transaction before every INSERT or UPDATE, which the statement's own    *)
(* failure does not close.  Each operator maps the lock record lk to the   *)
(* one after a statement of connection k.                                  *)
(***************************************************************************)
EXTENDS FiniteSets

CONSTANTS
  Workers,   \* the threads of the pool; each has a connection of its own
  Nobody     \* no connection is writing

ASSUME NobodyAssumption == Nobody \notin Workers

Tables == {"users", "tasks", "ledger", "usage_sessions"}

Locks ==
  [begun   : SUBSET Workers,             \* Python's in_transaction
   open    : SUBSET Workers,             \* has a read or write transaction
   reads   : [Workers -> SUBSET Tables], \* read locks held
   writer  : Workers \cup {Nobody},      \* the one write transaction
   writes  : SUBSET Tables,              \* write locks the writer holds
   pending : BOOLEAN]                    \* the writer waits for readers

NoLocks == [begun |-> {}, open |-> {}, reads |-> [k \in Workers |-> {}],
            writer |-> Nobody, writes |-> {}, pending |-> FALSE]

(* While a writer is kept waiting no connection may start a transaction.   *)
CanBegin(lk, k) == k \in lk.open \/ ~lk.pending

(* COMMIT, ROLLBACK or the closing of the connection.                      *)
Release(lk, k) ==
  [begun   |-> lk.begun \ {k},
   open    |-> lk.open \ {k},
   reads   |-> [lk.reads EXCEPT ![k] = {}],
   writer  |-> IF lk.writer = k THEN Nobody ELSE lk.writer,
   writes  |-> IF lk.writer = k THEN {} ELSE lk.writes,
   pending |-> lk.pending /\ lk.writer # k /\ lk.open # {k, lk.writer}]

(* The end of a SELECT ends its transaction unless Python has begun one.   *)
EndStatement(lk, k) == IF k \in lk.begun THEN lk ELSE Release(lk, k)

CanRead(lk, k, table) ==
  CanBegin(lk, k) /\ (table \in lk.writes => lk.writer = k)

Read(lk, k, table) ==
  [lk EXCEPT !.open = @ \cup {k}, !.reads[k] = @ \cup {table}]

ReadRefused(lk, k) ==
  IF k \in lk.begun /\ CanBegin(lk, k) THEN [lk EXCEPT !.open = @ \cup {k}] ELSE lk

(* BEGIN takes no lock; the statement after it makes k the writer, even    *)
(* when it then fails because another connection reads the table.          *)
MayBecomeWriter(lk, k) == lk.writer \in {k, Nobody}

CanWrite(lk, k, table) ==
  MayBecomeWriter(lk, k) /\ \A other \in Workers \ {k} : table \notin lk.reads[other]

Write(lk, k, table) ==
  [lk EXCEPT !.begun = @ \cup {k}, !.open = @ \cup {k},
             !.writer = k, !.writes = @ \cup {table}]

WriteRefused(lk, k) ==
  IF MayBecomeWriter(lk, k)
  THEN [lk EXCEPT !.begun = @ \cup {k}, !.open = @ \cup {k},
                  !.writer = k, !.pending = TRUE]
  ELSE [lk EXCEPT !.begun = @ \cup {k}]
=============================================================================
