------------------------ MODULE ThreadedAuditProofs ------------------------
(***************************************************************************)
(* What an audit of the tables finds after any interleaving: no session is *)
(* debited twice, and nothing is forgotten unless a request has failed.    *)
(***************************************************************************)
EXTENDS ThreadedServerProofs

(* Whoever settles a session is the only one, and before its debit is      *)
(* inserted it has none.                                                   *)
PaysFor(w, c, s) ==
  /\ Op(w) = "usage" /\ User(w) = c
  /\ job[w].step \in Settling \ {"commit_entry"} /\ Head(job[w].todo) = s

DebitsInv ==
  /\ OneDebitPerSession
  /\ \A c \in Children, s \in Sessions, w \in Workers : PaysFor(w, c, s) =>
       /\ Entries(c, "debit", s) = {}
       /\ \A other \in Workers : PaysFor(other, c, s) => other = w

(* An approval, an undoing or a session without its entry has a handler    *)
(* on the way to write it, unless some request has failed.                 *)
Owes(w, op, t) ==
  /\ Op(w) = op /\ job[w].req.task = t
  /\ job[w].step \in {"commit_task", "get_balance", "insert_entry"}

Owed(op, t) == \E w \in Workers : Owes(w, op, t)

NothingForgotten ==
  ~failed =>
    /\ \A t \in TaskIds :
         /\ tasks[t].status = "approved" =>
              Entries(tasks[t].child_id, "credit", t) # {} \/ Owed("approve", t)
         /\ tasks[t].status = "undone" =>
              Entries(tasks[t].child_id, "reversal", t) # {} \/ Owed("undo", t)
    /\ \A c \in Children, s \in Sessions : usage[c][s].status = "processed" =>
         Entries(c, "debit", s) # {} \/ \E w \in Workers : PaysFor(w, c, s)

-----------------------------------------------------------------------------
(***************************************************************************)
(* Who pays for a session.                                                 *)
(***************************************************************************)

(* Whoever pays for a session has recorded it, with minutes to pay.        *)
LEMMA PayerRecorded ==
  ASSUME TypeInv, NEW w \in Workers, NEW c \in Children, NEW s \in Sessions,
         PaysFor(w, c, s)
  PROVE  usage[c][s] # NoRow /\ usage[c][s] = job[w].row /\ RowFits(job[w].row)
BY HeadRecorded DEF PaysFor, Recorded

(* A thread's statement changes nothing of what the others pay for, and    *)
(* makes it pay for the session it inserts only.                           *)
LEMMA PayersMove ==
  ASSUME TypeInv, NEW w \in Workers, Moves(w), NEW c, NEW s
  PROVE  /\ \A v \in Workers \ {w} : PaysFor(v, c, s)' <=> PaysFor(v, c, s)
         /\ PaysFor(w, c, s)' =>
              \/ PaysFor(w, c, s) /\ ~InsertEntry(w)
              \/ InsertSession(w) /\ c = User(w) /\ s = Head(job[w].todo)
<1>1. JobTyped(w)
  BY MovesKept DEF Kept
<1>2. \A v \in Workers \ {w} : PaysFor(v, c, s)' <=> PaysFor(v, c, s)
  BY <1>1 DEF PaysFor, JobTyped, Others, Op, User
<1>3. ASSUME Expire(w) PROVE (PaysFor(w, c, s)' <=> PaysFor(w, c, s)) /\ ~InsertEntry(w)
  BY <1>3 DEF Expire, PaysFor, Op, User, InsertEntry, Modify
<1>4. ASSUME ~Expire(w), PaysFor(w, c, s)'
      PROVE  \/ PaysFor(w, c, s) /\ ~InsertEntry(w)
             \/ InsertSession(w) /\ c = User(w) /\ s = Head(job[w].todo)
  <2>1. job'[w].step \in {"commit_session", "get_balance", "insert_entry"}
    BY <1>4 DEF PaysFor, Settling
  <2>2. job'[w].req.op = "usage" /\ job'[w].req.user = c /\ Head(job'[w].todo) = s
    BY <1>4 DEF PaysFor, Op, User
  <2>3. ~InsertEntry(w)
    BY <2>1, InsertEntryKept
  <2>4. CASE InsertSession(w)
    <3>1. job'[w].req = job[w].req /\ job'[w].todo = job[w].todo
      BY <2>4, InsertSessionKept
    <3> QED
      BY <2>2, <2>4, <3>1 DEF User
  <2>5. ASSUME job'[w].req = job[w].req, job'[w].todo = job[w].todo,
               job[w].step \in {"commit_session", "get_balance", "insert_entry"}
        PROVE  PaysFor(w, c, s)
    BY <2>2, <2>5 DEF PaysFor, Op, User, Settling
  <2>6. CASE Execute(w) \/ ReadBalance(w)
    <3>1. Execute(w) => job'[w].step = job[w].step
      BY ExecuteKept
    <3>2. ReadBalance(w) => job[w].step = "get_balance"
      BY DEF ReadBalance, Fetch
    <3>3. job'[w].req = job[w].req /\ job'[w].todo = job[w].todo
      BY <2>6, ExecuteKept, ReadBalanceKept
    <3> QED
      BY <2>1, <2>3, <2>5, <2>6, <3>1, <3>2, <3>3
  <2>7. "get_balance" \in Steps
    BY StepTables DEF Steps
  <2>8. CASE CommitTask(w) /\ Goto(w, "get_balance") /\ Op(w) \in {"approve", "undo"}
    <3>1. job'[w].req = job[w].req
      BY <2>7, <2>8, GoesTo
    <3> QED
      BY <2>2, <2>8, <3>1 DEF Op
  <2>9. CASE CommitSession(w) /\ Goto(w, "get_balance")
    <3>1. job'[w].req = job[w].req /\ job'[w].todo = job[w].todo
      BY <2>7, <2>9, GoesTo
    <3>2. job[w].step = "commit_session"
      BY <2>9 DEF CommitSession, Commit
    <3> QED
      BY <2>3, <2>5, <3>1, <3>2
  <2> QED
    BY <1>4, <2>1, <2>4, <2>6, <2>8, <2>9, LeadsTo
<1> QED
  BY <1>2, <1>3, <1>4

-----------------------------------------------------------------------------
(***************************************************************************)
(* One debit per session.                                                  *)
(***************************************************************************)
(* The debits of one session are as its row says.                          *)
DebitsFit(entries, row, s) ==
  \A i, j \in EntriesOf(entries, "debit", s) :
    i = j /\ row.status = "processed" /\ entries[i].amount = row.minutes_covered

(* A statement keeps them so, and no two threads pay for one session.      *)
LEMMA DebitsStep ==
  ASSUME TypeInv, DebitsInv, NEW w \in Workers, Moves(w)
  PROVE  DebitsInv'
<1>1. TablesTyped /\ Grows
  BY MovesKept DEF TypeInv, TypeOK, TablesTyped, Kept
<1> SUFFICES ASSUME NEW c \in Children, NEW s \in Sessions
             PROVE  /\ DebitsFit(ledger'[c], usage'[c][s], s)
                    /\ \A v \in Workers : PaysFor(v, c, s)' =>
                         /\ EntriesOf(ledger'[c], "debit", s) = {}
                         /\ \A other \in Workers : PaysFor(other, c, s)' => other = v
  BY DEF DebitsInv, OneDebitPerSession, DebitsFit, Entries, EntriesOf
<1>2. /\ DebitsFit(ledger[c], usage[c][s], s)
      /\ \A v \in Workers : PaysFor(v, c, s) =>
           /\ EntriesOf(ledger[c], "debit", s) = {}
           /\ \A other \in Workers : PaysFor(other, c, s) => other = v
  BY DEF DebitsInv, OneDebitPerSession, DebitsFit, Entries
<1>3. /\ \A v \in Workers \ {w} : PaysFor(v, c, s)' <=> PaysFor(v, c, s)
      /\ PaysFor(w, c, s)' =>
           \/ PaysFor(w, c, s) /\ ~InsertEntry(w)
           \/ InsertSession(w) /\ c = User(w) /\ s = Head(job[w].todo)
  BY PayersMove
<1>4. CASE InsertEntry(w)
  <2>1. job[w].step = "insert_entry" /\ ~InsertSession(w) /\ usage' = usage
    BY <1>4 DEF InsertEntry, InsertSession, Modify
  <2>2. CASE PaysFor(w, c, s)
    <3>1. /\ Op(w) = "usage" /\ c = User(w) /\ s = Head(job[w].todo)
      BY <2>2 DEF PaysFor
    <3>2. /\ c = ChildOf(w) /\ EntryOf(w).entry_type = "debit" /\ EntryOf(w).source = s
          /\ EntryOf(w).amount = job[w].row.minutes_covered
      BY <2>1, <3>1, EntryType
    <3>3. /\ EntriesOf(ledger'[c], "debit", s) = {Len(ledger[c]) + 1}
          /\ ledger'[c][Len(ledger[c]) + 1].amount = job[w].row.minutes_covered
      <4>1. EntriesOf(ledger[c], "debit", s) = {}
        BY <1>2, <2>2
      <4>2. /\ EntriesOf(ledger'[c], "debit", s) =
                 EntriesOf(ledger[c], "debit", s) \cup {Len(ledger[c]) + 1}
            /\ ledger'[c][Len(ledger[c]) + 1] = EntryOf(w)
        BY <1>4, <3>2, EntryAdded
      <4> QED
        BY <3>2, <4>1, <4>2
    <3>4. /\ usage'[c][s] = job[w].row
          /\ job[w].row.status = "processed"
      <4>1. usage[c][s] = job[w].row /\ RowFits(job[w].row)
        BY <2>2, PayerRecorded
      <4>2. job[w].row.minutes_covered > 0
        BY <2>1, <3>1, AtStep DEF BatchFits, Op, Settling
      <4> QED
        BY <2>1, <4>1, <4>2 DEF RowFits
    <3>5. DebitsFit(ledger'[c], usage'[c][s], s)
      BY <3>3, <3>4 DEF DebitsFit
    <3>6. \A v \in Workers : ~PaysFor(v, c, s)'
      BY <1>2, <1>3, <1>4, <2>1, <2>2
    <3> QED
      BY <3>5, <3>6
  <2>3. CASE ~PaysFor(w, c, s)
    <3>1. ~(c = ChildOf(w) /\ EntryOf(w).entry_type = "debit" /\ EntryOf(w).source = s)
      BY <2>1, <2>3, EntryType DEF PaysFor, Settling
    <3>2. EntriesOf(ledger'[c], "debit", s) = EntriesOf(ledger[c], "debit", s)
      BY <1>4, <3>1, EntryAdded
    <3>3. \A i \in EntriesOf(ledger[c], "debit", s) : ledger'[c][i] = ledger[c][i]
      BY <1>1 DEF Grows, EntriesOf
    <3>4. DebitsFit(ledger'[c], usage'[c][s], s)
      BY <1>2, <2>1, <3>2, <3>3 DEF DebitsFit
    <3> QED
      BY <1>2, <1>3, <2>1, <2>3, <3>2, <3>4
  <2> QED
    BY <2>2, <2>3
<1>5. CASE ~InsertEntry(w)
  <2>1. ledger' = ledger
    BY <1>5, ActionAt DEF tables, InsertTask, UpdateTask, InsertSession
  <2>2. CASE InsertSession(w) /\ c = User(w) /\ s = Head(job[w].todo)
    <3>1. usage[c][s] = NoRow
      BY <2>2 DEF InsertSession, Recorded
    <3>2. EntriesOf(ledger[c], "debit", s) = {}
      BY <1>2, <3>1 DEF DebitsFit, NoRow
    <3>3. \A v \in Workers : ~PaysFor(v, c, s)
      BY <3>1, PayerRecorded
    <3>4. DebitsFit(ledger'[c], usage'[c][s], s)
      BY <2>1, <3>2 DEF DebitsFit
    <3> QED
      BY <1>3, <2>1, <3>2, <3>3, <3>4
  <2>3. CASE ~(InsertSession(w) /\ c = User(w) /\ s = Head(job[w].todo))
    <3>1. usage'[c][s] = usage[c][s]
      <4>1. InsertSession(w) => usage'[c][s] = usage[c][s]
        BY <2>3, InsertSessionKept
      <4>2. ~InsertSession(w) => usage' = usage
        BY <1>5, ActionAt DEF tables, InsertTask, UpdateTask
      <4> QED
        BY <4>1, <4>2
    <3> QED
      BY <1>2, <1>3, <2>1, <2>3, <3>1
  <2> QED
    BY <2>2, <2>3
<1> QED
  BY <1>4, <1>5

(* However many devices or retries report a session at once, it is debited *)
(* at most once, and by the minutes its row says (UNIQUE idempotency_key). *)
THEOREM SessionsDebitedOnce == Spec => []OneDebitPerSession
<1>1. Init => DebitsInv
  <2> SUFFICES ASSUME Init PROVE DebitsInv
    OBVIOUS
  <2>1. PICK db \in Databases : ledger = db.ledger /\ usage = db.usage
    BY DEF Init
  <2>2. OneDebitPerSession
    <3>1. \A c \in Children, s \in Sessions : DebitsFit(db.ledger[c], db.usage[c][s], s)
      <4>1. Consistent(db)
        BY DatabasesAssumption
      <4> SUFFICES ASSUME NEW c \in Children, NEW s \in Sessions
                   PROVE  DebitsFit(db.ledger[c], db.usage[c][s], s)
        OBVIOUS
      <4>2. \A i, j \in EntriesOf(db.ledger[c], "debit", s) :
              /\ i = j
              /\ db.usage[c][s].status = "processed"
              /\ db.ledger[c][i].amount = db.usage[c][s].minutes_covered
        BY <4>1, Zenon DEF Consistent
      <4> QED
        BY <4>2 DEF DebitsFit
    <3> QED
      BY <2>1, <3>1 DEF OneDebitPerSession, DebitsFit, Entries
  <2>3. \A w \in Workers : job[w].step = "idle"
    BY DEF Init, Answered
  <2> QED
    BY <2>2, <2>3 DEF DebitsInv, PaysFor, Settling
<1>2. TypeInv /\ DebitsInv /\ [Next]_vars => DebitsInv'
  <2>1. ASSUME TypeInv, DebitsInv, Next PROVE DebitsInv'
    <3>1. PICK w \in Workers : Moves(w)
      BY <2>1 DEF Next, Moves
    <3> QED
      BY <2>1, <3>1, DebitsStep
  <2>2. DebitsInv /\ UNCHANGED vars => DebitsInv'
    BY DEF DebitsInv, OneDebitPerSession, Entries, PaysFor, Op, User, vars, tables
  <2> QED
    BY <2>1, <2>2
<1>3. DebitsInv => OneDebitPerSession
  BY DEF DebitsInv
<1>4. TypeInv /\ [Next]_vars => TypeInv'
  BY TypeStep
<1> QED
  BY TypeInit, <1>1, <1>2, <1>3, <1>4, PTL DEF Spec

-----------------------------------------------------------------------------
(***************************************************************************)
(* Nothing forgotten.                                                      *)
(***************************************************************************)
(* The type of the entry that a decision owes.                             *)
TypeOwed(op) == IF op = "approve" THEN "credit" ELSE "reversal"

(* Where the thread goes that owes an entry, if nothing fails.             *)
LEMMA OwingMove ==
  ASSUME TypeInv, NEW w \in Workers, Moves(w), failed' = FALSE
  PROVE  /\ job[w].step = "get_balance" =>
              /\ job'[w].step \in {"get_balance", "insert_entry"}
              /\ job'[w].req = job[w].req /\ job'[w].todo = job[w].todo
         /\ job[w].step = "insert_entry" => InsertEntry(w)
         /\ job[w].step = "commit_task" /\ Op(w) \in {"approve", "undo"} =>
              job'[w].step = "get_balance" /\ job'[w].req = job[w].req
         /\ job[w].step = "commit_session" /\ job[w].row.minutes_covered > 0 =>
              /\ job'[w].step = "get_balance"
              /\ job'[w].req = job[w].req /\ job'[w].todo = job[w].todo
<1>1. ~Failing(w)
  <2>1. Failing(w) => failed' = TRUE
    BY ActionAt DEF Fail
  <2> QED
    BY <2>1
<1>2. ASSUME job[w].step = "get_balance"
      PROVE  /\ job'[w].step \in {"get_balance", "insert_entry"}
             /\ job'[w].req = job[w].req /\ job'[w].todo = job[w].todo
  <2>1. Execute(w) \/ ReadBalance(w)
    BY <1>1, <1>2, ActionAt
  <2> QED
    BY <1>2, <2>1, ExecuteKept, ReadBalanceKept
<1>3. job[w].step = "insert_entry" => InsertEntry(w)
  BY <1>1, ActionAt
<1>4. "get_balance" \in Steps
  BY StepTables DEF Steps
<1>5. ASSUME job[w].step = "commit_task", Op(w) \in {"approve", "undo"}
      PROVE  job'[w].step = "get_balance" /\ job'[w].req = job[w].req
  <2>1. Goto(w, "get_balance")
    BY <1>5, ActionAt DEF CommitTask
  <2> QED
    BY <1>4, <2>1, GoesTo
<1>6. ASSUME job[w].step = "commit_session", job[w].row.minutes_covered > 0
      PROVE  /\ job'[w].step = "get_balance"
             /\ job'[w].req = job[w].req /\ job'[w].todo = job[w].todo
  <2>1. Goto(w, "get_balance")
    BY <1>6, ActionAt DEF CommitSession
  <2> QED
    BY <1>4, <2>1, GoesTo
<1> QED
  BY <1>2, <1>3, <1>5, <1>6

(* Whoever pays for a processed session goes on, or inserts its debit.     *)
LEMMA PayerPays ==
  ASSUME TypeInv, NEW w \in Workers, Moves(w), failed' = FALSE,
         NEW c \in Children, NEW s \in Sessions,
         PaysFor(w, c, s), usage[c][s].status = "processed"
  PROVE  PaysFor(w, c, s)' \/ EntriesOf(ledger'[c], "debit", s) # {}
<1>1. /\ Op(w) = "usage" /\ User(w) = c /\ Head(job[w].todo) = s
      /\ job[w].step \in {"commit_session", "get_balance", "insert_entry"}
  BY DEF PaysFor, Settling
<1>2. job[w].row.minutes_covered > 0
  BY PayerRecorded DEF RowFits
<1>3. CASE job[w].step \in {"commit_session", "get_balance"}
  <2>1. /\ job'[w].step \in {"get_balance", "insert_entry"}
        /\ job'[w].req = job[w].req /\ job'[w].todo = job[w].todo
    BY <1>2, <1>3, OwingMove
  <2> QED
    BY <1>1, <2>1 DEF PaysFor, Op, User, Settling
<1>4. CASE job[w].step = "insert_entry"
  <2>1. InsertEntry(w)
    BY <1>4, OwingMove
  <2>2. c = ChildOf(w) /\ EntryOf(w).entry_type = "debit" /\ EntryOf(w).source = s
    BY <1>1, <1>4, EntryType
  <2>3. /\ EntriesOf(ledger'[c], "debit", s) =
             EntriesOf(ledger[c], "debit", s) \cup {Len(ledger[c]) + 1}
        /\ ledger'[c][Len(ledger[c]) + 1] = EntryOf(w)
    BY <2>1, <2>2, EntryAdded
  <2> QED
    BY <2>3
<1> QED
  BY <1>1, <1>3, <1>4

(* Whoever owes a decided task its entry goes on, or inserts it.           *)
LEMMA DebtorPays ==
  ASSUME TypeInv, NEW w \in Workers, Moves(w), failed' = FALSE,
         NEW t \in TaskIds, NEW op \in {"approve", "undo"}, Owes(w, op, t)
  PROVE  Owes(w, op, t)' \/ EntriesOf(ledger'[tasks'[t].child_id], TypeOwed(op), t) # {}
<1>1. Op(w) = op /\ job[w].req.task = t
  BY DEF Owes
<1>2. CASE job[w].step \in {"commit_task", "get_balance"}
  <2>1. job'[w].step \in {"get_balance", "insert_entry"} /\ job'[w].req = job[w].req
    BY <1>1, <1>2, OwingMove
  <2> QED
    BY <1>1, <2>1 DEF Owes, Op
<1>3. CASE job[w].step = "insert_entry"
  <2> DEFINE c == tasks[t].child_id
  <2>1. InsertEntry(w) /\ tasks' = tasks
    BY <1>3, OwingMove DEF InsertEntry
  <2>2. /\ c = ChildOf(w) /\ c \in Children
        /\ EntryOf(w).entry_type = TypeOwed(op) /\ EntryOf(w).source = t
    BY <1>1, <1>3, EntryType DEF TaskOf, TypeOwed
  <2> HIDE DEF c
  <2>3. EntriesOf(ledger'[c], TypeOwed(op), t) =
          EntriesOf(ledger[c], TypeOwed(op), t) \cup {Len(ledger[c]) + 1}
    BY <2>1, <2>2, EntryAdded
  <2> QED
    BY <2>1, <2>3 DEF c
<1> QED
  BY <1>2, <1>3 DEF Owes

(* A status that a statement leaves or sets: set by UPDATE, which then     *)
(* owes the entry, or the task is as it was.                               *)
LEMMA StatusSet ==
  ASSUME TypeInv, NEW w \in Workers, Moves(w), NEW t \in TaskIds,
         NEW op \in {"approve", "undo"}, tasks'[t].status = NewStatus(op)
  PROVE  \/ Owes(w, op, t)'
         \/ tasks[t] # NoTask /\ tasks[t].status = NewStatus(op)
<1>1. NewStatus(op) \in {"approved", "undone"}
  BY DEF NewStatus
<1>2. CASE UpdateTask(w)
  <2>1. tasks'[t].status = (IF t = job[w].req.task THEN NewStatus(Op(w)) ELSE tasks[t].status)
    BY <1>2, UpdateTaskKept
  <2>2. CASE t = job[w].req.task
    <3>1. NewStatus(Op(w)) = NewStatus(op)
      BY <2>1, <2>2
    <3>2. job[w].step = "update_task" /\ Op(w) \in TaskOps
      BY <1>2, AtStep DEF UpdateTask, Modify
    <3>3. Op(w) = op
      BY <3>1, <3>2 DEF NewStatus, TaskOps
    <3>4. job'[w].step = "commit_task" /\ job'[w].req = job[w].req
      <4>1. job \in [Workers -> Job] /\ "commit_task" \in Steps
        BY StepTables DEF TypeInv, TypeOK, Steps
      <4>2. Wrote(w, "task", "commit_task")
        BY <1>2 DEF UpdateTask
      <4> QED
        BY <4>1, <4>2, WroteJob
    <3> QED
      BY <2>2, <3>3, <3>4 DEF Owes, Op
  <2>3. CASE t # job[w].req.task
    BY <1>1, <2>1, <2>3 DEF NoTask
  <2> QED
    BY <2>2, <2>3
<1>3. CASE InsertTask(w)
  <2>1. PICK u \in TaskIds :
          \E row : row.status = "pending" /\ tasks' = [tasks EXCEPT ![u] = row]
    BY <1>3 DEF InsertTask
  <2>2. tasks \in [TaskIds -> Task \cup {NoTask}]
    BY DEF TypeInv, TypeOK
  <2>3. u # t
    BY <1>1, <2>1, <2>2
  <2>4. tasks'[t] = tasks[t]
    BY <2>1, <2>2, <2>3
  <2> QED
    BY <1>1, <2>4 DEF NoTask
<1>4. CASE ~UpdateTask(w) /\ ~InsertTask(w)
  <2>1. tasks' = tasks
    BY <1>4, ActionAt DEF tables, InsertSession, InsertEntry
  <2> QED
    BY <1>1, <2>1 DEF NoTask
<1> QED
  BY <1>2, <1>3, <1>4

(* No statement forgets what is owed, unless a request fails.              *)
LEMMA ForgottenStep ==
  ASSUME TypeInv, NothingForgotten, NEW w \in Workers, Moves(w)
  PROVE  NothingForgotten'
<1>1. TablesTyped /\ Grows /\ JobTyped(w)
  BY MovesKept DEF TypeInv, TypeOK, TablesTyped, Kept
<1>2. failed' \in BOOLEAN /\ (failed => failed')
  <2>1. TypeInv'
    BY MoveKeepsTypes
  <2>2. Shape(w)
    BY MovesShape
  <2> QED
    BY <2>1, <2>2 DEF TypeInv, TypeOK, Shape, Execute, Fetches, Writes, Commits, Fails, Rests,
                      Expire
<1> SUFFICES ASSUME failed' = FALSE
             PROVE  /\ \A t \in TaskIds, op \in {"approve", "undo"} :
                         tasks'[t].status = NewStatus(op) =>
                           \/ EntriesOf(ledger'[tasks'[t].child_id], TypeOwed(op), t) # {}
                           \/ Owed(op, t)'
                    /\ \A c \in Children, s \in Sessions :
                         usage'[c][s].status = "processed" =>
                           \/ EntriesOf(ledger'[c], "debit", s) # {}
                           \/ \E v \in Workers : PaysFor(v, c, s)'
  BY <1>2 DEF NothingForgotten, NewStatus, TypeOwed, Entries, EntriesOf
<1>3. ASSUME NEW c \in Children, NEW entry_type, NEW source,
             EntriesOf(ledger[c], entry_type, source) # {}
      PROVE  EntriesOf(ledger'[c], entry_type, source) # {}
  BY <1>1, <1>3 DEF Grows, EntriesOf
<1>4. ASSUME NEW t \in TaskIds, NEW op \in {"approve", "undo"},
             tasks'[t].status = NewStatus(op)
      PROVE  \/ EntriesOf(ledger'[tasks'[t].child_id], TypeOwed(op), t) # {}
             \/ Owed(op, t)'
  <2>1. CASE Owes(w, op, t)'
    BY <2>1 DEF Owed
  <2>2. CASE tasks[t] # NoTask /\ tasks[t].status = NewStatus(op)
    <3>1. EntriesOf(ledger[tasks[t].child_id], TypeOwed(op), t) # {} \/ Owed(op, t)
      BY <1>2, <2>2 DEF NothingForgotten, NewStatus, TypeOwed, Entries
    <3>2. CASE EntriesOf(ledger[tasks[t].child_id], TypeOwed(op), t) # {}
      <4>1. tasks[t].child_id \in Children /\ tasks'[t].child_id = tasks[t].child_id
        BY <1>1, <2>2 DEF TablesTyped, Task, Grows
      <4> QED
        BY <1>3, <3>2, <4>1
    <3>3. CASE Owed(op, t)
      <4>1. PICK v \in Workers : Owes(v, op, t)
        BY <3>3 DEF Owed
      <4>2. CASE v = w
        BY <4>1, <4>2, DebtorPays DEF Owed
      <4>3. CASE v # w
        <5>1. Owes(v, op, t)'
          BY <1>1, <4>1, <4>3 DEF JobTyped, Others, Owes, Op
        <5> QED
          BY <5>1 DEF Owed
      <4> QED
        BY <4>2, <4>3
    <3> QED
      BY <3>1, <3>2, <3>3
  <2> QED
    BY <1>4, <2>1, <2>2, StatusSet
<1>5. ASSUME NEW c \in Children, NEW s \in Sessions, usage'[c][s].status = "processed"
      PROVE  \/ EntriesOf(ledger'[c], "debit", s) # {}
             \/ \E v \in Workers : PaysFor(v, c, s)'
  <2>1. CASE InsertSession(w) /\ c = User(w) /\ s = Head(job[w].todo)
    <3>1. /\ job'[w].step = "commit_session"
          /\ job'[w].req = job[w].req /\ job'[w].todo = job[w].todo
      BY <2>1, InsertSessionKept
    <3>2. Op(w) = "usage"
      BY <2>1, AtStep DEF InsertSession, Modify
    <3> QED
      BY <2>1, <3>1, <3>2 DEF PaysFor, Op, User, Settling
  <2>2. CASE ~(InsertSession(w) /\ c = User(w) /\ s = Head(job[w].todo))
    <3>1. usage'[c][s] = usage[c][s]
      <4>1. InsertSession(w) => usage'[c][s] = usage[c][s]
        BY <2>2, InsertSessionKept
      <4>2. ~InsertSession(w) => usage' = usage
        BY ActionAt DEF tables, InsertTask, UpdateTask, InsertEntry
      <4> QED
        BY <4>1, <4>2
    <3>2. EntriesOf(ledger[c], "debit", s) # {} \/ \E v \in Workers : PaysFor(v, c, s)
      BY <1>2, <1>5, <3>1 DEF NothingForgotten, Entries
    <3>3. ASSUME NEW v \in Workers, PaysFor(v, c, s)
          PROVE  PaysFor(v, c, s)' \/ EntriesOf(ledger'[c], "debit", s) # {}
      <4>1. CASE v = w
        BY <1>5, <3>1, <3>3, <4>1, PayerPays
      <4>2. CASE v # w
        BY <3>3, <4>2, PayersMove
      <4> QED
        BY <4>1, <4>2
    <3> QED
      BY <1>3, <3>2, <3>3
  <2> QED
    BY <2>1, <2>2
<1> QED
  BY <1>4, <1>5

(* Tasks and sessions without their ledger entry come from requests that   *)
(* were answered 500 and from nothing else.                                *)
THEOREM OnlyErrorsForget == Spec => []ErrorFreeIsAudited
<1>1. Init => NothingForgotten
  <2> SUFFICES ASSUME Init PROVE NothingForgotten
    OBVIOUS
  <2>1. PICK db \in Databases : tasks = db.tasks /\ ledger = db.ledger /\ usage = db.usage
    BY DEF Init
  <2>2. Consistent(db)
    BY DatabasesAssumption
  <2>3. \A t \in TaskIds :
          /\ db.tasks[t].status = "approved" =>
               EntriesOf(db.ledger[db.tasks[t].child_id], "credit", t) # {}
          /\ db.tasks[t].status = "undone" =>
               EntriesOf(db.ledger[db.tasks[t].child_id], "reversal", t) # {}
    BY <2>2, Zenon DEF Consistent
  <2>4. \A c \in Children, s \in Sessions :
          db.usage[c][s].status = "processed" => EntriesOf(db.ledger[c], "debit", s) # {}
    BY <2>2, Zenon DEF Consistent
  <2> QED
    BY <2>1, <2>3, <2>4 DEF NothingForgotten, Entries
<1>2. TypeInv /\ NothingForgotten /\ [Next]_vars => NothingForgotten'
  <2>1. ASSUME TypeInv, NothingForgotten, Next PROVE NothingForgotten'
    <3>1. PICK w \in Workers : Moves(w)
      BY <2>1 DEF Next, Moves
    <3> QED
      BY <2>1, <3>1, ForgottenStep
  <2>2. NothingForgotten /\ UNCHANGED vars => NothingForgotten'
    BY DEF NothingForgotten, Owed, Owes, Entries, PaysFor, Op, User, vars, tables
  <2> QED
    BY <2>1, <2>2
<1>3. NothingForgotten => ErrorFreeIsAudited
  <2> SUFFICES ASSUME NothingForgotten, Quiet, ~failed PROVE ErrorFreeIsAudited
    BY DEF ErrorFreeIsAudited
  <2>1. /\ \A op, t : ~Owed(op, t)
        /\ \A c, s : \A w \in Workers : ~PaysFor(w, c, s)
    BY DEF Quiet, Owed, Owes, PaysFor, Settling
  <2> QED
    BY <2>1 DEF NothingForgotten, ErrorFreeIsAudited
<1>4. TypeInv /\ [Next]_vars => TypeInv'
  BY TypeStep
<1> QED
  BY TypeInit, <1>1, <1>2, <1>3, <1>4, PTL DEF Spec

-----------------------------------------------------------------------------
(***************************************************************************)
(* Settled tasks.                                                          *)
(***************************************************************************)
(* The task is in one of these statuses and whoever has rechecked it and   *)
(* is about to update it carries out one of these operations.              *)
Settled(t, statuses, ops) ==
  /\ tasks[t].status \in statuses
  /\ \A w \in Workers :
       job[w].step = "update_task" /\ job[w].req.task = t => Op(w) \in ops

(* The operations lead from the statuses to the statuses, and no other     *)
(* operation is allowed in them.                                           *)
Closed(statuses, ops) ==
  /\ statuses \subseteq TaskStatus
  /\ \A op \in ops : NewStatus(op) \in statuses
  /\ \A op \in TaskOps : AllowedFrom(op) \in statuses => op \in ops

(* Then the task stays so.                                                 *)
LEMMA SettledStep ==
  ASSUME TypeInv, NEW w \in Workers, Moves(w), NEW t \in TaskIds,
         NEW statuses, NEW ops, Closed(statuses, ops), Settled(t, statuses, ops)
  PROVE  Settled(t, statuses, ops)'
<1>1. tasks'[t].status \in statuses
  <2>1. CASE UpdateTask(w)
    <3>1. tasks'[t].status = (IF t = job[w].req.task THEN NewStatus(Op(w)) ELSE tasks[t].status)
      BY <2>1, UpdateTaskKept
    <3>2. job[w].step = "update_task"
      BY <2>1 DEF UpdateTask, Modify
    <3> QED
      BY <3>1, <3>2 DEF Settled, Closed
  <2>2. CASE InsertTask(w)
    <3>1. PICK u \in TaskIds : tasks[u] = NoTask /\ \E row : tasks' = [tasks EXCEPT ![u] = row]
      BY <2>2 DEF InsertTask
    <3>2. u # t
      BY <3>1 DEF Settled, Closed, NoTask, TaskStatus
    <3>3. tasks \in [TaskIds -> Task \cup {NoTask}]
      BY DEF TypeInv, TypeOK
    <3>4. tasks'[t] = tasks[t]
      BY <3>1, <3>2, <3>3
    <3> QED
      BY <3>4 DEF Settled
  <2>3. CASE ~UpdateTask(w) /\ ~InsertTask(w)
    <3>1. tasks' = tasks
      BY <2>3, ActionAt DEF tables, InsertSession, InsertEntry
    <3> QED
      BY <3>1 DEF Settled
  <2> QED
    BY <2>1, <2>2, <2>3
<1>2. ASSUME NEW v \in Workers, job'[v].step = "update_task", job'[v].req.task = t
      PROVE  job'[v].req.op \in ops
  <2>1. CASE job'[v] = job[v]
    BY <1>2, <2>1 DEF Settled, Op
  <2>2. CASE v = w /\ ~Expire(w)
    <3>1. Recheck(w) /\ Goto(w, "update_task")
      BY <1>2, <2>2, LeadsTo
    <3>2. job'[w].req = job[w].req
      <4>1. "update_task" \in Steps
        BY StepTables DEF Steps
      <4> QED
        BY <3>1, <4>1, GoesTo
    <3>3. TaskCode(Op(w), User(w), TaskOf(w)) = 200
      <4> SUFFICES ASSUME TaskCode(Op(w), User(w), TaskOf(w)) # 200 PROVE FALSE
        OBVIOUS
      <4>1. TaskCode(Op(w), User(w), TaskOf(w)) \in Codes
        BY CodesType DEF Codes
      <4>2. Answer(w, TaskCode(Op(w), User(w), TaskOf(w)))
        BY <3>1 DEF Recheck
      <4> QED
        BY <1>2, <2>2, <4>1, <4>2, GoesTo
    <3>4. TaskOf(w).status = AllowedFrom(Op(w))
      BY <3>3 DEF TaskCode
    <3>5. Op(w) \in TaskOps
      BY <3>1, AtStep DEF Recheck, Fetch
    <3>6. TaskOf(w) = tasks[t]
      BY <1>2, <2>2, <3>2 DEF TaskOf
    <3> QED
      BY <2>2, <3>2, <3>4, <3>5, <3>6 DEF Settled, Closed, Op
  <2>3. v # w \/ Expire(w) => job'[v] = job[v]
    BY MovesKept DEF Kept, JobTyped, Others, Expire
  <2> QED
    BY <2>1, <2>2, <2>3
<1> QED
  BY <1>1, <1>2 DEF Settled, Op

(* Whichever of the threads takes a step.                                  *)
LEMMA StaysSettled ==
  ASSUME NEW t \in TaskIds, NEW statuses, NEW ops, Closed(statuses, ops)
  PROVE  TypeInv /\ Settled(t, statuses, ops) /\ [Next]_vars => Settled(t, statuses, ops)'
<1>1. ASSUME TypeInv, Settled(t, statuses, ops), Next PROVE Settled(t, statuses, ops)'
  <2>1. PICK w \in Workers : Moves(w)
    BY <1>1 DEF Next, Moves
  <2> QED
    BY <1>1, <2>1, SettledStep
<1>2. Settled(t, statuses, ops) /\ UNCHANGED vars => Settled(t, statuses, ops)'
  BY DEF Settled, Op, vars, tables
<1> QED
  BY <1>1, <1>2

(* A decision taken while no other request was being handled is final: no  *)
(* later request, and none sent twice, decides the task anew or reopens it.*)
THEOREM DecisionsFinal == Spec => SettledStays
<1> SUFFICES ASSUME NEW t \in TaskIds
             PROVE  Spec =>
               /\ [](Quiet /\ tasks[t].status = "approved"
                       => [](tasks[t].status \in {"approved", "undone"}))
               /\ [](Quiet /\ tasks[t].status = "rejected" => [](tasks[t].status = "rejected"))
               /\ [](Quiet /\ tasks[t].status = "undone" => [](tasks[t].status = "undone"))
  BY DEF SettledStays
<1>1. /\ Closed({"approved", "undone"}, {"undo"})
      /\ Closed({"rejected"}, {}) /\ Closed({"undone"}, {})
  BY DEF Closed, TaskStatus, TaskOps, NewStatus, AllowedFrom
<1>2. Quiet => \A w \in Workers : job[w].step # "update_task"
  BY DEF Quiet
<1>3. TypeInv /\ Settled(t, {"approved", "undone"}, {"undo"}) /\ [Next]_vars
        => Settled(t, {"approved", "undone"}, {"undo"})'
  BY <1>1, StaysSettled
<1>4. TypeInv /\ Settled(t, {"rejected"}, {}) /\ [Next]_vars => Settled(t, {"rejected"}, {})'
  BY <1>1, StaysSettled
<1>5. TypeInv /\ Settled(t, {"undone"}, {}) /\ [Next]_vars => Settled(t, {"undone"}, {})'
  BY <1>1, StaysSettled
<1>6. /\ Quiet /\ tasks[t].status = "approved" => Settled(t, {"approved", "undone"}, {"undo"})
      /\ Quiet /\ tasks[t].status = "rejected" => Settled(t, {"rejected"}, {})
      /\ Quiet /\ tasks[t].status = "undone" => Settled(t, {"undone"}, {})
  BY <1>2 DEF Settled
<1>7. /\ Settled(t, {"approved", "undone"}, {"undo"}) => tasks[t].status \in {"approved", "undone"}
      /\ Settled(t, {"rejected"}, {}) => tasks[t].status = "rejected"
      /\ Settled(t, {"undone"}, {}) => tasks[t].status = "undone"
  BY DEF Settled
<1>8. TypeInv /\ [Next]_vars => TypeInv'
  BY TypeStep
<1> QED
  BY TypeInit, <1>3, <1>4, <1>5, <1>6, <1>7, <1>8, PTL DEF Spec
=============================================================================
