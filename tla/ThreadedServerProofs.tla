------------------------ MODULE ThreadedServerProofs ------------------------
(***************************************************************************)
(* Theorems about ThreadedServer: what survives every interleaving of the  *)
(* statements of any number of threads and requests.                       *)
(***************************************************************************)
EXTENDS ThreadedServer, RewardBankDataProofs

(***************************************************************************)
(* Where a handler may be, and what it holds there.                        *)
(***************************************************************************)
StepsOf(op) ==
  CASE op = "create" -> {"check_child", "insert_task", "commit_task"}
    [] op \in {"done", "reject"} ->
         {"get_task", "check_family", "recheck", "update_task", "commit_task"}
    [] op \in {"approve", "undo"} ->
         {"get_task", "check_family", "recheck", "update_task", "commit_task",
          "get_balance", "insert_entry", "commit_entry"}
    [] op = "usage" ->
         {"find", "cover", "insert_session", "commit_session",
          "get_balance", "insert_entry", "commit_entry"}
    [] op = "balance" -> {"check_access", "view"}
    [] op = "ledger"  -> {"check_access", "history", "last", "sum"}
    [] OTHER          -> {"respond"}

(* The steps at which a handler may still refuse the request.              *)
Checking == {"check_child", "get_task", "check_family", "recheck", "check_access"}

(* The steps from a session's row to its debit's commit.                   *)
Settling == {"commit_session", "get_balance", "insert_entry", "commit_entry"}

RowFits(row) ==
  /\ row \in UsageSession
  /\ row.status = "processed" <=> row.minutes_covered > 0

(* A running handler has passed the door, is at a step of its own, and has *)
(* not answered.                                                           *)
Admitted(j) ==
  /\ j.req \in Menu
  /\ DoorCode(j.req) = 200
  /\ j.step \in StepsOf(j.req.op)
  /\ j.code = 0
  /\ j.step \in Checking => j.wrote = {}

(* What POST /tasks, the task transitions and the views have found.        *)
TaskFound(j) ==
  /\ j.step = "insert_task" => CreateCode(j.req.user, j.req.child, j.req.reward) = 201
  /\ j.req.op \in TaskOps /\ j.step # "get_task" => tasks[j.req.task] # NoTask
  /\ j.req.op \in {"balance", "ledger"} /\ j.step # "check_access" =>
       BalanceViewCode(j.req.user, j.req.child) = 200

(* POST /usage: the sessions that are left are valid, each one before them *)
(* is recorded, and the row written for the first is the one recorded.     *)
BatchFits(j) ==
  j.req.op = "usage" =>
    /\ j.todo # <<>>
    /\ \A i \in DOMAIN j.todo : EndsAfterStart(j.todo[i])
    /\ \A i \in DOMAIN j.req.sessions :
         \/ Recorded(j.req.user, j.req.sessions[i])
         \/ \E k \in DOMAIN j.todo : j.todo[k] = j.req.sessions[i]
    /\ j.step \in {"insert_session"} \cup Settling => RowFits(j.row)
    /\ j.step \in Settling => usage[j.req.user][Head(j.todo)] = j.row
    /\ j.step \in Settling \ {"commit_session"} => j.row.minutes_covered > 0

Running(w) ==
  /\ job[w].fetching => job[w].step \in DOMAIN ReadAt
  /\ job[w].step # "idle" => Admitted(job[w]) /\ TaskFound(job[w]) /\ BatchFits(job[w])

TypeInv == TypeOK /\ \A w \in Workers : Running(w)

-----------------------------------------------------------------------------
(***************************************************************************)
(* The locks the handlers hold.                                            *)
(***************************************************************************)
(* A SELECT that is not fetched yet holds its read lock; a write that is   *)
(* not committed yet makes its connection the writer, with the lock of its *)
(* table, which no other connection reads.                                 *)
LocksHeld ==
  \A w \in Workers :
    /\ job[w].fetching => ReadAt[job[w].step] \in locks.reads[w]
    /\ job[w].step \in DOMAIN CommitOf =>
         /\ locks.writer = w
         /\ CommitOf[job[w].step] \in locks.writes
         /\ \A other \in Workers \ {w} : CommitOf[job[w].step] \notin locks.reads[other]

(* Python's transactions: open between a write and its commit, else only   *)
(* on a connection whose statement failed.                                 *)
BegunByErrors ==
  \A w \in Workers :
    w \in locks.begun /\ job[w].step \notin DOMAIN CommitOf =>
      failed /\ (job[w].wrote = {} \/ job[w].code = 500)

(* What a request has promised when its entry is written, and when it has  *)
(* been answered 200.                                                      *)
EntryIn(table, entries, q) ==
  /\ q.op \in {"approve", "undo"} => table[q.task] # NoTask
  /\ q.op = "approve" => EntriesOf(entries[table[q.task].child_id], "credit", q.task) # {}
  /\ q.op = "undo" => EntriesOf(entries[table[q.task].child_id], "reversal", q.task) # {}

RowsIn(rows, q) ==
  q.op = "usage" => \A i \in DOMAIN q.sessions : rows[q.user][q.sessions[i]] # NoRow

Succeeded(w) == job[w].step = "idle" /\ job[w].code = 200

Promised(w) ==
  LET q == job[w].req
  IN  /\ job[w].step = "commit_entry" \/ Succeeded(w) => EntryIn(tasks, ledger, q)
      /\ Succeeded(w) => q \in Menu /\ DoorCode(q) = 200 /\ RowsIn(usage, q)

Promises == \A w \in Workers : Promised(w)

-----------------------------------------------------------------------------
(***************************************************************************)
(* Lemmas about the definitions.                                           *)
(***************************************************************************)

(* The statements a handler's steps stand for.                             *)
LEMMA StepTables ==
  /\ DOMAIN ReadAt = {"check_child", "check_family", "check_access",
                      "get_task", "recheck", "find", "cover", "get_balance", "view",
                      "history", "last", "sum"}
  /\ DOMAIN WriteAt = {"insert_task", "update_task", "insert_session", "insert_entry"}
  /\ DOMAIN CommitOf = {"commit_task", "commit_session", "commit_entry"}
  /\ \A step \in DOMAIN ReadAt : ReadAt[step] \in Tables
  /\ \A step \in DOMAIN WriteAt : WriteAt[step] \in Tables
BY DEF ReadAt, WriteAt, CommitOf, Tables

(* A handler's steps are steps, and none is idle.                          *)
LEMMA StepsOfSteps == \A op : StepsOf(op) \subseteq Steps \ {"idle"}
BY StepTables DEF StepsOf, Steps

(* A list without its head.                                                *)
LEMMA TailOf ==
  ASSUME NEW T, NEW s \in Seq(T), s # <<>>
  PROVE  /\ Tail(s) \in Seq(T) /\ Head(s) \in T
         /\ Len(s) # 1 => Tail(s) # <<>>
         /\ \A i \in DOMAIN Tail(s) : \E k \in DOMAIN s : Tail(s)[i] = s[k]
         /\ \A k \in DOMAIN s : s[k] = Head(s) \/ \E i \in DOMAIN Tail(s) : Tail(s)[i] = s[k]
         /\ Len(s) = 1 => \A k \in DOMAIN s : s[k] = Head(s)
         /\ \E k \in DOMAIN s : s[k] = Head(s)
<1>1. Len(s) \in Nat \ {0} /\ Len(Tail(s)) = Len(s) - 1 /\ DOMAIN s = 1..Len(s)
  OBVIOUS
<1>2. Tail(s) \in Seq(T) /\ DOMAIN Tail(s) = 1..(Len(s) - 1)
  BY <1>1
<1>3. \A i \in DOMAIN Tail(s) : i + 1 \in DOMAIN s /\ Tail(s)[i] = s[i + 1]
  BY <1>1, <1>2
<1>4. \A k \in DOMAIN s : k # 1 => k - 1 \in DOMAIN Tail(s) /\ Tail(s)[k - 1] = s[k]
  BY <1>1, <1>2
<1>5. Head(s) = s[1] /\ 1 \in DOMAIN s /\ Head(s) \in T
  BY <1>1
<1>6. Len(s) # 1 => Tail(s) # <<>>
  <2> SUFFICES ASSUME Len(s) # 1 PROVE Len(Tail(s)) # 0
    OBVIOUS
  <2> QED
    BY <1>1
<1>7. Len(s) = 1 => \A k \in DOMAIN s : k = 1
  BY <1>1
<1> QED
  BY <1>2, <1>3, <1>4, <1>5, <1>6, <1>7

(* What a request that passed the door carries.                            *)
LEMMA AdmittedForm ==
  ASSUME NEW q \in Menu, DoorCode(q) = 200
  PROVE  /\ q.op = "create" => /\ q.user \in Users /\ q.child \in Users \cup {Stranger}
                               /\ q.reward \in Int
         /\ q.op \in TaskOps => q.user \in Users /\ q.task \in TaskIds
         /\ q.op = "usage" => /\ q.user \in Children
                              /\ q.sessions \in Seq(Sessions) /\ q.sessions # <<>>
                              /\ \A i \in DOMAIN q.sessions : EndsAfterStart(q.sessions[i])
         /\ q.op \in {"balance", "ledger"} => q.user \in Users
         /\ q.op = "ledger" => RoleOf[q.user] = "parent"
         /\ q.op = "balance" => RoleOf[q.user] = "parent" \/ BalanceViewCode(q.user, q.child) = 200
         /\ q.op \in {"create", "usage", "balance", "ledger", "health"} \cup TaskOps
<1>1. q \in RequestForms
  BY MenuAssumption
<1>2. q.op \in {"create", "usage", "balance", "ledger", "health"} \cup TaskOps
  <2>1. q.op # "no_header"
    BY HeaderAssumption DEF DoorCode
  <2> QED
    BY <1>1, <2>1 DEF RequestForms
<1>3. q.op # "health" => q.user \in Users
  <2>1. q.op # "health" => q.user # Stranger
    BY <1>2 DEF DoorCode, TaskOps
  <2> QED
    BY <1>1, <1>2, <2>1 DEF RequestForms
<1>4. q.op = "create" => q.child \in Users \cup {Stranger} /\ q.reward \in Int
  BY <1>1 DEF RequestForms, TaskOps
<1>5. q.op \in TaskOps => q.task \in TaskIds
  BY <1>1 DEF RequestForms, TaskOps
<1>6. ASSUME q.op = "usage"
      PROVE  /\ q.user \in Children
             /\ q.sessions \in Seq(Sessions) /\ q.sessions # <<>>
             /\ \A i \in DOMAIN q.sessions : EndsAfterStart(q.sessions[i])
  <2>1. q.sessions \in Seq(Sessions)
    BY <1>1, <1>6 DEF RequestForms, TaskOps
  <2>2. UsageCode(q.user, q.sessions) = 200
    BY <1>3, <1>6 DEF DoorCode, TaskOps
  <2>3. RoleOf[q.user] = "child" /\ q.sessions # <<>>
    BY <2>2 DEF UsageCode
  <2>4. \A i \in DOMAIN q.sessions : SessionCode(q.sessions[i]) = 200
    BY <2>2 DEF UsageCode
  <2> QED
    BY <1>3, <1>6, <2>1, <2>3, <2>4 DEF SessionCode, Children
<1>7. q.op = "ledger" => RoleOf[q.user] = "parent"
  BY <1>3 DEF DoorCode, TaskOps
<1>8. q.op = "balance" => RoleOf[q.user] = "parent" \/ BalanceViewCode(q.user, q.child) = 200
  BY <1>3, UsersAssumption DEF DoorCode, TaskOps
<1> QED
  BY <1>2, <1>3, <1>4, <1>5, <1>6, <1>7, <1>8 DEF TaskOps

Codes == {0, 200, 201, 400, 401, 403, 404, 422, 500}

(* Every code is one of Codes, and those before the first write are no     *)
(* successes of the handler as a whole.                                    *)
LEMMA CodesType ==
  /\ \A q \in Menu : DoorCode(q) \in Codes \ {0, 201}
  /\ \A user, child, m : CreateCode(user, child, m) \in Codes \ {0}
  /\ \A user, child : BalanceViewCode(user, child) \in {200, 403, 404}
  /\ \A op, user, task : AccessCode(op, user, task) \in {200, 403, 404}
  /\ \A op, user, task : TaskCode(op, user, task) \in {200, 400, 403, 404}
<1>1. \A op, user, task : AccessCode(op, user, task) \in {200, 403, 404}
  BY DEF AccessCode
<1>2. \A op, user, task : TaskCode(op, user, task) \in {200, 400, 403, 404}
  BY <1>1 DEF TaskCode
<1>3. \A user, child, m : CreateCode(user, child, m) \in Codes \ {0}
  BY DEF CreateCode, Codes
<1>4. ASSUME NEW q \in Menu
      PROVE  DoorCode(q) \in Codes \ {0, 201}
  <2>1. q.op \in {"create", "usage", "balance", "ledger", "health", "no_header"} \cup TaskOps
    BY MenuAssumption DEF RequestForms
  <2>2. UsageCode(q.user, q.sessions) \in Codes \ {0, 201}
    BY DEF UsageCode, Codes
  <2>3. BalanceViewCode(q.user, q.child) \in Codes \ {0, 201}
    BY DEF BalanceViewCode, Codes
  <2>4. {200, 401, 403, 422, NoHeaderCode} \subseteq Codes \ {0, 201}
    BY HeaderAssumption DEF Codes
  <2> QED
    BY <2>1, <2>2, <2>3, <2>4 DEF DoorCode, TaskOps
<1>5. \A user, child : BalanceViewCode(user, child) \in {200, 403, 404}
  BY DEF BalanceViewCode
<1> QED
  BY <1>1, <1>2, <1>3, <1>4, <1>5

-----------------------------------------------------------------------------
(***************************************************************************)
(* What the updates of a thread's job do to it, and to no other.           *)
(***************************************************************************)
Others(w) == \A v \in Workers : v # w => job'[v] = job[v]

JobTyped(w) == job' \in [Workers -> Job] /\ Others(w)

(* A job stays a job when a field of it is given another value.            *)
LEMMA JobFields ==
  ASSUME NEW a \in Job
  PROVE  /\ \A x \in Steps : [a EXCEPT !.step = x] \in Job
         /\ \A x \in BOOLEAN : [a EXCEPT !.fetching = x] \in Job
         /\ \A x \in Seq(Sessions) : [a EXCEPT !.todo = x] \in Job
         /\ \A x \in Int : [a EXCEPT !.read = x] \in Job
         /\ \A x \in UsageSession \cup {NoRow} : [a EXCEPT !.row = x] \in Job
         /\ \A x \in SUBSET {"task", "session", "entry"} : [a EXCEPT !.wrote = x] \in Job
         /\ \A x \in BOOLEAN : [a EXCEPT !.holds = x] \in Job
<1>1. \A x \in Steps : [a EXCEPT !.step = x] \in Job
  BY DEF Job
<1>2. \A x \in BOOLEAN : [a EXCEPT !.fetching = x] \in Job
  BY DEF Job
<1>3. \A x \in Seq(Sessions) : [a EXCEPT !.todo = x] \in Job
  BY DEF Job
<1>4. \A x \in Int : [a EXCEPT !.read = x] \in Job
  BY DEF Job
<1>5. \A x \in UsageSession \cup {NoRow} : [a EXCEPT !.row = x] \in Job
  BY DEF Job
<1>6. \A x \in SUBSET {"task", "session", "entry"} : [a EXCEPT !.wrote = x] \in Job
  BY DEF Job
<1>7. \A x \in BOOLEAN : [a EXCEPT !.holds = x] \in Job
  BY DEF Job
<1> QED
  BY <1>1, <1>2, <1>3, <1>4, <1>5, <1>6, <1>7

(* A thread that has answered, or not begun to, has a job.                 *)
LEMMA AnsweredJob ==
  ASSUME NEW q \in Menu \cup {NoRequest}, NEW code \in Codes
  PROVE  Answered(q, code) \in Job
BY DEF Answered, Job, Steps, Codes

(* A thread that gets another job leaves the others theirs.                *)
LEMMA SetJob ==
  ASSUME job \in [Workers -> Job], NEW w \in Workers, NEW j \in Job,
         job' = [job EXCEPT ![w] = j]
  PROVE  JobTyped(w) /\ job'[w] = j
BY DEF JobTyped, Others

(* The thread goes to another step of its handler.                         *)
LEMMA GotoJob ==
  ASSUME job \in [Workers -> Job], NEW w \in Workers, NEW step \in Steps, Goto(w, step)
  PROVE  /\ JobTyped(w)
         /\ job'[w].step = step /\ job'[w].fetching = FALSE
         /\ job'[w].req = job[w].req /\ job'[w].todo = job[w].todo
         /\ job'[w].row = job[w].row /\ job'[w].wrote = job[w].wrote
         /\ job'[w].code = job[w].code
<1> DEFINE a == [job[w] EXCEPT !.step = step]
           j == [a EXCEPT !.fetching = FALSE]
<1>1. job' = [job EXCEPT ![w] = j]
  BY DEF Goto
<1>2. job[w] \in Job
  OBVIOUS
<1>3. a \in Job
  BY <1>2, JobFields
<1>4. j \in Job
  <2> HIDE DEF a
  <2> QED
    BY <1>3, JobFields
<1>5. /\ j.step = step /\ j.fetching = FALSE
      /\ j.req = job[w].req /\ j.todo = job[w].todo
      /\ j.row = job[w].row /\ j.wrote = job[w].wrote
      /\ j.code = job[w].code
  BY <1>2 DEF Job
<1> HIDE DEF a, j
<1> QED
  BY <1>1, <1>4, <1>5, SetJob

(* The thread has written something of its handler.                        *)
LEMMA WroteJob ==
  ASSUME job \in [Workers -> Job], NEW w \in Workers, NEW step \in Steps,
         NEW what \in {"task", "session", "entry"}, Wrote(w, what, step)
  PROVE  /\ JobTyped(w)
         /\ job'[w].step = step /\ job'[w].fetching = job[w].fetching
         /\ job'[w].req = job[w].req /\ job'[w].todo = job[w].todo
         /\ job'[w].row = job[w].row /\ what \in job'[w].wrote
         /\ job'[w].code = job[w].code
<1> DEFINE x == job[w].wrote \cup {what}
           a == [job[w] EXCEPT !.step = step]
           j == [a EXCEPT !.wrote = x]
<1>1. job' = [job EXCEPT ![w] = j]
  BY DEF Wrote
<1>2. job[w] \in Job /\ x \in SUBSET {"task", "session", "entry"}
  <2>1. job[w] \in Job
    OBVIOUS
  <2> QED
    BY <2>1 DEF Job
<1>3. a \in Job
  BY <1>2, JobFields
<1>4. j \in Job
  <2> HIDE DEF a, x
  <2> QED
    BY <1>2, <1>3, JobFields
<1>5. /\ j.step = step /\ j.fetching = job[w].fetching
      /\ j.req = job[w].req /\ j.todo = job[w].todo
      /\ j.row = job[w].row /\ what \in j.wrote
      /\ j.code = job[w].code
  BY <1>2 DEF Job
<1> HIDE DEF a, j, x
<1> QED
  BY <1>1, <1>4, <1>5, SetJob

(* The thread answers and is idle.                                         *)
LEMMA AnswerJob ==
  ASSUME job \in [Workers -> Job], NEW w \in Workers, NEW code \in Codes, Answer(w, code)
  PROVE  /\ JobTyped(w)
         /\ job'[w].step = "idle" /\ job'[w].fetching = FALSE
         /\ job'[w].req = job[w].req /\ job'[w].wrote = job[w].wrote
         /\ job'[w].code = code
<1> DEFINE a == Answered(job[w].req, code)
           x == job[w].wrote
           j == [a EXCEPT !.wrote = x]
<1>1. job' = [job EXCEPT ![w] = j]
  BY DEF Answer
<1>2. /\ job[w].req \in Menu \cup {NoRequest}
      /\ x \in SUBSET {"task", "session", "entry"}
  <2>1. job[w] \in Job
    OBVIOUS
  <2> QED
    BY <2>1 DEF Job
<1>3. a \in Job
  BY <1>2, AnsweredJob
<1>4. j \in Job
  <2> HIDE DEF a, x
  <2> QED
    BY <1>2, <1>3, JobFields
<1>5. /\ j.step = "idle" /\ j.fetching = FALSE
      /\ j.req = job[w].req /\ j.wrote = x
      /\ j.code = code
  BY DEF Answered
<1> HIDE DEF a, j
<1> QED
  BY <1>1, <1>4, <1>5, SetJob

(* The thread goes to the next session, or answers after the last.         *)
LEMMA NextSessionJob ==
  ASSUME job \in [Workers -> Job], NEW w \in Workers, job[w].todo # <<>>, NextSession(w)
  PROVE  /\ JobTyped(w)
         /\ job'[w].fetching = FALSE
         /\ job'[w].req = job[w].req /\ job'[w].wrote = job[w].wrote
         /\ \/ /\ job'[w].step = "idle" /\ job'[w].code = 200
               /\ Len(job[w].todo) = 1
            \/ /\ job'[w].step = "find" /\ job'[w].code = job[w].code
               /\ job'[w].todo = Tail(job[w].todo) /\ job'[w].todo # <<>>
<1>1. CASE Len(job[w].todo) = 1
  <2>1. Answer(w, 200) /\ 200 \in Codes
    BY <1>1 DEF NextSession, Codes
  <2>2. /\ JobTyped(w)
        /\ job'[w].step = "idle" /\ job'[w].fetching = FALSE
        /\ job'[w].req = job[w].req /\ job'[w].wrote = job[w].wrote
        /\ job'[w].code = 200
    BY <2>1, AnswerJob
  <2> QED
    BY <1>1, <2>2
<1>2. CASE Len(job[w].todo) # 1
  <2> DEFINE rest == Tail(job[w].todo)
             a == [job[w] EXCEPT !.todo = rest]
             b == [a EXCEPT !.step = "find"]
             c == [b EXCEPT !.fetching = FALSE]
             d == [c EXCEPT !.row = NoRow]
             j == [d EXCEPT !.read = 0]
  <2>1. job' = [job EXCEPT ![w] = j]
    BY <1>2 DEF NextSession
  <2>2. job[w] \in Job /\ job[w].todo \in Seq(Sessions)
    <3>1. job[w] \in Job
      OBVIOUS
    <3> QED
      BY <3>1 DEF Job
  <2>3. rest \in Seq(Sessions) /\ rest # <<>>
    BY <1>2, <2>2, TailOf
  <2>4. "find" \in Steps
    BY StepTables DEF Steps
  <2>5. j \in Job
    <3> HIDE DEF rest
    <3>1. a \in Job
      BY <2>2, <2>3, JobFields
    <3> HIDE DEF a
    <3>2. b \in Job
      BY <2>4, <3>1, JobFields
    <3> HIDE DEF b
    <3>3. c \in Job
      BY <3>2, JobFields
    <3> HIDE DEF c
    <3>4. d \in Job
      BY <3>3, JobFields
    <3> HIDE DEF d
    <3> QED
      BY <3>4, JobFields
  <2>6. /\ j.step = "find" /\ j.fetching = FALSE
        /\ j.req = job[w].req /\ j.wrote = job[w].wrote
        /\ j.todo = rest /\ j.code = job[w].code
    BY <2>2 DEF Job
  <2> HIDE DEF j
  <2> QED
    BY <2>1, <2>3, <2>5, <2>6, SetJob
<1> QED
  BY <1>1, <1>2

-----------------------------------------------------------------------------
(***************************************************************************)
(* Types.                                                                  *)
(***************************************************************************)

(* The statements keep the lock record's type.                             *)
LEMMA LockTypes ==
  ASSUME NEW lk \in Locks, NEW k \in Workers
  PROVE  /\ Release(lk, k) \in Locks
         /\ EndStatement(lk, k) \in Locks
         /\ \A table \in Tables : Read(lk, k, table) \in Locks
         /\ ReadRefused(lk, k) \in Locks
         /\ \A table \in Tables : Write(lk, k, table) \in Locks
         /\ WriteRefused(lk, k) \in Locks
         /\ [lk EXCEPT !.begun = lk.begun \cup {k}] \in Locks
<1>1. Release(lk, k) \in Locks
  BY DEF Release, Locks
<1>2. EndStatement(lk, k) \in Locks
  BY <1>1 DEF EndStatement
<1>3. ASSUME NEW table \in Tables
      PROVE  Read(lk, k, table) \in Locks
  <2> DEFINE a == [lk EXCEPT !.open = lk.open \cup {k}]
             b == [a EXCEPT !.reads[k] = a.reads[k] \cup {table}]
  <2>1. a \in Locks
    BY DEF Locks
  <2>2. b \in Locks
    <3> HIDE DEF a
    <3> QED
      BY <2>1 DEF Locks
  <2> QED
    BY <2>2 DEF Read
<1>4. ReadRefused(lk, k) \in Locks
  BY DEF ReadRefused, Locks
<1>5. ASSUME NEW table \in Tables
      PROVE  Write(lk, k, table) \in Locks
  BY DEF Write, Locks
<1>6. WriteRefused(lk, k) \in Locks
  BY DEF WriteRefused, Locks
<1>7. [lk EXCEPT !.begun = lk.begun \cup {k}] \in Locks
  BY DEF Locks
<1> QED
  BY <1>1, <1>2, <1>3, <1>4, <1>5, <1>6, <1>7

(* Tables only grow: no row is deleted, a task keeps its child and reward, *)
(* a ledger keeps its entries, a session its row.                          *)
Grows ==
  /\ \A t \in TaskIds : tasks[t] # NoTask =>
       /\ tasks'[t] # NoTask
       /\ tasks'[t].child_id = tasks[t].child_id
       /\ tasks'[t].reward_minutes = tasks[t].reward_minutes
  /\ \A c \in Children : \A i \in DOMAIN ledger[c] :
       i \in DOMAIN ledger'[c] /\ ledger'[c][i] = ledger[c][i]
  /\ \A c \in Children, s \in Sessions :
       usage[c][s] # NoRow => usage'[c][s] = usage[c][s]

(* A statement that writes nothing lets nothing go.                        *)
LEMMA UnchangedGrows == UNCHANGED tables => Grows
BY DEF tables, Grows

(* A handler that takes no step stays where it may be.                     *)
LEMMA OthersRun ==
  ASSUME TypeInv, Grows, NEW v \in Workers, job'[v] = job[v]
  PROVE  Running(v)'
<1> DEFINE j == job[v]
           q == j.req
<1>1. Running(v) /\ j \in Job
  BY DEF TypeInv, TypeOK
<1>2. CASE j.step = "idle"
  BY <1>1, <1>2 DEF Running
<1>3. CASE j.step # "idle"
  <2>1. Admitted(j) /\ TaskFound(j) /\ BatchFits(j)
    BY <1>1, <1>3 DEF Running
  <2>2. q \in Menu /\ DoorCode(q) = 200
    BY <2>1 DEF Admitted
  <2>3. TaskFound(j)'
    <3>1. q.op \in TaskOps => q.task \in TaskIds
      BY <2>2, AdmittedForm
    <3> QED
      BY <2>1, <3>1 DEF TaskFound, Grows
  <2>4. BatchFits(j)'
    <3> SUFFICES ASSUME q.op = "usage" PROVE BatchFits(j)'
      BY DEF BatchFits
    <3>1. /\ q.user \in Children /\ q.sessions \in Seq(Sessions)
          /\ j.todo \in Seq(Sessions) /\ j.todo # <<>>
      BY <1>1, <2>1, <2>2, AdmittedForm DEF BatchFits, Job
    <3>2. Head(j.todo) \in Sessions /\ \A i \in DOMAIN q.sessions : q.sessions[i] \in Sessions
      BY <3>1, TailOf
    <3>3. \A i \in DOMAIN q.sessions :
            Recorded(q.user, q.sessions[i]) => Recorded(q.user, q.sessions[i])'
      BY <3>1, <3>2 DEF Recorded, Grows
    <3>4. j.step \in Settling => usage'[q.user][Head(j.todo)] = j.row
      <4> SUFFICES ASSUME j.step \in Settling PROVE usage'[q.user][Head(j.todo)] = j.row
        OBVIOUS
      <4>1. usage[q.user][Head(j.todo)] = j.row /\ RowFits(j.row)
        BY <2>1 DEF BatchFits
      <4>2. j.row # NoRow
        BY <4>1 DEF RowFits, UsageSession, NoRow
      <4> QED
        BY <3>1, <3>2, <4>1, <4>2 DEF Grows
    <3> QED
      BY <2>1, <3>3, <3>4 DEF BatchFits
  <2>5. Admitted(j)'
    BY <2>1 DEF Admitted
  <2>6. j' = j
    OBVIOUS
  <2> QED
    BY <1>1, <2>3, <2>4, <2>5, <2>6 DEF Running
<1> QED
  BY <1>2, <1>3

(* The tables alone.                                                       *)
TablesTyped ==
  /\ tasks \in [TaskIds -> Task \cup {NoTask}]
  /\ ledger \in [Children -> Seq(LedgerEntry)]
  /\ usage \in [Children -> [Sessions -> UsageSession \cup {NoRow}]]

(* What a step of w does to its job and to the tables.                     *)
Kept(w) == TablesTyped' /\ Grows /\ JobTyped(w) /\ Running(w)'

(* Where a handler is says what it handles.                                *)
LEMMA AtStep ==
  ASSUME TypeInv, NEW w \in Workers, job[w].step # "idle"
  PROVE  /\ job[w] \in Job /\ TablesTyped
         /\ Admitted(job[w]) /\ TaskFound(job[w]) /\ BatchFits(job[w])
         /\ job[w].step \in {"check_child", "insert_task"} => Op(w) = "create"
         /\ job[w].step \in {"get_task", "check_family", "recheck", "update_task"}
              => Op(w) \in TaskOps
         /\ job[w].step = "commit_task" => Op(w) \in {"create"} \cup TaskOps
         /\ job[w].step \in {"get_balance", "insert_entry", "commit_entry"}
              => Op(w) \in {"approve", "undo", "usage"}
         /\ job[w].step \in {"find", "cover", "insert_session", "commit_session"}
              => Op(w) = "usage"
         /\ job[w].step = "check_access" => Op(w) \in {"balance", "ledger"}
         /\ job[w].step = "view" => Op(w) = "balance"
         /\ job[w].step \in {"history", "last", "sum"} => Op(w) = "ledger"
         /\ job[w].step = "respond" => Op(w) = "health"
<1>1. /\ job[w] \in Job /\ TablesTyped
      /\ Admitted(job[w]) /\ TaskFound(job[w]) /\ BatchFits(job[w])
  BY DEF TypeInv, TypeOK, Running, TablesTyped
<1>2. /\ job[w].step \in StepsOf(Op(w))
      /\ Op(w) \in {"create", "usage", "balance", "ledger", "health"} \cup TaskOps
  BY <1>1, AdmittedForm DEF Admitted, Op
<1> QED
  BY <1>1, <1>2 DEF StepsOf, TaskOps

(* The thread answers: nothing of its handler is left to run.              *)
LEMMA AnswerKept ==
  ASSUME TypeInv, NEW w \in Workers, NEW code \in Codes, Answer(w, code),
         TablesTyped', Grows
  PROVE  Kept(w)
<1>1. job \in [Workers -> Job]
  BY DEF TypeInv, TypeOK
<1>2. JobTyped(w) /\ job'[w].step = "idle" /\ job'[w].fetching = FALSE
  BY <1>1, AnswerJob
<1> QED
  BY <1>2 DEF Kept, Running

(* The handler goes on, past its checks or between them.                   *)
LEMMA GoesOnKept ==
  ASSUME TypeInv, NEW w \in Workers, job[w].step # "idle",
         TablesTyped', Grows, JobTyped(w),
         job'[w].step \in StepsOf(Op(w)),
         job'[w].req = job[w].req, job'[w].code = job[w].code,
         job'[w].step \in Checking => job[w].step \in Checking /\ job'[w].wrote = job[w].wrote,
         job'[w].fetching => job'[w].step \in DOMAIN ReadAt,
         TaskFound(job[w])', BatchFits(job[w])'
  PROVE  Kept(w)
<1>1. Admitted(job[w])
  BY AtStep
<1>2. Admitted(job[w])'
  BY <1>1 DEF Admitted, Op
<1> QED
  BY <1>2 DEF Kept, Running

(* A step that leaves the tables alone keeps what the handler has found.   *)
LEMMA FoundStays ==
  ASSUME NEW w \in Workers, job[w].step # "idle", TypeInv, UNCHANGED tables,
         Others(w),
         job'[w].req = job[w].req,
         Op(w) \in TaskOps /\ job[w].step = "get_task" /\ job'[w].step # "get_task"
           => TaskOf(w) # NoTask,
         job'[w].step = "insert_task" =>
           CreateCode(User(w), job[w].req.child, job[w].req.reward) = 201,
         job[w].step = "check_access" =>
           BalanceViewCode(User(w), job[w].req.child) = 200
  PROVE  TaskFound(job[w])'
<1>1. TaskFound(job[w])
  BY AtStep
<1> QED
  BY <1>1 DEF TaskFound, tables, Op, User, TaskOf

(* So does one that keeps the list of sessions, for what the batch needs.  *)
LEMMA BatchStays ==
  ASSUME NEW w \in Workers, job[w].step # "idle", TypeInv, UNCHANGED tables,
         job'[w].req = job[w].req, job'[w].todo = job[w].todo, job'[w].row = job[w].row,
         Op(w) = "usage" =>
           /\ job'[w].step \in {"insert_session"} \cup Settling =>
                job[w].step \in {"insert_session"} \cup Settling
           /\ job'[w].step \in Settling => job[w].step \in Settling
           /\ job'[w].step \in Settling \ {"commit_session"} =>
                job[w].step \in Settling \ {"commit_session"} \/ job[w].row.minutes_covered > 0
  PROVE  BatchFits(job[w])'
<1>1. BatchFits(job[w])
  BY AtStep
<1> QED
  BY <1>1 DEF BatchFits, tables, Recorded, Op

(* execute() of a SELECT that finds a row.                                 *)
LEMMA ExecuteKept ==
  ASSUME TypeInv, NEW w \in Workers, Execute(w)
  PROVE  /\ Kept(w)
         /\ job'[w].fetching = TRUE /\ job'[w].step = job[w].step
         /\ job'[w].req = job[w].req /\ job'[w].todo = job[w].todo
         /\ job'[w].wrote = job[w].wrote /\ job'[w].code = job[w].code
<1> DEFINE j == [job[w] EXCEPT !.fetching = TRUE]
<1>1. job[w] \in Job /\ job \in [Workers -> Job] /\ TablesTyped
  BY DEF TypeInv, TypeOK, TablesTyped
<1>2. j \in Job
  BY <1>1, JobFields
<1>3. /\ j.fetching = TRUE /\ j.step = job[w].step
      /\ j.req = job[w].req /\ j.todo = job[w].todo /\ j.row = job[w].row
      /\ j.wrote = job[w].wrote /\ j.code = job[w].code
  BY <1>1 DEF Job
<1>4. job' = [job EXCEPT ![w] = j]
  BY DEF Execute
<1> HIDE DEF j
<1>5. JobTyped(w) /\ job'[w] = j
  BY <1>1, <1>2, <1>4, SetJob
<1>6. job[w].step \in DOMAIN ReadAt /\ job[w].step # "idle" /\ UNCHANGED tables
  BY StepTables DEF Execute
<1>7. TaskFound(job[w])' /\ BatchFits(job[w])'
  <2>1. TaskFound(job[w]) /\ BatchFits(job[w])
    BY <1>6, AtStep
  <2> QED
    BY <1>3, <1>5, <1>6, <2>1 DEF TaskFound, BatchFits, Recorded, tables
<1>8. job[w].step \in StepsOf(Op(w))
  BY <1>6, AtStep DEF Admitted, Op
<1>9. TablesTyped' /\ Grows
  BY <1>1, <1>6, UnchangedGrows DEF TablesTyped, tables
<1> QED
  BY <1>3, <1>5, <1>6, <1>7, <1>8, <1>9, GoesOnKept

(* A step that goes elsewhere in the handler.                              *)
LEMMA GotoKept ==
  ASSUME TypeInv, NEW w \in Workers, NEW step \in StepsOf(Op(w)), job[w].step # "idle",
         Goto(w, step), UNCHANGED tables,
         step \in Checking => job[w].step \in Checking,
         step = "insert_task" =>
           CreateCode(User(w), job[w].req.child, job[w].req.reward) = 201,
         Op(w) \in TaskOps /\ job[w].step = "get_task" => TaskOf(w) # NoTask,
         job[w].step = "check_access" =>
           BalanceViewCode(User(w), job[w].req.child) = 200,
         Op(w) = "usage" =>
           /\ step \in {"insert_session"} \cup Settling =>
                job[w].step \in {"insert_session"} \cup Settling
           /\ step \in Settling => job[w].step \in Settling
           /\ step \in Settling \ {"commit_session"} =>
                job[w].step \in Settling \ {"commit_session"} \/ job[w].row.minutes_covered > 0
  PROVE  Kept(w)
<1>1. job \in [Workers -> Job] /\ TablesTyped
  BY DEF TypeInv, TypeOK, TablesTyped
<1>2. step \in Steps \ {"idle"}
  BY StepsOfSteps
<1>3. /\ JobTyped(w)
      /\ job'[w].step = step /\ job'[w].fetching = FALSE
      /\ job'[w].req = job[w].req /\ job'[w].todo = job[w].todo
      /\ job'[w].row = job[w].row /\ job'[w].wrote = job[w].wrote
      /\ job'[w].code = job[w].code
  BY <1>1, <1>2, GotoJob
<1>4. TablesTyped' /\ Grows
  BY <1>1, UnchangedGrows DEF TablesTyped, tables
<1>5. TaskFound(job[w])'
  BY <1>3, FoundStays DEF JobTyped
<1>6. BatchFits(job[w])'
  BY <1>3, BatchStays
<1> QED
  BY <1>3, <1>4, <1>5, <1>6, GoesOnKept

(* The next session of a batch, when the one before it is recorded.        *)
LEMMA NextSessionKept ==
  ASSUME TypeInv, NEW w \in Workers,
         job[w].step \in {"find", "commit_session", "commit_entry"}, Op(w) = "usage",
         Recorded(User(w), Head(job[w].todo)), UNCHANGED tables, NextSession(w)
  PROVE  /\ Kept(w)
         /\ job'[w].step = "idle" =>
              \A i \in DOMAIN job[w].req.sessions : Recorded(User(w), job[w].req.sessions[i])'
<1> DEFINE q == job[w].req
           Known(s) == Recorded(q.user, s)
<1>1. /\ job \in [Workers -> Job] /\ job[w] \in Job /\ TablesTyped
      /\ job[w].step # "idle"
  BY DEF TypeInv, TypeOK, TablesTyped
<1>2. Admitted(job[w]) /\ BatchFits(job[w])
  BY <1>1, AtStep
<1>3. job[w].todo \in Seq(Sessions) /\ job[w].todo # <<>>
  BY <1>1, <1>2 DEF BatchFits, Job, Op
<1>4. /\ JobTyped(w)
      /\ job'[w].fetching = FALSE
      /\ job'[w].req = q /\ job'[w].wrote = job[w].wrote
      /\ \/ /\ job'[w].step = "idle" /\ job'[w].code = 200
            /\ Len(job[w].todo) = 1
         \/ /\ job'[w].step = "find" /\ job'[w].code = job[w].code
            /\ job'[w].todo = Tail(job[w].todo) /\ job'[w].todo # <<>>
  BY <1>1, <1>3, NextSessionJob
<1>5. TablesTyped' /\ Grows
  BY <1>1, UnchangedGrows DEF TablesTyped, tables
<1>6. \A i \in DOMAIN q.sessions :
        Known(q.sessions[i]) \/ \E k \in DOMAIN job[w].todo : job[w].todo[k] = q.sessions[i]
  BY <1>2 DEF BatchFits, Op
<1>7. Known(Head(job[w].todo))
  BY DEF User
<1>8. \A s : Known(s)' <=> Known(s)
  BY <1>4 DEF Recorded, tables
<1>9. CASE job'[w].step = "idle"
  <2>1. \A i \in DOMAIN q.sessions : Known(q.sessions[i])
    <3> HIDE DEF Known
    <3> QED
      BY <1>3, <1>4, <1>6, <1>7, <1>9, TailOf
  <2>2. \A i \in DOMAIN q.sessions : Recorded(User(w), q.sessions[i])'
    BY <1>4, <1>8, <2>1 DEF User
  <2> QED
    BY <1>4, <1>5, <1>9, <2>2 DEF Kept, Running
<1>10. CASE job'[w].step = "find"
  <2> DEFINE rest == Tail(job[w].todo)
  <2>1. job'[w].todo = rest /\ rest # <<>> /\ job'[w].code = job[w].code
    BY <1>4, <1>10
  <2>2. \A i \in DOMAIN rest : EndsAfterStart(rest[i])
    <3>1. \A k \in DOMAIN job[w].todo : EndsAfterStart(job[w].todo[k])
      BY <1>2 DEF BatchFits, Op
    <3>2. \A i \in DOMAIN rest : \E k \in DOMAIN job[w].todo : rest[i] = job[w].todo[k]
      BY <1>3, TailOf
    <3> HIDE DEF rest
    <3> QED
      BY <3>1, <3>2
  <2>3. \A i \in DOMAIN q.sessions :
          Known(q.sessions[i]) \/ \E k \in DOMAIN rest : rest[k] = q.sessions[i]
    <3>1. \A k \in DOMAIN job[w].todo :
            job[w].todo[k] = Head(job[w].todo) \/ \E i \in DOMAIN rest : rest[i] = job[w].todo[k]
      BY <1>3, TailOf
    <3> HIDE DEF rest, Known
    <3> QED
      BY <1>6, <1>7, <3>1
  <2>4. BatchFits(job[w])'
    <3>1. job'[w].step \notin {"insert_session"} \cup Settling
      BY <1>10 DEF Settling
    <3>2. \A i \in DOMAIN q.sessions :
            \/ Recorded(q.user, q.sessions[i])'
            \/ \E k \in DOMAIN rest : rest[k] = q.sessions[i]
      BY <1>4, <1>8, <2>3
    <3> HIDE DEF rest
    <3> QED
      BY <1>4, <2>1, <2>2, <3>1, <3>2 DEF BatchFits
  <2>5. TaskFound(job[w])'
    BY <1>4, <1>10 DEF TaskFound, Op, TaskOps
  <2>6. "find" \in StepsOf(Op(w)) /\ "find" \in DOMAIN ReadAt /\ "find" \notin Checking
    BY StepTables DEF StepsOf, Checking
  <2> QED
    BY <1>1, <1>4, <1>5, <1>10, <2>1, <2>4, <2>5, <2>6, GoesOnKept
<1> QED
  BY <1>4, <1>9, <1>10

(* create_task.                                                            *)
LEMMA CheckChildKept ==
  ASSUME TypeInv, NEW w \in Workers, CheckChild(w)
  PROVE  Kept(w)
<1> DEFINE q == job[w].req
           code == CreateCode(q.user, q.child, q.reward)
<1>1. job[w].step = "check_child" /\ UNCHANGED tables
  BY DEF CheckChild, Fetch
<1>2. Op(w) = "create" /\ TablesTyped
  BY <1>1, AtStep
<1>3. CASE code = 201
  <2>1. Goto(w, "insert_task")
    BY <1>3 DEF CheckChild
  <2>2. "insert_task" \in StepsOf(Op(w)) /\ Op(w) \notin TaskOps
    BY <1>2 DEF StepsOf, TaskOps
  <2> QED
    BY <1>1, <1>3, <2>1, <2>2, GotoKept DEF Checking, Settling, User
<1>4. CASE code # 201
  <2>1. code \in Codes
    BY CodesType
  <2>2. Answer(w, code)
    BY <1>4 DEF CheckChild
  <2>3. TablesTyped' /\ Grows
    BY <1>1, <1>2, UnchangedGrows DEF TablesTyped, tables
  <2> QED
    BY <2>1, <2>2, <2>3, AnswerKept
<1> QED
  BY <1>3, <1>4

(* The task that is inserted is a task of the child it was checked for.    *)
LEMMA InsertTaskKept ==
  ASSUME TypeInv, NEW w \in Workers, InsertTask(w)
  PROVE  Kept(w)
<1> DEFINE q == job[w].req
<1>1. job[w].step = "insert_task"
  BY DEF InsertTask, Modify
<1>2. /\ Op(w) = "create" /\ TablesTyped /\ job \in [Workers -> Job]
      /\ Admitted(job[w]) /\ TaskFound(job[w]) /\ BatchFits(job[w])
  BY <1>1, AtStep DEF TypeInv, TypeOK
<1>3. /\ q.user \in Users /\ q.reward \in Int
      /\ CreateCode(q.user, q.child, q.reward) = 201
  BY <1>1, <1>2, AdmittedForm DEF Admitted, TaskFound, Op
<1>4. q.child \in Children /\ q.reward \in Nat \ {0} /\ FamilyOf[q.user] \in Families
  BY <1>3, UsersAssumption DEF CreateCode
<1> DEFINE row == [child_id |-> q.child, family_id |-> FamilyOf[q.user],
                   reward_minutes |-> q.reward, status |-> "pending"]
<1>5. row \in Task
  BY <1>4 DEF Task, TaskStatus
<1>6. PICK t \in TaskIds : tasks[t] = NoTask /\ tasks' = [tasks EXCEPT ![t] = row]
  BY DEF InsertTask, User
<1> HIDE DEF row
<1>7. tasks' \in [TaskIds -> Task \cup {NoTask}] /\ \A u \in TaskIds \ {t} : tasks'[u] = tasks[u]
  BY <1>2, <1>5, <1>6 DEF TablesTyped
<1>8. TablesTyped' /\ Grows
  BY <1>2, <1>6, <1>7 DEF TablesTyped, Grows, InsertTask
<1>9. "commit_task" \in Steps /\ Wrote(w, "task", "commit_task")
  BY StepTables DEF Steps, InsertTask
<1>10. /\ JobTyped(w)
       /\ job'[w].step = "commit_task" /\ job'[w].fetching = job[w].fetching
       /\ job'[w].req = q /\ job'[w].code = job[w].code
  BY <1>2, <1>9, WroteJob
<1>11. job[w].fetching = FALSE
  <2>1. job[w].step \notin DOMAIN ReadAt
    BY <1>1, StepTables
  <2> QED
    BY <1>2, <2>1 DEF TypeInv, Running, Job
<1>12. TaskFound(job[w])' /\ BatchFits(job[w])'
  BY <1>2, <1>10 DEF TaskFound, BatchFits, Op, TaskOps
<1> QED
  BY <1>1, <1>2, <1>8, <1>10, <1>11, <1>12, GoesOnKept DEF StepsOf, Checking

(* The task a transition names, once it has been found.                    *)
LEMMA TaskNamed ==
  ASSUME TypeInv, NEW w \in Workers, job[w].step # "idle", Op(w) \in TaskOps
  PROVE  /\ User(w) \in Users /\ job[w].req.task \in TaskIds
         /\ job[w].step # "get_task" \/ TaskOf(w) # NoTask =>
              TaskOf(w) \in Task /\ TaskOf(w).child_id \in Children
<1>1. Admitted(job[w]) /\ TaskFound(job[w]) /\ TablesTyped
  BY AtStep
<1>2. User(w) \in Users /\ job[w].req.task \in TaskIds
  BY <1>1, AdmittedForm DEF Admitted, Op, User
<1>3. TaskOf(w) \in Task \cup {NoTask}
  BY <1>1, <1>2 DEF TablesTyped, TaskOf
<1>4. job[w].step # "get_task" => TaskOf(w) # NoTask
  BY <1>1 DEF TaskFound, TaskOf, Op
<1> QED
  BY <1>2, <1>3, <1>4 DEF Task

(* get_task and the access checks.                                         *)
LEMMA GetTaskKept ==
  ASSUME TypeInv, NEW w \in Workers, GetTask(w)
  PROVE  Kept(w)
<1> DEFINE code == AccessCode(Op(w), User(w), TaskOf(w))
<1>1. job[w].step = "get_task" /\ UNCHANGED tables
  BY DEF GetTask, Fetch
<1>2. Op(w) \in TaskOps /\ TablesTyped
  BY <1>1, AtStep
<1>3. CASE Op(w) # "done" /\ TaskOf(w) # NoTask
  <2>1. Goto(w, "check_family")
    BY <1>3 DEF GetTask
  <2>2. "check_family" \in StepsOf(Op(w))
    BY <1>2 DEF StepsOf, TaskOps
  <2> QED
    BY <1>1, <1>3, <2>1, <2>2, GotoKept DEF Checking, Settling
<1>4. CASE ~(Op(w) # "done" /\ TaskOf(w) # NoTask) /\ code = 200
  <2>1. Goto(w, "recheck") /\ TaskOf(w) # NoTask
    BY <1>4 DEF GetTask, AccessCode
  <2>2. "recheck" \in StepsOf(Op(w))
    BY <1>2 DEF StepsOf, TaskOps
  <2> QED
    BY <1>1, <2>1, <2>2, GotoKept DEF Checking, Settling
<1>5. CASE ~(Op(w) # "done" /\ TaskOf(w) # NoTask) /\ code # 200
  <2>1. code \in Codes
    BY CodesType DEF Codes
  <2>2. Answer(w, code)
    BY <1>5 DEF GetTask
  <2>3. TablesTyped' /\ Grows
    BY <1>1, <1>2, UnchangedGrows DEF TablesTyped, tables
  <2> QED
    BY <2>1, <2>2, <2>3, AnswerKept
<1> QED
  BY <1>3, <1>4, <1>5

(* _verify_parent_family.                                                  *)
LEMMA CheckFamilyKept ==
  ASSUME TypeInv, NEW w \in Workers, CheckFamily(w)
  PROVE  Kept(w)
<1> DEFINE code == AccessCode(Op(w), User(w), TaskOf(w))
<1>1. job[w].step = "check_family" /\ UNCHANGED tables
  BY DEF CheckFamily, Fetch
<1>2. Op(w) \in TaskOps /\ TablesTyped
  BY <1>1, AtStep
<1>3. CASE code = 200
  <2>1. Goto(w, "recheck")
    BY <1>3 DEF CheckFamily
  <2>2. "recheck" \in StepsOf(Op(w))
    BY <1>2 DEF StepsOf, TaskOps
  <2> QED
    BY <1>1, <2>1, <2>2, GotoKept DEF Checking, Settling
<1>4. CASE code # 200
  <2>1. code \in Codes
    BY CodesType DEF Codes
  <2>2. Answer(w, code)
    BY <1>4 DEF CheckFamily
  <2>3. TablesTyped' /\ Grows
    BY <1>1, <1>2, UnchangedGrows DEF TablesTyped, tables
  <2> QED
    BY <2>1, <2>2, <2>3, AnswerKept
<1> QED
  BY <1>3, <1>4

(* _verify_child_access of a parent.                                       *)
LEMMA CheckAccessKept ==
  ASSUME TypeInv, NEW w \in Workers, CheckAccess(w)
  PROVE  Kept(w)
<1> DEFINE code == BalanceViewCode(User(w), job[w].req.child)
<1>1. job[w].step = "check_access" /\ UNCHANGED tables
  BY DEF CheckAccess, Fetch
<1>2. Op(w) \in {"balance", "ledger"} /\ TablesTyped
  BY <1>1, AtStep
<1>3. CASE code = 200
  <2>1. PICK step \in {"history", "view"} : Goto(w, step) /\ (step = "history" <=> Op(w) = "ledger")
    BY <1>3 DEF CheckAccess
  <2>2. step \in StepsOf(Op(w)) /\ Op(w) \notin TaskOps
    BY <1>2, <2>1 DEF StepsOf, TaskOps
  <2> QED
    BY <1>1, <1>2, <1>3, <2>1, <2>2, GotoKept DEF Checking, Settling
<1>4. CASE code # 200
  <2>1. code \in Codes
    BY CodesType DEF Codes
  <2>2. Answer(w, code)
    BY <1>4 DEF CheckAccess
  <2>3. TablesTyped' /\ Grows
    BY <1>1, <1>2, UnchangedGrows DEF TablesTyped, tables
  <2> QED
    BY <2>1, <2>2, <2>3, AnswerKept
<1> QED
  BY <1>3, <1>4

(* _update_task_status reads the row again.                                *)
LEMMA RecheckKept ==
  ASSUME TypeInv, NEW w \in Workers, Recheck(w)
  PROVE  Kept(w)
<1> DEFINE code == TaskCode(Op(w), User(w), TaskOf(w))
<1>1. job[w].step = "recheck" /\ UNCHANGED tables
  BY DEF Recheck, Fetch
<1>2. Op(w) \in TaskOps /\ TablesTyped
  BY <1>1, AtStep
<1>3. CASE code = 200
  <2>1. Goto(w, "update_task")
    BY <1>3 DEF Recheck
  <2>2. "update_task" \in StepsOf(Op(w))
    BY <1>2 DEF StepsOf, TaskOps
  <2> QED
    BY <1>1, <2>1, <2>2, GotoKept DEF Checking, Settling
<1>4. CASE code # 200
  <2>1. code \in Codes
    BY CodesType DEF Codes
  <2>2. Answer(w, code)
    BY <1>4 DEF Recheck
  <2>3. TablesTyped' /\ Grows
    BY <1>1, <1>2, UnchangedGrows DEF TablesTyped, tables
  <2> QED
    BY <2>1, <2>2, <2>3, AnswerKept
<1> QED
  BY <1>3, <1>4

(* The UPDATE moves a task that is there and keeps its child and reward.   *)
LEMMA UpdateTaskKept ==
  ASSUME TypeInv, NEW w \in Workers, UpdateTask(w)
  PROVE  /\ Kept(w)
         /\ \A t \in TaskIds :
              tasks'[t].status = (IF t = job[w].req.task THEN NewStatus(Op(w)) ELSE tasks[t].status)
<1> DEFINE q == job[w].req
<1>1. job[w].step = "update_task"
  BY DEF UpdateTask, Modify
<1>2. /\ Op(w) \in TaskOps /\ TablesTyped /\ job \in [Workers -> Job]
      /\ Admitted(job[w]) /\ TaskFound(job[w]) /\ BatchFits(job[w])
  BY <1>1, AtStep DEF TypeInv, TypeOK
<1>3. q.task \in TaskIds /\ tasks[q.task] \in Task
  BY <1>1, <1>2, TaskNamed DEF TaskOf
<1> DEFINE row == [tasks[q.task] EXCEPT !.status = NewStatus(Op(w))]
<1>4. row \in Task /\ row # NoTask /\ row.status = NewStatus(Op(w))
      /\ row.child_id = tasks[q.task].child_id
      /\ row.reward_minutes = tasks[q.task].reward_minutes
  <2>1. NewStatus(Op(w)) \in TaskStatus
    BY DEF NewStatus, TaskStatus
  <2>2. row \in Task
    BY <1>3, <2>1 DEF Task
  <2>3. NoTask \notin Task
    BY DEF Task, NoTask
  <2> QED
    BY <1>3, <2>2, <2>3 DEF Task
<1>5. tasks' = [tasks EXCEPT ![q.task] = row]
  BY DEF UpdateTask
<1> HIDE DEF row
<1>6. /\ tasks' \in [TaskIds -> Task \cup {NoTask}]
      /\ \A t \in TaskIds : tasks'[t] = (IF t = q.task THEN row ELSE tasks[t])
  BY <1>2, <1>3, <1>4, <1>5 DEF TablesTyped
<1>7. TablesTyped' /\ Grows
  BY <1>2, <1>4, <1>6 DEF TablesTyped, Grows, UpdateTask
<1>8. "commit_task" \in Steps /\ Wrote(w, "task", "commit_task")
  BY StepTables DEF Steps, UpdateTask
<1>9. /\ JobTyped(w)
      /\ job'[w].step = "commit_task" /\ job'[w].fetching = job[w].fetching
      /\ job'[w].req = q /\ job'[w].code = job[w].code
  BY <1>2, <1>8, WroteJob
<1>10. job[w].fetching = FALSE
  BY <1>1, <1>2, StepTables DEF TypeInv, Running, Job
<1>11. BatchFits(job[w])'
  BY <1>2, <1>9 DEF BatchFits, Op, TaskOps
<1>12. TaskFound(job[w])'
  <2>1. tasks'[q.task] # NoTask
    BY <1>3, <1>4, <1>6
  <2> QED
    BY <1>2, <1>9, <2>1 DEF TaskFound, Op, TaskOps
<1>13. "commit_task" \in StepsOf(Op(w))
  BY <1>2 DEF StepsOf, TaskOps
<1>14. Kept(w)
  BY <1>1, <1>2, <1>7, <1>9, <1>10, <1>11, <1>12, <1>13, GoesOnKept DEF Checking
<1> QED
  BY <1>4, <1>6, <1>14

(* The commit of a task.                                                   *)
LEMMA CommitTaskKept ==
  ASSUME TypeInv, NEW w \in Workers, CommitTask(w)
  PROVE  Kept(w)
<1>1. job[w].step = "commit_task" /\ UNCHANGED tables
  BY DEF CommitTask, Commit
<1>2. Op(w) \in {"create"} \cup TaskOps /\ TablesTyped
  BY <1>1, AtStep
<1>3. CASE Op(w) \in {"approve", "undo"}
  <2>1. Goto(w, "get_balance") /\ "get_balance" \in StepsOf(Op(w))
    BY <1>3 DEF CommitTask, StepsOf
  <2>2. Op(w) # "usage"
    BY <1>3
  <2> QED
    BY <1>1, <1>3, <2>1, GotoKept DEF Checking, Settling
<1>4. CASE Op(w) \notin {"approve", "undo"}
  <2>1. PICK code \in {200, 201} : Answer(w, code)
    BY <1>4 DEF CommitTask
  <2>2. TablesTyped' /\ Grows
    BY <1>1, <1>2, UnchangedGrows DEF TablesTyped, tables
  <2> QED
    BY <2>1, <2>2, AnswerKept DEF Codes
<1> QED
  BY <1>3, <1>4

(* The child whose ledger a request reads is one, and the ledger's last    *)
(* balance a number.                                                       *)
LEMMA ChildRead ==
  ASSUME TypeInv, NEW w \in Workers,
         job[w].step \in {"get_balance", "insert_entry", "commit_entry",
                          "view", "history", "last", "sum"}
  PROVE  ChildOf(w) \in Children /\ GetBalance(ledger[ChildOf(w)]) \in Int
<1>1. /\ job[w].step \notin {"idle", "get_task", "check_access"}
      /\ Admitted(job[w]) /\ TaskFound(job[w]) /\ TablesTyped
      /\ Op(w) \in {"approve", "undo", "usage", "balance", "ledger"}
  BY AtStep
<1>2. Op(w) \in {"approve", "undo"} => ChildOf(w) \in Children
  <2> SUFFICES ASSUME Op(w) \in {"approve", "undo"} PROVE ChildOf(w) \in Children
    OBVIOUS
  <2>1. TaskOf(w).child_id \in Children
    BY <1>1, TaskNamed DEF TaskOps
  <2> QED
    BY <2>1 DEF ChildOf, TaskOps
<1>3. Op(w) = "usage" => ChildOf(w) \in Children
  <2> SUFFICES ASSUME Op(w) = "usage" PROVE ChildOf(w) \in Children
    OBVIOUS
  <2>1. User(w) \in Children
    BY <1>1, AdmittedForm DEF Admitted, Op, User
  <2> QED
    BY <2>1 DEF ChildOf, TaskOps
<1>4. Op(w) \in {"balance", "ledger"} => ChildOf(w) \in Children
  <2> SUFFICES ASSUME Op(w) \in {"balance", "ledger"} PROVE ChildOf(w) \in Children
    OBVIOUS
  <2>1. User(w) \in Users /\ BalanceViewCode(User(w), job[w].req.child) = 200
    BY <1>1, AdmittedForm DEF Admitted, TaskFound, Op, User
  <2>2. job[w].req.child \in Children
    BY <2>1 DEF BalanceViewCode, Children
  <2> QED
    BY <2>2 DEF ChildOf, TaskOps
<1>5. ChildOf(w) \in Children
  BY <1>1, <1>2, <1>3, <1>4
<1> QED
  BY <1>1, <1>5, BalanceType DEF TablesTyped

(* A step that takes a SELECT's balance along.                             *)
LEMMA ReadJob ==
  ASSUME job \in [Workers -> Job], NEW w \in Workers, NEW step \in Steps, NEW b \in Int,
         job' = [job EXCEPT ![w].step = step, ![w].fetching = FALSE, ![w].read = b]
  PROVE  /\ JobTyped(w)
         /\ job'[w].step = step /\ job'[w].fetching = FALSE
         /\ job'[w].req = job[w].req /\ job'[w].todo = job[w].todo
         /\ job'[w].row = job[w].row /\ job'[w].wrote = job[w].wrote
         /\ job'[w].code = job[w].code
<1> DEFINE a == [job[w] EXCEPT !.step = step]
           c == [a EXCEPT !.fetching = FALSE]
           j == [c EXCEPT !.read = b]
<1>1. job' = [job EXCEPT ![w] = j]
  OBVIOUS
<1>2. job[w] \in Job
  OBVIOUS
<1>3. a \in Job
  BY <1>2, JobFields
<1>4. c \in Job
  <2> HIDE DEF a
  <2> QED
    BY <1>3, JobFields
<1>5. j \in Job
  <2> HIDE DEF c
  <2> QED
    BY <1>4, JobFields
<1>6. /\ j.step = step /\ j.fetching = FALSE
      /\ j.req = job[w].req /\ j.todo = job[w].todo
      /\ j.row = job[w].row /\ j.wrote = job[w].wrote
      /\ j.code = job[w].code
  BY <1>2 DEF Job
<1> HIDE DEF a, c, j
<1> QED
  BY <1>1, <1>5, <1>6, SetJob

(* The SELECT of append_ledger_entry.                                      *)
LEMMA ReadBalanceKept ==
  ASSUME TypeInv, NEW w \in Workers, ReadBalance(w)
  PROVE  /\ Kept(w)
         /\ job'[w].step = "insert_entry" /\ job'[w].fetching = FALSE
         /\ job'[w].req = job[w].req /\ job'[w].todo = job[w].todo
         /\ job'[w].wrote = job[w].wrote /\ job'[w].code = job[w].code
<1> DEFINE b == GetBalance(ledger[ChildOf(w)])
<1>1. job[w].step = "get_balance" /\ UNCHANGED tables
  BY DEF ReadBalance, Fetch
<1>2. b \in Int
  BY <1>1, ChildRead
<1>3. /\ Op(w) \in {"approve", "undo", "usage"} /\ TablesTyped /\ job[w].step # "idle"
      /\ job \in [Workers -> Job]
  BY <1>1, AtStep DEF TypeInv, TypeOK
<1>4. job' = [job EXCEPT ![w].step = "insert_entry", ![w].fetching = FALSE, ![w].read = b]
  BY DEF ReadBalance
<1>5. "insert_entry" \in StepsOf(Op(w)) /\ "insert_entry" \in Steps
  BY <1>3, StepTables DEF StepsOf, Steps
<1> HIDE DEF b
<1>6. /\ JobTyped(w)
      /\ job'[w].step = "insert_entry" /\ job'[w].fetching = FALSE
      /\ job'[w].req = job[w].req /\ job'[w].todo = job[w].todo
      /\ job'[w].row = job[w].row /\ job'[w].wrote = job[w].wrote
      /\ job'[w].code = job[w].code
  BY <1>2, <1>3, <1>4, <1>5, ReadJob
<1>7. TablesTyped' /\ Grows
  BY <1>1, <1>3, UnchangedGrows DEF TablesTyped, tables
<1>8. TaskFound(job[w])'
  BY <1>1, <1>3, <1>6, FoundStays DEF JobTyped
<1>9. BatchFits(job[w])'
  BY <1>1, <1>3, <1>6, BatchStays DEF Settling
<1> QED
  BY <1>3, <1>5, <1>6, <1>7, <1>8, <1>9, GoesOnKept DEF Checking

(* A handler that is not at a SELECT fetches nothing.                      *)
LEMMA NotFetching ==
  ASSUME TypeInv, NEW w \in Workers, job[w].step \notin DOMAIN ReadAt
  PROVE  job[w].fetching = FALSE
<1>1. Running(w) /\ job[w] \in Job
  BY DEF TypeInv, TypeOK
<1>2. job[w].fetching \in BOOLEAN
  BY <1>1 DEF Job
<1>3. ~job[w].fetching
  BY <1>1 DEF Running
<1> QED
  BY <1>2, <1>3

(* What append_ledger_entry inserts.                                       *)
LEMMA EntryType ==
  ASSUME TypeInv, NEW w \in Workers, job[w].step = "insert_entry"
  PROVE  LET e == EntryOf(w)
             q == job[w].req
         IN  /\ ChildOf(w) \in Children /\ e \in LedgerEntry
             /\ Op(w) \in {"approve", "undo", "usage"}
             /\ Op(w) = "approve" => /\ e.entry_type = "credit" /\ e.source = q.task
                                     /\ ChildOf(w) = TaskOf(w).child_id /\ q.task \in TaskIds
             /\ Op(w) = "undo" => /\ e.entry_type = "reversal" /\ e.source = q.task
                                  /\ ChildOf(w) = TaskOf(w).child_id /\ q.task \in TaskIds
             /\ Op(w) = "usage" => /\ e.entry_type = "debit" /\ e.source = Head(job[w].todo)
                                   /\ e.amount = job[w].row.minutes_covered
                                   /\ ChildOf(w) = User(w) /\ Head(job[w].todo) \in Sessions
<1>1. /\ job[w].step # "idle" /\ job[w] \in Job /\ job[w].read \in Int
      /\ BatchFits(job[w]) /\ Op(w) \in {"approve", "undo", "usage"}
  BY AtStep DEF Job
<1>2. ChildOf(w) \in Children
  BY ChildRead
<1>3. CASE Op(w) \in {"approve", "undo"}
  <2>1. job[w].req.task \in TaskIds /\ TaskOf(w) \in Task
    BY <1>1, <1>3, TaskNamed DEF TaskOps
  <2>2. TaskOf(w).reward_minutes \in Nat \ {0}
    BY <2>1 DEF Task
  <2>3. ChildOf(w) = TaskOf(w).child_id
    BY <1>3 DEF ChildOf, TaskOps
  <2>4. \A ty \in {"credit", "reversal"} :
          LET e == NewEntry(ty, TaskOf(w).reward_minutes, job[w].req.task, job[w].read)
          IN  e \in LedgerEntry /\ e.entry_type = ty /\ e.source = job[w].req.task
    BY <1>1, <2>1, <2>2 DEF NewEntry, SignedAmount, LedgerEntry
  <2>5. EntryOf(w) = NewEntry(IF Op(w) = "approve" THEN "credit" ELSE "reversal",
                              TaskOf(w).reward_minutes, job[w].req.task, job[w].read)
    BY <1>3 DEF EntryOf
  <2> QED
    BY <1>1, <1>2, <1>3, <2>1, <2>3, <2>4, <2>5
<1>4. CASE Op(w) = "usage"
  <2>1. job[w].todo \in Seq(Sessions) /\ job[w].todo # <<>>
    BY <1>1, <1>4 DEF BatchFits, Job, Op
  <2>2. Head(job[w].todo) \in Sessions
    BY <2>1, TailOf
  <2>3. RowFits(job[w].row) /\ job[w].row.minutes_covered > 0
    BY <1>1, <1>4 DEF BatchFits, Settling, Op
  <2>4. job[w].row.minutes_covered \in Nat \ {0}
    BY <2>3 DEF RowFits, UsageSession
  <2>5. ChildOf(w) = User(w)
    BY <1>4 DEF ChildOf, TaskOps
  <2>6. EntryOf(w) = NewEntry("debit", job[w].row.minutes_covered, Head(job[w].todo), job[w].read)
    BY <1>4 DEF EntryOf
  <2>7. EntryOf(w) \in LedgerEntry
    BY <1>1, <2>2, <2>4, <2>6 DEF NewEntry, SignedAmount, LedgerEntry
  <2>8. /\ EntryOf(w).entry_type = "debit" /\ EntryOf(w).source = Head(job[w].todo)
        /\ EntryOf(w).amount = job[w].row.minutes_covered
    BY <2>6 DEF NewEntry
  <2> QED
    BY <1>1, <1>2, <1>4, <2>2, <2>5, <2>7, <2>8
<1> QED
  BY <1>1, <1>3, <1>4

(* An entry of a ledger stays where it is when others are added.           *)
LEMMA AppendKeeps ==
  ASSUME TablesTyped, NEW c \in Children, NEW e \in LedgerEntry,
         ledger' = [ledger EXCEPT ![c] = Append(@, e)]
  PROVE  /\ ledger' \in [Children -> Seq(LedgerEntry)]
         /\ \A d \in Children : \A i \in DOMAIN ledger[d] :
              i \in DOMAIN ledger'[d] /\ ledger'[d][i] = ledger[d][i]
         /\ \A d \in Children \ {c} : ledger'[d] = ledger[d]
         /\ ledger'[c] = Append(ledger[c], e)
         /\ ledger'[c][Len(ledger[c]) + 1] = e
<1>1. ledger[c] \in Seq(LedgerEntry)
  BY DEF TablesTyped
<1> DEFINE longer == Append(ledger[c], e)
<1>2. /\ longer \in Seq(LedgerEntry)
      /\ \A i \in DOMAIN ledger[c] : i \in DOMAIN longer /\ longer[i] = ledger[c][i]
      /\ longer[Len(ledger[c]) + 1] = e
  BY <1>1
<1>3. ledger' = [ledger EXCEPT ![c] = longer]
  OBVIOUS
<1>4. ledger'[c] = longer
  BY <1>3 DEF TablesTyped
<1> HIDE DEF longer
<1> QED
  BY <1>2, <1>3, <1>4 DEF TablesTyped, longer

(* The INSERT of append_ledger_entry.                                      *)
LEMMA InsertEntryKept ==
  ASSUME TypeInv, NEW w \in Workers, InsertEntry(w)
  PROVE  /\ Kept(w)
         /\ job'[w].step = "commit_entry" /\ job'[w].fetching = FALSE
         /\ job'[w].req = job[w].req /\ job'[w].todo = job[w].todo
         /\ job'[w].code = job[w].code
<1>1. /\ job[w].step = "insert_entry"
      /\ ledger' = [ledger EXCEPT ![ChildOf(w)] = Append(@, EntryOf(w))]
      /\ tasks' = tasks /\ usage' = usage
  BY DEF InsertEntry, Modify
<1>2. ChildOf(w) \in Children /\ EntryOf(w) \in LedgerEntry
  BY <1>1, EntryType
<1>3. /\ Op(w) \in {"approve", "undo", "usage"} /\ TablesTyped /\ job \in [Workers -> Job]
      /\ TaskFound(job[w]) /\ BatchFits(job[w])
  BY <1>1, AtStep DEF TypeInv, TypeOK
<1>4. TablesTyped' /\ Grows
  BY <1>1, <1>2, <1>3, AppendKeeps DEF TablesTyped, Grows
<1>5. "commit_entry" \in Steps /\ "commit_entry" \in StepsOf(Op(w)) /\ "commit_entry" \notin Checking
  BY <1>3, StepTables DEF Steps, StepsOf, Checking
<1>6. /\ JobTyped(w)
      /\ job'[w].step = "commit_entry" /\ job'[w].fetching = job[w].fetching
      /\ job'[w].req = job[w].req /\ job'[w].todo = job[w].todo
      /\ job'[w].row = job[w].row
      /\ job'[w].code = job[w].code
  <2>1. Wrote(w, "entry", "commit_entry")
    BY DEF InsertEntry
  <2> QED
    BY <1>3, <1>5, <2>1, WroteJob
<1>7. job[w].fetching = FALSE
  BY <1>1, StepTables, NotFetching
<1>8. TaskFound(job[w])'
  BY <1>1, <1>3, <1>6 DEF TaskFound
<1>9. BatchFits(job[w])'
  BY <1>1, <1>3, <1>6 DEF BatchFits, Settling, Recorded
<1> QED
  BY <1>1, <1>4, <1>5, <1>6, <1>7, <1>8, <1>9, GoesOnKept

(* A commit leaves what was written in the tables: the session's row.      *)
LEMMA HeadRecorded ==
  ASSUME TypeInv, NEW w \in Workers, Op(w) = "usage", job[w].step \in Settling
  PROVE  /\ Recorded(User(w), Head(job[w].todo))
         /\ usage[User(w)][Head(job[w].todo)] = job[w].row
         /\ RowFits(job[w].row)
         /\ User(w) \in Children /\ Head(job[w].todo) \in Sessions
<1>1. job[w].step # "idle"
  BY DEF Settling
<1>2. Admitted(job[w]) /\ BatchFits(job[w]) /\ job[w] \in Job
  BY <1>1, AtStep
<1>3. /\ usage[User(w)][Head(job[w].todo)] = job[w].row /\ RowFits(job[w].row)
      /\ job[w].todo \in Seq(Sessions) /\ job[w].todo # <<>>
  BY <1>2 DEF BatchFits, Op, User, Job
<1>4. job[w].row # NoRow
  BY <1>3 DEF RowFits, UsageSession, NoRow
<1>5. User(w) \in Children
  BY <1>2, AdmittedForm DEF Admitted, Op, User
<1> QED
  BY <1>3, <1>4, <1>5, TailOf DEF Recorded

(* The commit of an entry.                                                 *)
LEMMA CommitEntryKept ==
  ASSUME TypeInv, NEW w \in Workers, CommitEntry(w)
  PROVE  /\ Kept(w)
         /\ Op(w) = "usage" /\ job'[w].step = "idle" =>
              \A i \in DOMAIN job[w].req.sessions : Recorded(User(w), job[w].req.sessions[i])'
<1>1. job[w].step = "commit_entry" /\ UNCHANGED tables
  BY DEF CommitEntry, Commit
<1>2. TablesTyped
  BY <1>1, AtStep
<1>3. CASE Op(w) = "usage"
  <2>1. NextSession(w)
    BY <1>3 DEF CommitEntry
  <2>2. Recorded(User(w), Head(job[w].todo))
    BY <1>1, <1>3, HeadRecorded DEF Settling
  <2> QED
    BY <1>1, <1>3, <2>1, <2>2, NextSessionKept
<1>4. CASE Op(w) # "usage"
  <2>1. Answer(w, 200)
    BY <1>4 DEF CommitEntry
  <2>2. TablesTyped' /\ Grows
    BY <1>1, <1>2, UnchangedGrows DEF TablesTyped, tables
  <2> QED
    BY <1>4, <2>1, <2>2, AnswerKept DEF Codes
<1> QED
  BY <1>3, <1>4

(* The SELECT for the session's row.                                       *)
LEMMA FindExistingKept ==
  ASSUME TypeInv, NEW w \in Workers, FindExisting(w)
  PROVE  /\ Kept(w)
         /\ job'[w].step = "idle" =>
              \A i \in DOMAIN job[w].req.sessions : Recorded(User(w), job[w].req.sessions[i])'
<1>1. job[w].step = "find" /\ UNCHANGED tables
  BY DEF FindExisting, Fetch
<1>2. Op(w) = "usage" /\ TablesTyped /\ job \in [Workers -> Job]
  BY <1>1, AtStep DEF TypeInv, TypeOK
<1>3. CASE Recorded(User(w), Head(job[w].todo))
  <2>1. NextSession(w)
    BY <1>3 DEF FindExisting
  <2> QED
    BY <1>1, <1>2, <1>3, <2>1, NextSessionKept
<1>4. CASE ~Recorded(User(w), Head(job[w].todo))
  <2>1. Goto(w, "cover")
    BY <1>4 DEF FindExisting
  <2>2. "cover" \in StepsOf(Op(w)) /\ "cover" \in Steps
    BY <1>2, StepTables DEF StepsOf, Steps
  <2>3. Kept(w)
    BY <1>1, <1>2, <2>1, <2>2, GotoKept DEF Checking, Settling
  <2>4. job'[w].step = "cover"
    BY <1>2, <2>1, <2>2, GotoJob
  <2> QED
    BY <2>3, <2>4
<1> QED
  BY <1>3, <1>4

(* The row is worked out from the balance read.                            *)
LEMMA CoverKept ==
  ASSUME TypeInv, NEW w \in Workers, Cover(w)
  PROVE  /\ Kept(w)
         /\ job'[w].step = "insert_session" /\ job'[w].fetching = FALSE
         /\ job'[w].req = job[w].req /\ job'[w].todo = job[w].todo
         /\ job'[w].wrote = job[w].wrote /\ job'[w].code = job[w].code
<1> DEFINE s == Head(job[w].todo)
           b == GetBalance(ledger[User(w)])
           row == CoverSession(s, b)
           a == [job[w] EXCEPT !.step = "insert_session"]
           c == [a EXCEPT !.fetching = FALSE]
           j == [c EXCEPT !.row = row]
<1>1. job[w].step = "cover" /\ UNCHANGED tables
  BY DEF Cover, Fetch
<1>2. /\ Op(w) = "usage" /\ TablesTyped /\ job[w].step # "idle"
      /\ job \in [Workers -> Job] /\ job[w] \in Job
      /\ Admitted(job[w]) /\ TaskFound(job[w]) /\ BatchFits(job[w])
  BY <1>1, AtStep DEF TypeInv, TypeOK
<1>3. User(w) \in Children /\ job[w].todo \in Seq(Sessions) /\ job[w].todo # <<>>
  BY <1>2, AdmittedForm DEF Admitted, BatchFits, Op, User, Job
<1>4. s \in Sessions /\ EndsAfterStart(s)
  <2>1. s \in Sessions /\ \E k \in DOMAIN job[w].todo : job[w].todo[k] = s
    BY <1>3, TailOf
  <2>2. \A k \in DOMAIN job[w].todo : EndsAfterStart(job[w].todo[k])
    BY <1>2 DEF BatchFits, Op
  <2> HIDE DEF s
  <2> QED
    BY <2>1, <2>2
<1>5. b \in Int
  BY <1>2, <1>3, BalanceType DEF TablesTyped
<1>6. row \in UsageSession /\ RowFits(row)
  <2> HIDE DEF s, b
  <2> QED
    BY <1>4, <1>5, CoverSessionRow DEF RowFits
<1>7. job' = [job EXCEPT ![w] = j]
  BY DEF Cover
<1>8. "insert_session" \in Steps /\ "insert_session" \in StepsOf(Op(w))
  BY <1>2, StepTables DEF Steps, StepsOf
<1> HIDE DEF s, b, row
<1>9. a \in Job
  BY <1>2, <1>8, JobFields
<1>10. c \in Job
  <2> HIDE DEF a
  <2> QED
    BY <1>9, JobFields
<1>11. j \in Job
  <2> HIDE DEF c
  <2> QED
    BY <1>6, <1>10, JobFields
<1>12. /\ j.step = "insert_session" /\ j.fetching = FALSE
       /\ j.req = job[w].req /\ j.todo = job[w].todo /\ j.row = row
       /\ j.wrote = job[w].wrote /\ j.code = job[w].code
  BY <1>2 DEF Job
<1> HIDE DEF a, c, j
<1>13. JobTyped(w) /\ job'[w] = j
  BY <1>2, <1>7, <1>11, SetJob
<1>14. TablesTyped' /\ Grows
  BY <1>1, <1>2, UnchangedGrows DEF TablesTyped, tables
<1>15. TaskFound(job[w])'
  BY <1>1, <1>2, <1>12, <1>13, FoundStays DEF JobTyped, TaskOps
<1>16. BatchFits(job[w])'
  BY <1>1, <1>2, <1>6, <1>12, <1>13 DEF BatchFits, Settling, Recorded, tables, Op
<1> QED
  BY <1>2, <1>8, <1>12, <1>13, <1>14, <1>15, <1>16, GoesOnKept DEF Checking

(* The INSERT of the session's row, which was not there.                   *)
LEMMA InsertSessionKept ==
  ASSUME TypeInv, NEW w \in Workers, InsertSession(w)
  PROVE  /\ Kept(w)
         /\ job'[w].step = "commit_session" /\ job'[w].fetching = FALSE
         /\ job'[w].req = job[w].req /\ job'[w].todo = job[w].todo
         /\ job'[w].code = job[w].code
         /\ \A c \in Children, s \in Sessions :
              usage'[c][s] = (IF c = User(w) /\ s = Head(job[w].todo) THEN job[w].row
                              ELSE usage[c][s])
<1> DEFINE c0 == User(w)
           s0 == Head(job[w].todo)
           row == job[w].row
<1>1. /\ job[w].step = "insert_session" /\ ~Recorded(c0, s0)
      /\ usage' = [usage EXCEPT ![c0][s0] = row]
      /\ tasks' = tasks /\ ledger' = ledger
  BY DEF InsertSession, Modify
<1>2. /\ Op(w) = "usage" /\ TablesTyped /\ job[w].step # "idle"
      /\ job \in [Workers -> Job] /\ job[w] \in Job
      /\ Admitted(job[w]) /\ TaskFound(job[w]) /\ BatchFits(job[w])
  BY <1>1, AtStep DEF TypeInv, TypeOK
<1>3. c0 \in Children /\ s0 \in Sessions /\ RowFits(row)
  <2>1. c0 \in Children /\ job[w].todo \in Seq(Sessions) /\ job[w].todo # <<>> /\ RowFits(row)
    BY <1>1, <1>2, AdmittedForm DEF Admitted, BatchFits, Op, User, Job
  <2> QED
    BY <2>1, TailOf
<1>4. row \in UsageSession \cup {NoRow} /\ usage[c0][s0] = NoRow
  BY <1>1, <1>3 DEF RowFits, Recorded
<1> HIDE DEF c0, s0
<1>5. /\ usage' \in [Children -> [Sessions -> UsageSession \cup {NoRow}]]
      /\ \A c \in Children, s \in Sessions :
           usage'[c][s] = (IF c = c0 /\ s = s0 THEN row ELSE usage[c][s])
  <2> DEFINE rows == [usage[c0] EXCEPT ![s0] = row]
  <2>1. usage[c0] \in [Sessions -> UsageSession \cup {NoRow}]
    BY <1>2, <1>3 DEF TablesTyped
  <2>2. /\ rows \in [Sessions -> UsageSession \cup {NoRow}]
        /\ \A s \in Sessions : rows[s] = (IF s = s0 THEN row ELSE usage[c0][s])
    BY <1>3, <1>4, <2>1
  <2>3. usage' = [usage EXCEPT ![c0] = rows]
    BY <1>1
  <2> HIDE DEF rows
  <2> QED
    BY <1>2, <1>3, <2>2, <2>3 DEF TablesTyped
<1>6. TablesTyped' /\ Grows
  BY <1>1, <1>2, <1>4, <1>5 DEF TablesTyped, Grows
<1>7. "commit_session" \in Steps /\ "commit_session" \in StepsOf(Op(w)) /\ "commit_session" \notin Checking
  BY <1>2, StepTables DEF Steps, StepsOf, Checking
<1>8. /\ JobTyped(w)
      /\ job'[w].step = "commit_session" /\ job'[w].fetching = job[w].fetching
      /\ job'[w].req = job[w].req /\ job'[w].todo = job[w].todo
      /\ job'[w].row = row
      /\ job'[w].code = job[w].code
  <2>1. Wrote(w, "session", "commit_session")
    BY DEF InsertSession
  <2> QED
    BY <1>2, <1>7, <2>1, WroteJob
<1>9. job[w].fetching = FALSE
  BY <1>1, StepTables, NotFetching
<1>10. TaskFound(job[w])'
  BY <1>1, <1>2, <1>8 DEF TaskFound
<1>11. BatchFits(job[w])'
  <2>1. job'[w].todo # <<>> /\ \A i \in DOMAIN job'[w].todo : EndsAfterStart(job'[w].todo[i])
    BY <1>2, <1>8 DEF BatchFits, Op
  <2>2. job[w].req.user = c0 /\ Head(job'[w].todo) = s0 /\ job'[w].row = row
    BY <1>8 DEF c0, s0, User
  <2>3. \A s \in Sessions : usage[c0][s] # NoRow => usage'[c0][s] # NoRow
    BY <1>3, <1>6 DEF Grows
  <2>4. \A i \in DOMAIN job[w].req.sessions : job[w].req.sessions[i] \in Sessions
    <3>1. job[w].req.sessions \in Seq(Sessions)
      BY <1>2, AdmittedForm DEF Admitted, Op
    <3> QED
      BY <3>1
  <2>5. \A i \in DOMAIN job[w].req.sessions :
          \/ usage[c0][job[w].req.sessions[i]] # NoRow
          \/ \E k \in DOMAIN job[w].todo : job[w].todo[k] = job[w].req.sessions[i]
    BY <1>2, <2>2 DEF BatchFits, Op, Recorded
  <2>6. \A i \in DOMAIN job[w].req.sessions :
          \/ usage'[c0][job[w].req.sessions[i]] # NoRow
          \/ \E k \in DOMAIN job[w].todo : job[w].todo[k] = job[w].req.sessions[i]
    BY <2>3, <2>4, <2>5
  <2>7. usage'[c0][s0] = row
    BY <1>3, <1>5
  <2>8. job'[w].step \notin Settling \ {"commit_session"}
    BY <1>8
  <2> QED
    BY <1>3, <1>8, <2>1, <2>2, <2>6, <2>7, <2>8 DEF BatchFits, Recorded
<1>12. Kept(w)
  BY <1>2, <1>6, <1>7, <1>8, <1>9, <1>10, <1>11, GoesOnKept
<1> QED
  BY <1>5, <1>8, <1>9, <1>12 DEF c0, s0

(* The UNIQUE key is taken: the IntegrityError ends the request.           *)
LEMMA FailKept ==
  ASSUME TypeInv, NEW w \in Workers, Fail(w), UNCHANGED tables
  PROVE  Kept(w)
<1>1. TablesTyped
  BY DEF TypeInv, TypeOK, TablesTyped
<1>2. TablesTyped' /\ Grows
  BY <1>1, UnchangedGrows DEF TablesTyped, tables
<1>3. Answer(w, 500) /\ 500 \in Codes
  BY DEF Fail, Codes
<1> QED
  BY <1>2, <1>3, AnswerKept

(* The commit of a session's row.                                          *)
LEMMA CommitSessionKept ==
  ASSUME TypeInv, NEW w \in Workers, CommitSession(w)
  PROVE  /\ Kept(w)
         /\ job'[w].step = "idle" =>
              \A i \in DOMAIN job[w].req.sessions : Recorded(User(w), job[w].req.sessions[i])'
<1>1. job[w].step = "commit_session" /\ UNCHANGED tables
  BY DEF CommitSession, Commit
<1>2. Op(w) = "usage" /\ TablesTyped /\ job \in [Workers -> Job]
  BY <1>1, AtStep DEF TypeInv, TypeOK
<1>3. CASE job[w].row.minutes_covered > 0
  <2>1. Goto(w, "get_balance")
    BY <1>3 DEF CommitSession
  <2>2. "get_balance" \in StepsOf(Op(w)) /\ "get_balance" \in Steps
    BY <1>2, StepTables DEF StepsOf, Steps
  <2>3. Kept(w)
    BY <1>1, <1>2, <1>3, <2>1, <2>2, GotoKept DEF Checking, Settling, TaskOps
  <2>4. job'[w].step = "get_balance"
    BY <1>2, <2>1, <2>2, GotoJob
  <2> QED
    BY <2>3, <2>4
<1>4. CASE ~(job[w].row.minutes_covered > 0)
  <2>1. NextSession(w)
    BY <1>4 DEF CommitSession
  <2>2. Recorded(User(w), Head(job[w].todo))
    BY <1>1, <1>2, HeadRecorded DEF Settling
  <2> QED
    BY <1>1, <1>2, <2>1, <2>2, NextSessionKept
<1> QED
  BY <1>3, <1>4

(* The views.                                                              *)
LEMMA ViewKept ==
  ASSUME TypeInv, NEW w \in Workers,
         ViewBalance(w) \/ ReadHistory(w) \/ ReadLast(w) \/ Audit(w) \/ Health(w)
  PROVE  Kept(w)
<1>1. /\ job[w].step \in {"view", "history", "last", "sum", "respond"}
      /\ UNCHANGED tables
  BY DEF ViewBalance, ReadHistory, ReadLast, Audit, Health, Fetch
<1>2. /\ TablesTyped /\ job \in [Workers -> Job] /\ job[w] \in Job /\ job[w].step # "idle"
      /\ job[w].step \in {"history", "last", "sum"} => Op(w) = "ledger"
      /\ Op(w) \in {"ledger", "balance", "health"}
  BY <1>1, AtStep DEF TypeInv, TypeOK
<1>3. TablesTyped' /\ Grows
  BY <1>1, <1>2, UnchangedGrows DEF TablesTyped, tables
<1>4. 200 \in Codes
  BY DEF Codes
<1>5. CASE ViewBalance(w) \/ Health(w)
  <2>1. Answer(w, 200)
    BY <1>5 DEF ViewBalance, Health
  <2> QED
    BY <1>3, <1>4, <2>1, AnswerKept
<1>6. CASE ReadHistory(w)
  <2>1. Goto(w, "last") /\ job[w].step = "history"
    BY <1>6 DEF ReadHistory, Fetch
  <2>2. Op(w) = "ledger" /\ "last" \in StepsOf(Op(w))
    BY <1>2, <2>1 DEF StepsOf, TaskOps
  <2> QED
    BY <1>1, <1>2, <2>1, <2>2, GotoKept DEF Checking, Settling, TaskOps
<1>7. CASE ReadLast(w)
  <2> DEFINE b == GetBalance(ledger[ChildOf(w)])
  <2>1. /\ job[w].step = "last"
        /\ job' = [job EXCEPT ![w].step = "sum", ![w].fetching = FALSE, ![w].read = b]
    BY <1>7 DEF ReadLast, Fetch
  <2>2. b \in Int /\ Op(w) = "ledger"
    BY <1>2, <2>1, ChildRead
  <2>3. "sum" \in Steps /\ "sum" \in StepsOf(Op(w)) /\ "sum" \notin Checking \cup Settling
    BY <2>2, StepTables DEF Steps, StepsOf, TaskOps, Checking, Settling
  <2> HIDE DEF b
  <2>4. /\ JobTyped(w)
        /\ job'[w].step = "sum" /\ job'[w].fetching = FALSE
        /\ job'[w].req = job[w].req /\ job'[w].todo = job[w].todo
        /\ job'[w].row = job[w].row /\ job'[w].wrote = job[w].wrote
        /\ job'[w].code = job[w].code
    BY <1>2, <2>1, <2>2, <2>3, ReadJob
  <2>5. TaskFound(job[w])' /\ BatchFits(job[w])'
    <3>1. TaskFound(job[w]) /\ job[w].step # "check_access"
      BY <1>2, <2>1, AtStep
    <3> QED
      BY <2>2, <2>4, <3>1 DEF TaskFound, BatchFits, Op, TaskOps
  <2> QED
    BY <1>2, <1>3, <2>3, <2>4, <2>5, GoesOnKept
<1>8. CASE Audit(w)
  <2> DEFINE holds == (job[w].read = ComputeBalance(ledger[ChildOf(w)]))
             a == Answered(job[w].req, 200)
             j == [a EXCEPT !.holds = holds]
  <2>1. job' = [job EXCEPT ![w] = j]
    BY <1>8 DEF Audit
  <2>2. job[w].req \in Menu \cup {NoRequest} /\ holds \in BOOLEAN
    BY <1>2 DEF Job
  <2>3. a \in Job
    BY <1>4, <2>2, AnsweredJob
  <2>4. j \in Job
    <3> HIDE DEF a, holds
    <3> QED
      BY <2>2, <2>3, JobFields
  <2>5. j.step = "idle" /\ j.fetching = FALSE
    BY DEF Answered
  <2> HIDE DEF a, j
  <2>6. JobTyped(w) /\ job'[w] = j
    BY <1>2, <2>1, <2>4, SetJob
  <2> QED
    BY <1>3, <2>5, <2>6 DEF Kept, Running
<1> QED
  BY <1>5, <1>6, <1>7, <1>8

(* A request that passes the door starts at the first step of its handler. *)
LEMMA StartedFits ==
  ASSUME NEW q \in Menu, DoorCode(q) = 200
  PROVE  LET j == Started(q)
         IN  /\ j \in Job /\ j.fetching = FALSE /\ j.wrote = {} /\ j.code = 0
             /\ j.step \in Steps \ ({"idle"} \cup DOMAIN CommitOf \cup Settling)
             /\ Admitted(j) /\ TaskFound(j) /\ BatchFits(j)
<1> DEFINE todo == IF q.op = "usage" THEN q.sessions ELSE <<>>
           z == Answered(q, 0)
           a == [z EXCEPT !.step = FirstStep(q)]
           j == [a EXCEPT !.todo = todo]
<1>1. q.op \in {"create", "usage", "balance", "ledger", "health"} \cup TaskOps
  BY AdmittedForm
<1>2. /\ FirstStep(q) \in StepsOf(q.op)
      /\ FirstStep(q) \notin {"insert_task", "insert_session"}
      /\ FirstStep(q) \notin DOMAIN CommitOf \cup Settling
      /\ q.op \in TaskOps => FirstStep(q) = "get_task"
      /\ q.op \in {"balance", "ledger"} /\ FirstStep(q) # "check_access" =>
           BalanceViewCode(q.user, q.child) = 200
  BY <1>1, AdmittedForm, StepTables DEF FirstStep, StepsOf, TaskOps, Settling
<1>3. FirstStep(q) \in Steps \ {"idle"}
  BY <1>2, StepsOfSteps
<1>4. todo \in Seq(Sessions)
  BY AdmittedForm
<1>5. z \in Job
  <2>1. 0 \in Codes
    BY DEF Codes
  <2> QED
    BY <2>1, AnsweredJob
<1>6. /\ z.fetching = FALSE /\ z.req = q /\ z.wrote = {} /\ z.code = 0
  BY DEF Answered
<1> HIDE DEF z
<1>7. a \in Job
  BY <1>3, <1>5, JobFields
<1>8. j \in Job
  <2> HIDE DEF a, todo
  <2> QED
    BY <1>4, <1>7, JobFields
<1>9. /\ j.fetching = FALSE /\ j.req = q /\ j.wrote = {} /\ j.code = 0
      /\ j.step = FirstStep(q) /\ j.todo = todo
  BY <1>5, <1>6 DEF Job
<1>10. Started(q) = j
  BY DEF Started, z
<1> HIDE DEF j, a
<1>11. Admitted(j)
  BY <1>2, <1>9 DEF Admitted
<1>12. TaskFound(j)
  BY <1>2, <1>9 DEF TaskFound
<1>13. BatchFits(j)
  <2> SUFFICES ASSUME q.op = "usage" PROVE BatchFits(j)
    BY <1>9 DEF BatchFits
  <2>1. /\ j.todo = q.sessions /\ q.sessions # <<>>
        /\ \A i \in DOMAIN q.sessions : EndsAfterStart(q.sessions[i])
    BY <1>9, AdmittedForm
  <2>2. j.step \notin {"insert_session"} \cup Settling
    BY <1>2, <1>9
  <2> QED
    BY <1>9, <2>1, <2>2 DEF BatchFits
<1> QED
  BY <1>2, <1>3, <1>8, <1>9, <1>10, <1>11, <1>12, <1>13

(* A request arrives.                                                      *)
LEMMA AcceptKept ==
  ASSUME TypeInv, NEW w \in Workers, NEW q \in Menu, Accept(w, q)
  PROVE  /\ Kept(w)
         /\ job'[w].fetching = FALSE /\ job'[w].wrote = {}
         /\ job'[w].step \notin DOMAIN CommitOf \cup Settling
         /\ job'[w].step = "idle" => job'[w].code # 200
<1> DEFINE code == IF locks.pending /\ q.op \notin {"health", "no_header"} THEN 500
                   ELSE DoorCode(q)
           j == IF code = 200 THEN Started(q) ELSE Answered(q, code)
<1>1. /\ job[w].step = "idle" /\ job' = [job EXCEPT ![w] = j]
      /\ UNCHANGED tables
  BY DEF Accept
<1>2. job \in [Workers -> Job] /\ TablesTyped
  BY DEF TypeInv, TypeOK, TablesTyped
<1>3. TablesTyped' /\ Grows
  BY <1>1, <1>2, UnchangedGrows DEF TablesTyped, tables
<1>4. code \in Codes
  <2>1. DoorCode(q) \in Codes /\ 500 \in Codes
    BY CodesType DEF Codes
  <2> QED
    BY <2>1
<1>5. CASE code = 200
  <2>1. DoorCode(q) = 200 /\ j = Started(q)
    BY <1>5
  <2>2. /\ j \in Job /\ j.fetching = FALSE /\ j.wrote = {}
        /\ j.step \in Steps \ ({"idle"} \cup DOMAIN CommitOf \cup Settling)
        /\ Admitted(j) /\ TaskFound(j) /\ BatchFits(j)
    <3> HIDE DEF j
    <3> QED
      BY <2>1, StartedFits
  <2> HIDE DEF j
  <2>3. JobTyped(w) /\ job'[w] = j
    BY <1>1, <1>2, <2>2, SetJob
  <2>4. Running(w)'
    <3>1. TaskFound(job[w])'
      BY <1>1, <2>2, <2>3 DEF TaskFound, tables
    <3>2. BatchFits(job[w])'
      BY <1>1, <2>2, <2>3 DEF BatchFits, Recorded, tables
    <3> QED
      BY <2>2, <2>3, <3>1, <3>2 DEF Running, Admitted
  <2> QED
    BY <1>3, <2>2, <2>3, <2>4 DEF Kept
<1>6. CASE code # 200
  <2>1. j = Answered(q, code)
    BY <1>6
  <2>2. Answered(q, code) \in Job
    BY <1>4, AnsweredJob
  <2>3. /\ j \in Job /\ j.step = "idle" /\ j.fetching = FALSE /\ j.wrote = {}
        /\ j.code = code
    BY <2>1, <2>2 DEF Answered
  <2> HIDE DEF j, code
  <2>4. JobTyped(w) /\ job'[w] = j
    BY <1>1, <1>2, <2>3, SetJob
  <2>5. "idle" \notin DOMAIN CommitOf \cup Settling
    BY StepTables DEF Settling
  <2> QED
    BY <1>3, <1>6, <2>3, <2>4, <2>5 DEF Kept, Running
<1> QED
  BY <1>5, <1>6

(* A thread that the pool drops has no handler.                            *)
LEMMA ExpireKept ==
  ASSUME TypeInv, NEW w \in Workers, Expire(w)
  PROVE  Kept(w)
<1>1. UNCHANGED tables /\ job' = job
  BY DEF Expire
<1>2. TablesTyped /\ job \in [Workers -> Job] /\ Running(w)
  BY DEF TypeInv, TypeOK, TablesTyped
<1>3. TablesTyped' /\ Grows
  BY <1>1, <1>2, UnchangedGrows DEF TablesTyped, tables
<1>4. Running(w)'
  BY <1>1, <1>3, OthersRun
<1> QED
  BY <1>1, <1>2, <1>3, <1>4 DEF Kept, JobTyped, Others

(* A thread's step, whichever it is.                                       *)
Moves(w) == Step(w) \/ Expire(w) \/ \E q \in Menu : Accept(w, q)

(* Every step keeps what a handler has found, and the tables it found it in. *)
LEMMA MovesKept ==
  ASSUME TypeInv, NEW w \in Workers, Moves(w)
  PROVE  Kept(w)
<1>1. LockedOut(w) \/ Overflow(w) \/ KeyTaken(w) => Fail(w) /\ UNCHANGED tables
  BY DEF LockedOut, Overflow, KeyTaken, tables
<1>2. Step(w) => Kept(w)
  BY <1>1, FailKept, ExecuteKept, CheckChildKept, InsertTaskKept, GetTaskKept, CheckFamilyKept,
     RecheckKept, CheckAccessKept, UpdateTaskKept, CommitTaskKept, ReadBalanceKept, InsertEntryKept, CommitEntryKept,
     FindExistingKept, CoverKept, InsertSessionKept, CommitSessionKept, ViewKept
     DEF Step
<1> QED
  BY <1>2, ExpireKept, AcceptKept DEF Moves

-----------------------------------------------------------------------------
(***************************************************************************)
(* The kinds of statement: what each does to the locks, to the thread's    *)
(* place in its handler and to failed.                                     *)
(***************************************************************************)
Leaves(w) ==
  /\ job'[w].fetching = FALSE /\ job'[w].step \notin DOMAIN CommitOf
  /\ job'[w].wrote \subseteq job[w].wrote

Fetches(w) ==
  /\ \E step \in DOMAIN ReadAt : Fetch(w, step)
  /\ Leaves(w) /\ failed' = failed

Writes(w) ==
  /\ \E step \in DOMAIN WriteAt :
       /\ Modify(w, step)
       /\ job'[w].step \in DOMAIN CommitOf /\ CommitOf[job'[w].step] = WriteAt[step]
  /\ job'[w].fetching = FALSE /\ failed' = failed

Commits(w) ==
  /\ \E step \in DOMAIN CommitOf : Commit(w, step)
  /\ Leaves(w) /\ failed' = failed

Fails(w) ==
  /\ LockedOut(w) \/ Overflow(w) \/ KeyTaken(w)
  /\ job'[w].step = "idle" /\ job'[w].fetching = FALSE
  /\ job'[w].code = 500 /\ failed' = TRUE

(* No statement at all, or one that takes no lock.                         *)
Rests(w) ==
  /\ locks' = locks
  /\ job[w].step \in {"idle", "respond"}
  /\ Leaves(w) /\ (failed => failed')
  /\ job[w].step = "idle" => job'[w].wrote = {}
  /\ failed' \in BOOLEAN /\ accepted' \in 0..MaxRequests

Shape(w) ==
  Execute(w) \/ Fetches(w) \/ Writes(w) \/ Commits(w) \/ Fails(w) \/ Rests(w) \/ Expire(w)

(* Where a handler goes next.                                              *)
LEMMA GoesTo ==
  ASSUME TypeInv, NEW w \in Workers
  PROVE  /\ \A step \in Steps : Goto(w, step) =>
              /\ job'[w].step = step /\ job'[w].fetching = FALSE
              /\ job'[w].wrote = job[w].wrote /\ job'[w].code = job[w].code
              /\ job'[w].req = job[w].req /\ job'[w].todo = job[w].todo
         /\ \A code \in Codes : Answer(w, code) =>
              /\ job'[w].step = "idle" /\ job'[w].fetching = FALSE
              /\ job'[w].wrote = job[w].wrote /\ job'[w].code = code
              /\ job'[w].req = job[w].req
         /\ job[w].step # "idle" /\ Op(w) = "usage" /\ NextSession(w) =>
              /\ job'[w].step \in {"idle", "find"} /\ job'[w].fetching = FALSE
              /\ job'[w].wrote = job[w].wrote /\ job'[w].code \in {200, job[w].code}
              /\ job'[w].req = job[w].req
<1>1. job \in [Workers -> Job]
  BY DEF TypeInv, TypeOK
<1>2. ASSUME job[w].step # "idle", Op(w) = "usage"
      PROVE  job[w].todo # <<>>
  <2>1. BatchFits(job[w])
    BY <1>2, AtStep
  <2> QED
    BY <1>2, <2>1 DEF BatchFits, Op
<1>3. job[w].step # "idle" /\ Op(w) = "usage" /\ NextSession(w) =>
              /\ job'[w].step \in {"idle", "find"} /\ job'[w].fetching = FALSE
              /\ job'[w].wrote = job[w].wrote /\ job'[w].code \in {200, job[w].code}
              /\ job'[w].req = job[w].req
  BY <1>1, <1>2, NextSessionJob
<1> QED
  BY <1>1, <1>3, GotoJob, AnswerJob

(* A handler writes and goes to the commit.                                *)
LEMMA WroteGoes ==
  ASSUME TypeInv, NEW w \in Workers, job[w].step \in DOMAIN WriteAt,
         NEW step \in DOMAIN CommitOf, NEW what \in {"task", "session", "entry"},
         Wrote(w, what, step)
  PROVE  job'[w].step = step /\ job'[w].fetching = FALSE
<1>1. job \in [Workers -> Job] /\ step \in Steps
  BY DEF TypeInv, TypeOK, Steps
<1>2. job[w].fetching = FALSE
  BY StepTables, NotFetching
<1> QED
  BY <1>1, <1>2, WroteJob

(* A statement that fails ends the request with 500.                       *)
LEMMA FailAnswers ==
  ASSUME TypeInv, NEW w \in Workers, Fail(w)
  PROVE  /\ job'[w].step = "idle" /\ job'[w].fetching = FALSE
         /\ job'[w].code = 500 /\ failed' = TRUE
<1>1. job \in [Workers -> Job]
  BY DEF TypeInv, TypeOK
<1>2. Answer(w, 500) /\ 500 \in Codes
  BY DEF Fail, Codes
<1>3. failed' = TRUE
  BY DEF Fail
<1>4. job'[w].step = "idle" /\ job'[w].fetching = FALSE
  BY <1>1, <1>2, AnswerJob
<1>5. job'[w].code = 500
  BY <1>1, <1>2 DEF Answer, Answered
<1> QED
  BY <1>3, <1>4, <1>5

(* Every step is of one of these kinds.                                    *)
LEMMA MovesShape ==
  ASSUME TypeInv, NEW w \in Workers, Moves(w)
  PROVE  Shape(w)
<1>1. /\ job \in [Workers -> Job] /\ failed \in BOOLEAN /\ accepted \in 0..MaxRequests
  BY DEF TypeInv, TypeOK
<1>2. /\ {"recheck", "update_task", "cover", "last", "get_balance", "insert_task",
          "check_family", "history", "view"} \subseteq Steps \ DOMAIN CommitOf
      /\ "idle" \notin DOMAIN CommitOf /\ "find" \notin DOMAIN CommitOf
      /\ "insert_entry" \notin DOMAIN CommitOf /\ "insert_session" \notin DOMAIN CommitOf
      /\ "sum" \notin DOMAIN CommitOf
      /\ {200, 201, 500} \subseteq Codes
      /\ CommitOf["commit_task"] = "tasks" /\ CommitOf["commit_session"] = "usage_sessions"
      /\ CommitOf["commit_entry"] = "ledger"
      /\ WriteAt["insert_task"] = "tasks" /\ WriteAt["update_task"] = "tasks"
      /\ WriteAt["insert_session"] = "usage_sessions" /\ WriteAt["insert_entry"] = "ledger"
  BY StepTables DEF Steps, Codes, CommitOf, WriteAt
<1> DEFINE Inner == Steps \ DOMAIN CommitOf
<1>23. /\ \A step \in Inner : Goto(w, step) => Leaves(w)
       /\ \A code \in Codes : Answer(w, code) => Leaves(w)
       /\ job[w].step # "idle" /\ Op(w) = "usage" /\ NextSession(w) => Leaves(w)
  <2>1. \A step \in Inner : Goto(w, step) => Leaves(w)
    BY GoesTo DEF Leaves
  <2>2. \A code \in Codes : Answer(w, code) => Leaves(w)
    BY <1>2, GoesTo DEF Leaves
  <2>3. ASSUME job[w].step # "idle", Op(w) = "usage", NextSession(w)
        PROVE  Leaves(w)
    <3>1. /\ job'[w].step \in {"idle", "find"} /\ job'[w].fetching = FALSE
          /\ job'[w].wrote = job[w].wrote
      BY <2>3, GoesTo
    <3> QED
      BY <1>2, <3>1 DEF Leaves
  <2> QED
    BY <2>1, <2>2, <2>3
<1> HIDE DEF Inner
<1>24. {"recheck", "update_task", "cover", "last", "get_balance", "insert_task",
        "check_family", "history", "view"} \subseteq Inner
  BY <1>2 DEF Inner
<1>3. GetTask(w) => Fetches(w)
  <2> SUFFICES ASSUME GetTask(w) PROVE Fetches(w)
    OBVIOUS
  <2>1. Fetch(w, "get_task") /\ UNCHANGED failed
    BY DEF GetTask, Fetch
  <2>2. \/ Goto(w, "check_family") \/ Goto(w, "recheck")
        \/ \E code \in Codes : Answer(w, code)
    BY CodesType DEF GetTask, Codes
  <2> QED
    BY <1>23, <1>24, <2>1, <2>2, StepTables DEF Fetches
<1>25. CheckFamily(w) => Fetches(w)
  <2> SUFFICES ASSUME CheckFamily(w) PROVE Fetches(w)
    OBVIOUS
  <2>1. Fetch(w, "check_family") /\ UNCHANGED failed
    BY DEF CheckFamily, Fetch
  <2>2. \/ Goto(w, "recheck")
        \/ \E code \in Codes : Answer(w, code)
    BY CodesType DEF CheckFamily, Codes
  <2> QED
    BY <1>23, <1>24, <2>1, <2>2, StepTables DEF Fetches
<1>26. CheckAccess(w) => Fetches(w)
  <2> SUFFICES ASSUME CheckAccess(w) PROVE Fetches(w)
    OBVIOUS
  <2>1. Fetch(w, "check_access") /\ UNCHANGED failed
    BY DEF CheckAccess, Fetch
  <2>2. \/ Goto(w, "history") \/ Goto(w, "view")
        \/ \E code \in Codes : Answer(w, code)
    BY CodesType DEF CheckAccess, Codes
  <2> QED
    BY <1>23, <1>24, <2>1, <2>2, StepTables DEF Fetches
<1>4. Recheck(w) => Fetches(w)
  <2> SUFFICES ASSUME Recheck(w) PROVE Fetches(w)
    OBVIOUS
  <2>1. Fetch(w, "recheck") /\ UNCHANGED failed
    BY DEF Recheck, Fetch
  <2>2. \/ Goto(w, "update_task")
        \/ \E code \in Codes : Answer(w, code)
    BY CodesType DEF Recheck, Codes
  <2> QED
    BY <1>23, <1>24, <2>1, <2>2, StepTables DEF Fetches
<1>5. ReadBalance(w) => Fetches(w)
  <2> SUFFICES ASSUME ReadBalance(w) PROVE Fetches(w)
    OBVIOUS
  <2>1. Fetch(w, "get_balance") /\ UNCHANGED failed
    BY DEF ReadBalance, Fetch
  <2> QED
    BY <1>2, <2>1, ReadBalanceKept, StepTables DEF Fetches, Leaves
<1>6. FindExisting(w) => Fetches(w)
  <2> SUFFICES ASSUME FindExisting(w) PROVE Fetches(w)
    OBVIOUS
  <2>1. Fetch(w, "find") /\ UNCHANGED failed /\ job[w].step = "find"
    BY DEF FindExisting, Fetch
  <2>2. Goto(w, "cover") \/ NextSession(w)
    BY DEF FindExisting
  <2>3. Op(w) = "usage"
    BY <2>1, AtStep
  <2> QED
    BY <1>23, <1>24, <2>1, <2>2, <2>3, StepTables DEF Fetches
<1>7. Cover(w) => Fetches(w)
  <2> SUFFICES ASSUME Cover(w) PROVE Fetches(w)
    OBVIOUS
  <2>1. Fetch(w, "cover") /\ UNCHANGED failed
    BY DEF Cover, Fetch
  <2> QED
    BY <1>2, <2>1, CoverKept, StepTables DEF Fetches, Leaves
<1>8. ViewBalance(w) => Fetches(w)
  <2> SUFFICES ASSUME ViewBalance(w) PROVE Fetches(w)
    OBVIOUS
  <2>1. Fetch(w, "view") /\ UNCHANGED failed /\ Answer(w, 200)
    BY DEF ViewBalance, Fetch
  <2> QED
    BY <1>2, <1>23, <1>24, <2>1, StepTables DEF Fetches
<1>9. ReadHistory(w) => Fetches(w)
  <2> SUFFICES ASSUME ReadHistory(w) PROVE Fetches(w)
    OBVIOUS
  <2>1. Fetch(w, "history") /\ UNCHANGED failed /\ Goto(w, "last")
    BY DEF ReadHistory, Fetch
  <2> QED
    BY <1>2, <1>23, <1>24, <2>1, StepTables DEF Fetches
<1>10. ReadLast(w) => Fetches(w)
  <2> SUFFICES ASSUME ReadLast(w) PROVE Fetches(w)
    OBVIOUS
  <2> DEFINE b == GetBalance(ledger[ChildOf(w)])
  <2>1. /\ Fetch(w, "last") /\ UNCHANGED failed /\ job[w].step = "last"
        /\ job' = [job EXCEPT ![w].step = "sum", ![w].fetching = FALSE, ![w].read = b]
    BY DEF ReadLast, Fetch
  <2>2. b \in Int /\ "sum" \in Steps
    BY <2>1, ChildRead, StepTables DEF Steps
  <2> HIDE DEF b
  <2>3. /\ job'[w].step = "sum" /\ job'[w].fetching = FALSE
        /\ job'[w].wrote = job[w].wrote
    BY <1>1, <2>1, <2>2, ReadJob
  <2> QED
    BY <1>2, <2>1, <2>3, StepTables DEF Fetches, Leaves
<1>11. Audit(w) => Fetches(w)
  <2> SUFFICES ASSUME Audit(w) PROVE Fetches(w)
    OBVIOUS
  <2>1. Fetch(w, "sum") /\ UNCHANGED failed /\ job[w].step = "sum"
    BY DEF Audit, Fetch
  <2>2. /\ job'[w].step = "idle" /\ job'[w].fetching = FALSE /\ job'[w].wrote = {}
    BY <1>1 DEF Audit, Answered
  <2> QED
    BY <1>2, <2>1, <2>2, StepTables DEF Fetches, Leaves
<1>12. InsertTask(w) => Writes(w)
  <2> SUFFICES ASSUME InsertTask(w) PROVE Writes(w)
    OBVIOUS
  <2>1. Modify(w, "insert_task") /\ UNCHANGED failed /\ Wrote(w, "task", "commit_task")
    BY DEF InsertTask
  <2>2. job[w].step = "insert_task"
    BY <2>1 DEF Modify
  <2>3. job'[w].step = "commit_task" /\ job'[w].fetching = FALSE
    BY <2>1, <2>2, StepTables, WroteGoes
  <2> QED
    BY <1>2, <2>1, <2>3, StepTables DEF Writes
<1>13. UpdateTask(w) => Writes(w)
  <2> SUFFICES ASSUME UpdateTask(w) PROVE Writes(w)
    OBVIOUS
  <2>1. Modify(w, "update_task") /\ UNCHANGED failed /\ Wrote(w, "task", "commit_task")
    BY DEF UpdateTask
  <2>2. job[w].step = "update_task"
    BY <2>1 DEF Modify
  <2>3. job'[w].step = "commit_task" /\ job'[w].fetching = FALSE
    BY <2>1, <2>2, StepTables, WroteGoes
  <2> QED
    BY <1>2, <2>1, <2>3, StepTables DEF Writes
<1>14. InsertEntry(w) => Writes(w)
  <2> SUFFICES ASSUME InsertEntry(w) PROVE Writes(w)
    OBVIOUS
  <2>1. Modify(w, "insert_entry") /\ UNCHANGED failed
    BY DEF InsertEntry
  <2>2. job'[w].step = "commit_entry" /\ job'[w].fetching = FALSE
    BY InsertEntryKept
  <2> QED
    BY <1>2, <2>1, <2>2, StepTables DEF Writes
<1>15. InsertSession(w) => Writes(w)
  <2> SUFFICES ASSUME InsertSession(w) PROVE Writes(w)
    OBVIOUS
  <2>1. Modify(w, "insert_session") /\ UNCHANGED failed
    BY DEF InsertSession
  <2>2. job'[w].step = "commit_session" /\ job'[w].fetching = FALSE
    BY InsertSessionKept
  <2> QED
    BY <1>2, <2>1, <2>2, StepTables DEF Writes
<1>16. CommitTask(w) => Commits(w)
  <2> SUFFICES ASSUME CommitTask(w) PROVE Commits(w)
    OBVIOUS
  <2>1. Commit(w, "commit_task") /\ UNCHANGED failed
    BY DEF CommitTask, Commit
  <2>2. Goto(w, "get_balance") \/ \E code \in {200, 201} : Answer(w, code)
    BY DEF CommitTask
  <2> QED
    BY <1>2, <1>23, <1>24, <2>1, <2>2, StepTables DEF Commits
<1>17. CommitEntry(w) => Commits(w)
  <2> SUFFICES ASSUME CommitEntry(w) PROVE Commits(w)
    OBVIOUS
  <2>1. Commit(w, "commit_entry") /\ UNCHANGED failed /\ job[w].step = "commit_entry"
    BY DEF CommitEntry, Commit
  <2>2. (Op(w) = "usage" /\ NextSession(w)) \/ Answer(w, 200)
    BY DEF CommitEntry
  <2> QED
    BY <1>2, <1>23, <1>24, <2>1, <2>2, StepTables DEF Commits
<1>18. CommitSession(w) => Commits(w)
  <2> SUFFICES ASSUME CommitSession(w) PROVE Commits(w)
    OBVIOUS
  <2>1. Commit(w, "commit_session") /\ UNCHANGED failed /\ job[w].step = "commit_session"
    BY DEF CommitSession, Commit
  <2>2. Goto(w, "get_balance") \/ NextSession(w)
    BY DEF CommitSession
  <2>3. Op(w) = "usage"
    BY <2>1, AtStep
  <2>4. Leaves(w)
    BY <1>23, <1>24, <2>1, <2>2, <2>3
  <2> QED
    BY <2>1, <2>4, StepTables DEF Commits
<1>19. LockedOut(w) \/ Overflow(w) \/ KeyTaken(w) => Fails(w)
  <2> SUFFICES ASSUME LockedOut(w) \/ Overflow(w) \/ KeyTaken(w) PROVE Fails(w)
    OBVIOUS
  <2>1. Fail(w)
    BY DEF LockedOut, Overflow, KeyTaken
  <2>2. /\ job'[w].step = "idle" /\ job'[w].fetching = FALSE
        /\ job'[w].code = 500 /\ failed' = TRUE
    BY <2>1, FailAnswers
  <2> QED
    BY <2>2 DEF Fails
<1>20. CheckChild(w) => Fetches(w)
  <2> SUFFICES ASSUME CheckChild(w) PROVE Fetches(w)
    OBVIOUS
  <2>1. Fetch(w, "check_child") /\ UNCHANGED failed
    BY DEF CheckChild, Fetch
  <2>2. Goto(w, "insert_task") \/ \E code \in Codes : Answer(w, code)
    BY CodesType DEF CheckChild
  <2> QED
    BY <1>23, <1>24, <2>1, <2>2, StepTables DEF Fetches
<1>21. Health(w) => Rests(w)
  <2> SUFFICES ASSUME Health(w) PROVE Rests(w)
    OBVIOUS
  <2>1. job[w].step = "respond" /\ UNCHANGED <<locks, failed, accepted>> /\ Answer(w, 200)
    BY DEF Health
  <2> QED
    BY <1>1, <1>2, <1>23, <2>1 DEF Rests
<1>22. ASSUME NEW q \in Menu, Accept(w, q) PROVE Rests(w)
  <2>1. /\ job[w].step = "idle" /\ locks' = locks /\ (failed => failed')
        /\ failed' \in BOOLEAN
    BY <1>1, <1>22 DEF Accept
  <2>2. accepted' \in 0..MaxRequests
    <3>1. accepted < MaxRequests /\ accepted' = accepted + 1
      BY <1>22 DEF Accept, WithinBounds
    <3> QED
      BY <1>1, <3>1, BoundsAssumption
  <2>3. /\ job'[w].fetching = FALSE /\ job'[w].wrote = {}
        /\ job'[w].step \notin DOMAIN CommitOf
    BY <1>22, AcceptKept
  <2> QED
    BY <2>1, <2>2, <2>3 DEF Rests, Leaves
<1> QED
  BY <1>3, <1>4, <1>5, <1>6, <1>7, <1>8, <1>9, <1>10, <1>11, <1>12, <1>13, <1>14, <1>15,
     <1>16, <1>17, <1>18, <1>19, <1>20, <1>21, <1>22, <1>25, <1>26 DEF Moves, Step, Shape

(* What each statement does to the lock record.                            *)
LEMMA ShapeLocks ==
  ASSUME TypeInv, NEW w \in Workers, Shape(w)
  PROVE  \/ /\ job[w].step \in DOMAIN ReadAt /\ Execute(w)
            /\ locks' = Read(locks, w, ReadAt[job[w].step])
            /\ CanRead(locks, w, ReadAt[job[w].step])
         \/ Fetches(w) /\ locks' = EndStatement(locks, w)
         \/ \E table \in Tables :
              /\ Fetches(w) \/ Fails(w)
              /\ locks' = EndStatement(Read(locks, w, table), w)
              /\ CanRead(locks, w, table)
         \/ \E step \in DOMAIN WriteAt :
              /\ (job[w].step = step /\ Writes(w)) \/ Fails(w)
              /\ locks' = Write(locks, w, WriteAt[step])
              /\ CanWrite(locks, w, WriteAt[step])
         \/ Commits(w) /\ job[w].step \in DOMAIN CommitOf /\ locks' = Release(locks, w)
         \/ Expire(w) /\ job[w].step = "idle" /\ locks' = Release(locks, w)
         \/ Fails(w) /\ locks' \in {locks, ReadRefused(locks, w), WriteRefused(locks, w),
                                    [locks EXCEPT !.begun = @ \cup {w}]}
         \/ Rests(w) /\ locks' = locks
<1>1. Execute(w) => /\ job[w].step \in DOMAIN ReadAt
                    /\ locks' = Read(locks, w, ReadAt[job[w].step])
                    /\ CanRead(locks, w, ReadAt[job[w].step])
  BY DEF Execute
<1>2. Fetches(w) =>
        \/ locks' = EndStatement(locks, w)
        \/ \E table \in Tables : /\ locks' = EndStatement(Read(locks, w, table), w)
                                 /\ CanRead(locks, w, table)
  BY StepTables DEF Fetches, Fetch
<1>3. Writes(w) => \E step \in DOMAIN WriteAt :
        /\ job[w].step = step
        /\ locks' = Write(locks, w, WriteAt[step])
        /\ CanWrite(locks, w, WriteAt[step])
  BY DEF Writes, Modify
<1>4. Commits(w) => job[w].step \in DOMAIN CommitOf /\ locks' = Release(locks, w)
  BY DEF Commits, Commit
<1>5. Expire(w) => job[w].step = "idle" /\ locks' = Release(locks, w)
  BY DEF Expire
<1>6. Rests(w) => locks' = locks
  BY DEF Rests
<1>7. KeyTaken(w) => \E step \in DOMAIN WriteAt :
        /\ job[w].step = step
        /\ locks' = Write(locks, w, WriteAt[step])
        /\ CanWrite(locks, w, WriteAt[step])
  BY StepTables DEF KeyTaken, Modify
<1>8. LockedOut(w) => locks' \in {locks, ReadRefused(locks, w), WriteRefused(locks, w)}
  BY DEF LockedOut, Refused
<1>9. Overflow(w) => \/ locks' = [locks EXCEPT !.begun = @ \cup {w}]
                     \/ \E table \in Tables :
                          /\ locks' = EndStatement(Read(locks, w, table), w)
                          /\ CanRead(locks, w, table)
  BY DEF Overflow, Tables
<1> QED
  BY <1>1, <1>2, <1>3, <1>4, <1>5, <1>6, <1>7, <1>8, <1>9 DEF Shape, Fails

(* The lock record keeps its type, and the counters theirs.                *)
LEMMA MovesTyped ==
  ASSUME TypeInv, NEW w \in Workers, Moves(w)
  PROVE  locks' \in Locks /\ accepted' \in 0..MaxRequests /\ failed' \in BOOLEAN
<1>1. locks \in Locks /\ accepted \in 0..MaxRequests /\ failed \in BOOLEAN
  BY DEF TypeInv, TypeOK
<1>2. Shape(w)
  BY MovesShape
<1>3. locks' \in Locks
  <2>1. \A table \in Tables : Read(locks, w, table) \in Locks
    BY <1>1, LockTypes
  <2>2. \A table \in Tables : EndStatement(Read(locks, w, table), w) \in Locks
    BY <2>1, LockTypes
  <2>3. \A step \in DOMAIN WriteAt : Write(locks, w, WriteAt[step]) \in Locks
    BY <1>1, LockTypes, StepTables
  <2>4. \A step \in DOMAIN ReadAt : Read(locks, w, ReadAt[step]) \in Locks
    BY <2>1, StepTables
  <2>5. /\ Release(locks, w) \in Locks /\ EndStatement(locks, w) \in Locks
        /\ ReadRefused(locks, w) \in Locks /\ WriteRefused(locks, w) \in Locks
        /\ [locks EXCEPT !.begun = @ \cup {w}] \in Locks
    BY <1>1, LockTypes
  <2> QED
    BY <1>1, <1>2, <2>2, <2>3, <2>4, <2>5, ShapeLocks
<1>4. failed' \in BOOLEAN /\ accepted' \in 0..MaxRequests
  <2>1. Execute(w) \/ Expire(w) => UNCHANGED <<failed, accepted>>
    BY DEF Execute, Expire
  <2>2. Fetches(w) \/ Commits(w) \/ Writes(w) => UNCHANGED <<failed, accepted>>
    BY DEF Fetches, Fetch, Commits, Commit, Writes, Modify
  <2>3. LockedOut(w) \/ Overflow(w) \/ KeyTaken(w) => accepted' = accepted
    BY DEF LockedOut, Overflow, KeyTaken, Modify
  <2>4. Fails(w) => accepted' = accepted /\ failed' = TRUE
    BY <2>3 DEF Fails
  <2> QED
    BY <1>1, <1>2, <2>1, <2>2, <2>4 DEF Shape, Rests
<1> QED
  BY <1>3, <1>4

(* Nothing is recorded wrongly in the databases the server starts from.    *)
LEMMA TypeInit == Init => TypeInv
<1> SUFFICES ASSUME Init PROVE TypeInv
  OBVIOUS
<1>1. PICK db \in Databases : tasks = db.tasks /\ ledger = db.ledger /\ usage = db.usage
  BY DEF Init
<1>2. TablesTyped
  BY <1>1, DatabasesAssumption DEF Consistent, TablesTyped
<1>3. 0 \in Codes
  BY DEF Codes
<1>4. Answered(NoRequest, 0) \in Job
  BY <1>3, AnsweredJob
<1>5. job \in [Workers -> Job] /\ \A w \in Workers : Running(w)
  <2>1. job = [w \in Workers |-> Answered(NoRequest, 0)]
    BY DEF Init
  <2>2. \A w \in Workers : job[w].step = "idle" /\ job[w].fetching = FALSE
    BY <2>1 DEF Answered
  <2> QED
    BY <1>4, <2>1, <2>2 DEF Running
<1>6. locks \in Locks
  BY DEF Init, NoLocks, Locks
<1>7. accepted \in 0..MaxRequests
  <2>1. accepted = 0 /\ MaxRequests \in Nat
    BY BoundsAssumption DEF Init
  <2> QED
    BY <2>1
<1>8. failed \in BOOLEAN
  BY DEF Init
<1> QED
  BY <1>2, <1>5, <1>6, <1>7, <1>8 DEF TypeInv, TypeOK, TablesTyped

(* Every step of a thread keeps the types, and lets nothing in the tables  *)
(* go.                                                                     *)
LEMMA MoveKeepsTypes ==
  ASSUME TypeInv, NEW w \in Workers, Moves(w)
  PROVE  TypeInv' /\ Grows
<1>1. Kept(w)
  BY MovesKept
<1>2. TablesTyped' /\ Grows /\ JobTyped(w) /\ Running(w)'
  BY <1>1 DEF Kept
<1>3. \A v \in Workers : Running(v)'
  <2> SUFFICES ASSUME NEW v \in Workers PROVE Running(v)'
    OBVIOUS
  <2>1. CASE v = w
    BY <1>2, <2>1
  <2>2. CASE v # w
    <3>1. job'[v] = job[v]
      BY <1>2, <2>2 DEF JobTyped, Others
    <3> QED
      BY <1>2, <3>1, OthersRun
  <2> QED
    BY <2>1, <2>2
<1>4. TypeOK'
  BY <1>2, MovesTyped DEF TypeOK, TablesTyped, JobTyped
<1> QED
  BY <1>2, <1>3, <1>4 DEF TypeInv

(* The same of the specification's steps.                                  *)
LEMMA TypeStep ==
  ASSUME TypeInv, [Next]_vars
  PROVE  TypeInv' /\ Grows
<1>1. CASE Next
  <2>1. PICK w \in Workers : Moves(w)
    BY <1>1 DEF Next, Moves
  <2> QED
    BY <2>1, MoveKeepsTypes
<1>2. CASE UNCHANGED vars
  <2>1. UNCHANGED tables
    BY <1>2 DEF vars, tables
  <2>2. TypeInv'
    BY <1>2 DEF vars, TypeInv, TypeOK, Running, Admitted, TaskFound, BatchFits, Recorded
  <2> QED
    BY <2>1, <2>2, UnchangedGrows
<1> QED
  BY <1>1, <1>2

(* Every variable has its type, and every handler is where it may be, with *)
(* what it has found still there.                                          *)
THEOREM TypesHold == Spec => []TypeOK
<1>1. TypeInv /\ [Next]_vars => TypeInv'
  BY TypeStep
<1>2. TypeInv => TypeOK
  BY DEF TypeInv
<1> QED
  BY TypeInit, <1>1, <1>2, PTL DEF Spec

-----------------------------------------------------------------------------
(***************************************************************************)
(* Isolation.                                                              *)
(***************************************************************************)
(* A lock record after a statement of k: the other connections read what   *)
(* they read before, and a writer among them keeps the lock on every table *)
(* it has written, of which k reads no more than before.                   *)
Respects(lk, next, k) ==
  \A v \in Workers \ {k} :
    /\ next.reads[v] = lk.reads[v]
    /\ lk.writer = v => /\ next.writer = v /\ next.writes = lk.writes
                        /\ next.reads[k] \cap lk.writes \subseteq lk.reads[k]

(* Every statement respects the locks of the other connections.            *)
LEMMA StatementsRespect ==
  ASSUME NEW lk \in Locks, NEW k \in Workers
  PROVE  /\ Respects(lk, lk, k)
         /\ Respects(lk, Release(lk, k), k)
         /\ Respects(lk, EndStatement(lk, k), k)
         /\ \A table \in Tables : CanRead(lk, k, table) =>
              /\ Respects(lk, Read(lk, k, table), k)
              /\ Respects(lk, EndStatement(Read(lk, k, table), k), k)
         /\ \A table \in Tables : CanWrite(lk, k, table) => Respects(lk, Write(lk, k, table), k)
         /\ Respects(lk, ReadRefused(lk, k), k)
         /\ Respects(lk, WriteRefused(lk, k), k)
         /\ Respects(lk, [lk EXCEPT !.begun = lk.begun \cup {k}], k)
<1>1. Respects(lk, lk, k)
  BY DEF Respects
<1>2. ASSUME NEW a \in Locks
      PROVE  /\ \A v \in Workers \ {k} : Release(a, k).reads[v] = a.reads[v]
             /\ Release(a, k).reads[k] = {}
             /\ a.writer # k => Release(a, k).writer = a.writer /\ Release(a, k).writes = a.writes
  BY DEF Release, Locks
<1>3. Respects(lk, Release(lk, k), k)
  BY <1>2 DEF Respects
<1>4. Respects(lk, EndStatement(lk, k), k)
  BY <1>1, <1>3 DEF EndStatement
<1>5. ASSUME NEW table \in Tables, CanRead(lk, k, table)
      PROVE  /\ Respects(lk, Read(lk, k, table), k)
             /\ Respects(lk, EndStatement(Read(lk, k, table), k), k)
  <2> DEFINE a == Read(lk, k, table)
  <2>1. a \in Locks
    BY LockTypes
  <2>2. /\ \A v \in Workers \ {k} : a.reads[v] = lk.reads[v]
        /\ a.reads[k] = lk.reads[k] \cup {table}
        /\ a.writer = lk.writer /\ a.writes = lk.writes
    BY DEF Read, Locks
  <2>3. lk.writer # k => table \notin lk.writes
    BY <1>5 DEF CanRead
  <2> HIDE DEF a
  <2>4. Respects(lk, a, k)
    BY <2>2, <2>3 DEF Respects
  <2>5. Respects(lk, Release(a, k), k)
    BY <1>2, <2>1, <2>2 DEF Respects
  <2> QED
    BY <2>4, <2>5 DEF a, EndStatement
<1>6. ASSUME NEW table \in Tables, CanWrite(lk, k, table)
      PROVE  Respects(lk, Write(lk, k, table), k)
  <2>1. lk.writer \notin Workers \ {k}
    BY <1>6, NobodyAssumption DEF CanWrite, MayBecomeWriter
  <2>2. Write(lk, k, table).reads = lk.reads
    BY DEF Write, Locks
  <2> QED
    BY <2>1, <2>2 DEF Respects
<1>7. Respects(lk, ReadRefused(lk, k), k)
  BY DEF Respects, ReadRefused, Locks
<1>8. Respects(lk, WriteRefused(lk, k), k)
  <2>1. CASE MayBecomeWriter(lk, k)
    <3>1. lk.writer \notin Workers \ {k}
      BY <2>1, NobodyAssumption DEF MayBecomeWriter
    <3>2. WriteRefused(lk, k).reads = lk.reads
      BY <2>1 DEF WriteRefused, Locks
    <3> QED
      BY <3>1, <3>2 DEF Respects
  <2>2. CASE ~MayBecomeWriter(lk, k)
    BY <2>2 DEF Respects, WriteRefused, Locks
  <2> QED
    BY <2>1, <2>2
<1>9. Respects(lk, [lk EXCEPT !.begun = lk.begun \cup {k}], k)
  BY DEF Respects, Locks
<1> QED
  BY <1>1, <1>3, <1>4, <1>5, <1>6, <1>7, <1>8, <1>9

(* Locks are held for as long as the handlers rely on them.                *)
LEMMA LocksHeldStep ==
  ASSUME TypeInv, LocksHeld, NEW w \in Workers, Moves(w)
  PROVE  LocksHeld'
<1>1. locks \in Locks /\ locks' \in Locks /\ Shape(w) /\ JobTyped(w)
  BY MovesTyped, MovesShape, MovesKept DEF TypeInv, TypeOK, Kept
<1>2. Respects(locks, locks', w)
  <2>1. \A step \in DOMAIN WriteAt :
          CanWrite(locks, w, WriteAt[step]) => Respects(locks, Write(locks, w, WriteAt[step]), w)
    BY <1>1, StatementsRespect, StepTables
  <2>2. job[w].step \in DOMAIN ReadAt => ReadAt[job[w].step] \in Tables
    BY StepTables
  <2> QED
    BY <1>1, <2>1, <2>2, ShapeLocks, StatementsRespect
<1> DEFINE Holds(v) ==
      /\ job[v].fetching => ReadAt[job[v].step] \in locks.reads[v]
      /\ job[v].step \in DOMAIN CommitOf =>
           /\ locks.writer = v
           /\ CommitOf[job[v].step] \in locks.writes
           /\ \A other \in Workers \ {v} : CommitOf[job[v].step] \notin locks.reads[other]
<1>3. ASSUME NEW v \in Workers \ {w}
      PROVE  Holds(v)'
  <2>1. job'[v] = job[v] /\ Holds(v)
    BY <1>1 DEF JobTyped, Others, LocksHeld
  <2>2. locks'.reads[v] = locks.reads[v]
    BY <1>2 DEF Respects
  <2>3. CASE job[v].step \in DOMAIN CommitOf
    <3>1. locks.writer = v /\ CommitOf[job[v].step] \in locks.writes
      BY <2>1, <2>3
    <3>2. \A other \in Workers \ {v} : CommitOf[job[v].step] \notin locks.reads[other]
      BY <2>1, <2>3
    <3>3. locks'.writer = v /\ locks'.writes = locks.writes
      BY <1>2, <3>1 DEF Respects
    <3>4. \A other \in Workers \ {v} : CommitOf[job[v].step] \notin locks'.reads[other]
      BY <1>2, <3>1, <3>2 DEF Respects
    <3> QED
      BY <2>1, <2>2, <3>1, <3>3, <3>4
  <2>4. CASE job[v].step \notin DOMAIN CommitOf
    BY <2>1, <2>2, <2>4
  <2> QED
    BY <2>3, <2>4
<1>4. Holds(w)'
  <2>1. CASE Execute(w)
    <3>1. /\ job[w].step \in DOMAIN ReadAt /\ job'[w].step = job[w].step
          /\ locks' = Read(locks, w, ReadAt[job[w].step])
      BY <2>1, ExecuteKept DEF Execute
    <3>2. ReadAt[job[w].step] \in locks'.reads[w]
      BY <1>1, <3>1 DEF Read, Locks
    <3> QED
      BY <3>1, <3>2, StepTables
  <2>2. CASE Leaves(w) \/ Fails(w)
    BY <2>2, StepTables DEF Leaves, Fails
  <2>3. CASE Expire(w)
    <3>1. job' = job /\ job[w].step = "idle"
      BY <2>3 DEF Expire
    <3> QED
      BY <3>1, StepTables, NotFetching
  <2>4. CASE Writes(w)
    <3>1. PICK step \in DOMAIN WriteAt :
            /\ CanWrite(locks, w, WriteAt[step])
            /\ locks' = Write(locks, w, WriteAt[step])
            /\ job'[w].step \in DOMAIN CommitOf /\ CommitOf[job'[w].step] = WriteAt[step]
      BY <2>4 DEF Writes, Modify
    <3>2. /\ locks'.writer = w /\ WriteAt[step] \in locks'.writes
          /\ locks'.reads = locks.reads
      BY <1>1, <3>1 DEF Write, Locks
    <3>3. \A other \in Workers \ {w} : WriteAt[step] \notin locks.reads[other]
      BY <3>1 DEF CanWrite
    <3>4. job'[w].fetching = FALSE
      BY <2>4 DEF Writes
    <3> QED
      BY <3>1, <3>2, <3>3, <3>4
  <2> QED
    BY <1>1, <2>1, <2>2, <2>3, <2>4 DEF Shape, Fetches, Commits, Rests
<1> QED
  BY <1>3, <1>4 DEF LocksHeld

(* From a handler's INSERT or UPDATE to its commit no other handler has    *)
(* written, or is reading, the same table: no dirty read, no two writers.  *)
THEOREM HandlersIsolated == Spec => []Isolation
<1>1. Init => LocksHeld
  <2> SUFFICES ASSUME Init, NEW w \in Workers
               PROVE  job[w].fetching = FALSE /\ job[w].step = "idle"
    BY StepTables DEF LocksHeld
  <2> QED
    BY DEF Init, Answered
<1>2. TypeInv /\ LocksHeld /\ [Next]_vars => LocksHeld'
  <2>1. ASSUME TypeInv, LocksHeld, Next PROVE LocksHeld'
    <3>1. PICK w \in Workers : Moves(w)
      BY <2>1 DEF Next, Moves
    <3> QED
      BY <2>1, <3>1, LocksHeldStep
  <2>2. LocksHeld /\ UNCHANGED vars => LocksHeld'
    BY DEF LocksHeld, vars
  <2> QED
    BY <2>1, <2>2
<1>3. TypeInv /\ LocksHeld => Isolation
  <2> SUFFICES ASSUME TypeInv, LocksHeld,
                      NEW w \in Workers, NEW other \in Workers,
                      w # other, job[w].step \in DOMAIN CommitOf
               PROVE  /\ job[other].step \notin DOMAIN CommitOf
                      /\ job[other].fetching => ReadAt[job[other].step] # CommitOf[job[w].step]
    BY DEF Isolation
  <2>1. locks.writer = w /\ CommitOf[job[w].step] \notin locks.reads[other]
    BY DEF LocksHeld
  <2>2. /\ job[other].step \in DOMAIN CommitOf => locks.writer = other
        /\ job[other].fetching => ReadAt[job[other].step] \in locks.reads[other]
    BY DEF LocksHeld
  <2> QED
    BY <2>1, <2>2
<1>4. TypeInv /\ [Next]_vars => TypeInv'
  BY TypeStep
<1> QED
  BY TypeInit, <1>1, <1>2, <1>3, <1>4, PTL DEF Spec

-----------------------------------------------------------------------------
(***************************************************************************)
(* Transactions that outlive their request.                                *)
(***************************************************************************)
(* No statement of k begins or ends another connection's transaction; only *)
(* a COMMIT ends k's own, and a SELECT begins none.                        *)
LEMMA BegunAfter ==
  ASSUME NEW lk \in Locks, NEW k \in Workers
  PROVE  /\ Release(lk, k).begun = lk.begun \ {k}
         /\ EndStatement(lk, k).begun = lk.begun
         /\ \A table \in Tables :
              /\ Read(lk, k, table).begun = lk.begun
              /\ EndStatement(Read(lk, k, table), k).begun = lk.begun
              /\ Write(lk, k, table).begun = lk.begun \cup {k}
         /\ ReadRefused(lk, k).begun = lk.begun
         /\ WriteRefused(lk, k).begun = lk.begun \cup {k}
         /\ [lk EXCEPT !.begun = lk.begun \cup {k}].begun = lk.begun \cup {k}
<1>1. ASSUME NEW a \in Locks
      PROVE  Release(a, k).begun = a.begun \ {k} /\ EndStatement(a, k).begun = a.begun
  BY DEF Release, EndStatement, Locks
<1>2. ASSUME NEW table \in Tables
      PROVE  Read(lk, k, table).begun = lk.begun /\ Read(lk, k, table) \in Locks
  <2>1. Read(lk, k, table) \in Locks
    BY LockTypes
  <2>2. Read(lk, k, table).begun = lk.begun
    BY DEF Read, Locks
  <2> QED
    BY <2>1, <2>2
<1>3. ASSUME NEW table \in Tables
      PROVE  EndStatement(Read(lk, k, table), k).begun = lk.begun
  BY <1>1, <1>2
<1>4. ReadRefused(lk, k).begun = lk.begun
  BY DEF ReadRefused, Locks
<1>5. WriteRefused(lk, k).begun = lk.begun \cup {k}
  BY DEF WriteRefused, Locks
<1>6. ASSUME NEW table \in Tables
      PROVE  Write(lk, k, table).begun = lk.begun \cup {k}
  BY DEF Write, Locks
<1>7. [lk EXCEPT !.begun = lk.begun \cup {k}].begun = lk.begun \cup {k}
  BY DEF Locks
<1> QED
  BY <1>1, <1>2, <1>3, <1>4, <1>5, <1>6, <1>7

(* A transaction is left open by errors only.                              *)
LEMMA BegunStep ==
  ASSUME TypeInv, BegunByErrors, NEW w \in Workers, Moves(w)
  PROVE  BegunByErrors'
<1>1. locks \in Locks /\ Shape(w) /\ JobTyped(w) /\ failed \in BOOLEAN
  BY MovesShape, MovesKept DEF TypeInv, TypeOK, Kept
<1>2. \/ locks'.begun = locks.begun
      \/ locks'.begun = locks.begun \ {w}
      \/ locks'.begun = locks.begun \cup {w} /\ (Writes(w) \/ Fails(w))
  <2>1. \A step \in DOMAIN WriteAt :
          Write(locks, w, WriteAt[step]).begun = locks.begun \cup {w}
    BY <1>1, BegunAfter, StepTables
  <2>2. job[w].step \in DOMAIN ReadAt =>
          Read(locks, w, ReadAt[job[w].step]).begun = locks.begun
    BY <1>1, BegunAfter, StepTables
  <2>3. \A table \in Tables : EndStatement(Read(locks, w, table), w).begun = locks.begun
    BY <1>1, BegunAfter
  <2>4. /\ Release(locks, w).begun = locks.begun \ {w}
        /\ EndStatement(locks, w).begun = locks.begun
        /\ ReadRefused(locks, w).begun = locks.begun
        /\ WriteRefused(locks, w).begun = locks.begun \cup {w}
        /\ [locks EXCEPT !.begun = @ \cup {w}].begun = locks.begun \cup {w}
    BY <1>1, BegunAfter
  <2> QED
    BY <1>1, <2>1, <2>2, <2>3, <2>4, ShapeLocks
<1>3. failed => failed'
  <2>1. Execute(w) \/ Expire(w) => UNCHANGED failed
    BY DEF Execute, Expire
  <2> QED
    BY <1>1, <2>1 DEF Shape, Fetches, Writes, Commits, Fails, Rests
<1> DEFINE Erred(v) ==
      v \in locks.begun /\ job[v].step \notin DOMAIN CommitOf =>
        failed /\ (job[v].wrote = {} \/ job[v].code = 500)
<1>4. ASSUME NEW v \in Workers \ {w} PROVE Erred(v)'
  <2>1. job'[v] = job[v] /\ Erred(v) /\ (v \in locks'.begun => v \in locks.begun)
    BY <1>1, <1>2 DEF JobTyped, Others, BegunByErrors
  <2> QED
    BY <1>3, <2>1
<1>5. Erred(w)'
  <2>1. Erred(w)
    BY DEF BegunByErrors
  <2>2. job[w].step # "idle" => job[w].code = 0
    BY AtStep DEF Admitted
  <2>3. CASE Execute(w)
    <3>1. /\ job'[w].step = job[w].step /\ job'[w].wrote = job[w].wrote
          /\ job'[w].code = job[w].code /\ ~Writes(w) /\ ~Fails(w)
      <4>1. job'[w].fetching = TRUE
        BY <2>3, ExecuteKept
      <4> QED
        BY <2>3, <4>1, ExecuteKept DEF Writes, Fails
    <3>2. w \in locks'.begun => w \in locks.begun
      BY <1>2, <3>1
    <3> QED
      BY <1>3, <2>1, <3>1, <3>2
  <2>4. CASE Fetches(w)
    <3>1. job[w].step \in DOMAIN ReadAt
      BY <2>4 DEF Fetches, Fetch
    <3>2. job[w].step # "idle" /\ job[w].step \notin DOMAIN CommitOf
      BY <3>1, StepTables
    <3>3. ~Fails(w) \/ failed'
      BY DEF Fails
    <3>4. ~Writes(w)
      BY <2>4 DEF Fetches, Leaves, Writes
    <3>5. job'[w].wrote \subseteq job[w].wrote
      BY <2>4 DEF Fetches, Leaves
    <3>6. CASE Fails(w)
      BY <3>6 DEF Fails
    <3>7. CASE ~Fails(w)
      <4>1. w \in locks'.begun => failed /\ job[w].wrote = {}
        BY <1>2, <2>1, <2>2, <3>2, <3>4, <3>7
      <4> QED
        BY <1>3, <3>5, <4>1
    <3> QED
      BY <3>6, <3>7
  <2>5. CASE Writes(w)
    BY <2>5 DEF Writes
  <2>6. CASE Commits(w) \/ Expire(w)
    <3>1. locks' = Release(locks, w)
      BY <2>6 DEF Commits, Commit, Expire
    <3>2. w \notin locks'.begun
      BY <1>1, <3>1, BegunAfter
    <3> QED
      BY <3>2
  <2>7. CASE Fails(w)
    BY <2>7 DEF Fails
  <2>8. CASE Rests(w)
    <3>1. /\ locks' = locks /\ job'[w].wrote \subseteq job[w].wrote
          /\ job[w].step \in {"idle", "respond"}
          /\ job[w].step = "idle" => job'[w].wrote = {}
      BY <2>8 DEF Rests, Leaves
    <3>2. job[w].step \notin DOMAIN CommitOf
      BY <3>1, StepTables
    <3>3. w \in locks.begun => failed /\ job'[w].wrote = {}
      BY <2>1, <2>2, <3>1, <3>2
    <3> QED
      BY <1>3, <3>1, <3>3
  <2> QED
    BY <1>1, <2>3, <2>4, <2>5, <2>6, <2>7, <2>8 DEF Shape
<1> QED
  BY <1>4, <1>5 DEF BegunByErrors

(* Only a request answered 500 leaves a thread's connection inside a       *)
(* transaction; one that wrote and succeeded leaves it clean.              *)
THEOREM ErrorsHoldLocks == Spec => []OnlyErrorsHoldLocks
<1>1. Init => BegunByErrors
  BY DEF Init, NoLocks, BegunByErrors
<1>2. TypeInv /\ BegunByErrors /\ [Next]_vars => BegunByErrors'
  <2>1. ASSUME TypeInv, BegunByErrors, Next PROVE BegunByErrors'
    <3>1. PICK w \in Workers : Moves(w)
      BY <2>1 DEF Next, Moves
    <3> QED
      BY <2>1, <3>1, BegunStep
  <2>2. BegunByErrors /\ UNCHANGED vars => BegunByErrors'
    BY DEF BegunByErrors, vars
  <2> QED
    BY <2>1, <2>2
<1>3. TypeInv /\ BegunByErrors => OnlyErrorsHoldLocks
  <2> SUFFICES ASSUME BegunByErrors, NEW w \in Workers,
                      job[w].step = "idle", w \in locks.begun
               PROVE  failed /\ ~(job[w].code < 500 /\ job[w].wrote # {})
    BY DEF OnlyErrorsHoldLocks
  <2>1. failed /\ (job[w].wrote = {} \/ job[w].code = 500)
    BY StepTables DEF BegunByErrors
  <2> QED
    BY <2>1
<1>4. TypeInv /\ [Next]_vars => TypeInv'
  BY TypeStep
<1> QED
  BY TypeInit, <1>1, <1>2, <1>3, <1>4, PTL DEF Spec

-----------------------------------------------------------------------------
(***************************************************************************)
(* Answers.                                                                *)
(***************************************************************************)
(* What a step that changes the thread's answer may answer: a refusal when *)
(* nothing is written, 200 for an approval or an undoing after its entry's *)
(* commit, and for a batch when all its sessions are recorded.             *)
Honest(w) ==
  /\ job'[w].code \in 400..499 => job'[w].wrote = {}
  /\ job'[w].step = "idle" /\ job'[w].code = 200 =>
       /\ job'[w].req = job[w].req
       /\ Op(w) \in {"approve", "undo"} => job[w].step = "commit_entry"
       /\ Op(w) = "usage" =>
            \A i \in DOMAIN job[w].req.sessions : Recorded(User(w), job[w].req.sessions[i])'

(* A success, and a step that goes on, refuse nothing.                     *)
LEMMA AnswersWith ==
  ASSUME TypeInv, NEW w \in Workers
  PROVE  /\ Answer(w, 200) => job'[w].code = 200 /\ job'[w].req = job[w].req
         /\ Answer(w, 201) => job'[w].code = 201
         /\ Audit(w) => job'[w].code = 200 /\ job'[w].req = job[w].req
<1>1. job \in [Workers -> Job]
  BY DEF TypeInv, TypeOK
<1>2. Answer(w, 200) => job'[w].code = 200 /\ job'[w].req = job[w].req
  BY <1>1 DEF Answer, Answered
<1>3. Answer(w, 201) => job'[w].code = 201
  BY <1>1 DEF Answer, Answered
<1>4. Audit(w) => job'[w].code = 200 /\ job'[w].req = job[w].req
  BY <1>1 DEF Audit, Answered
<1> QED
  BY <1>2, <1>3, <1>4

(* Every step is honest, but for a thread that only expires.               *)
LEMMA StepsHonest ==
  ASSUME TypeInv, NEW w \in Workers, Moves(w), ~Expire(w)
  PROVE  Honest(w)
<1>1. job[w].step # "idle" =>
        /\ job[w].code = 0
        /\ job[w].step \in Checking => job[w].wrote = {}
  BY AtStep DEF Admitted
<1> DEFINE Onward == {"recheck", "update_task", "cover", "last", "get_balance", "insert_task",
                    "check_family", "history", "view"}
<1>2. /\ Onward \subseteq Steps \ {"idle"}
      /\ Codes \in SUBSET Int
  BY StepTables DEF Steps, Codes
<1>3. ASSUME job'[w].code = 0 PROVE Honest(w)
  BY <1>3 DEF Honest
<1>4. ASSUME NEW step \in Onward,
             job[w].step # "idle", Goto(w, step)
      PROVE  Honest(w)
  <2>1. job'[w].code = job[w].code
    BY <1>2, <1>4, GoesTo
  <2> QED
    BY <1>1, <1>3, <1>4, <2>1
<1>5. ASSUME NEW code \in Codes, job[w].step \in Checking, Answer(w, code),
             code = 200 => Op(w) = "create"
      PROVE  Honest(w)
  <2>1. job'[w].wrote = job[w].wrote /\ job'[w].code = code /\ job'[w].req = job[w].req
    BY <1>5, GoesTo
  <2>2. job[w].step # "idle"
    BY <1>5 DEF Checking
  <2> QED
    BY <1>1, <1>5, <2>1, <2>2 DEF Honest
<1>6. ASSUME job'[w].code \in {200, 201}, job'[w].req = job[w].req \/ job'[w].code = 201,
             Op(w) \in {"approve", "undo"} => job[w].step = "commit_entry",
             Op(w) # "usage"
      PROVE  Honest(w)
  BY <1>6 DEF Honest
<1>7. ASSUME job[w].step # "idle", Op(w) = "usage", NextSession(w),
             job'[w].step = "idle" =>
               \A i \in DOMAIN job[w].req.sessions : Recorded(User(w), job[w].req.sessions[i])'
      PROVE  Honest(w)
  <2>1. job'[w].code \in {200, job[w].code} /\ job'[w].req = job[w].req
    BY <1>7, GoesTo
  <2>2. job'[w].code \in {200, 0}
    BY <1>1, <1>7, <2>1
  <2> QED
    BY <1>7, <2>1, <2>2 DEF Honest
<1>8. Execute(w) => Honest(w)
  <2> SUFFICES ASSUME Execute(w) PROVE Honest(w)
    OBVIOUS
  <2>1. job[w].step # "idle"
    BY StepTables DEF Execute
  <2> QED
    BY <1>1, <1>3, <2>1, ExecuteKept
<1>9. LockedOut(w) \/ Overflow(w) \/ KeyTaken(w) => Honest(w)
  <2>1. LockedOut(w) \/ Overflow(w) \/ KeyTaken(w) => Fail(w)
    BY DEF LockedOut, Overflow, KeyTaken
  <2>2. job'[w].code = 500 => Honest(w)
    BY DEF Honest
  <2> QED
    BY <2>1, <2>2, FailAnswers
<1>10. CheckChild(w) => Honest(w)
  <2> SUFFICES ASSUME CheckChild(w) PROVE Honest(w)
    OBVIOUS
  <2>1. job[w].step = "check_child" /\ Op(w) = "create"
    BY AtStep DEF CheckChild, Fetch
  <2>2. Goto(w, "insert_task") \/ \E code \in Codes : Answer(w, code)
    BY CodesType DEF CheckChild
  <2> QED
    BY <1>4, <1>5, <2>1, <2>2 DEF Checking
<1>11. GetTask(w) => Honest(w)
  <2> SUFFICES ASSUME GetTask(w) PROVE Honest(w)
    OBVIOUS
  <2>1. job[w].step = "get_task"
    BY DEF GetTask, Fetch
  <2>2. \/ Goto(w, "check_family") \/ Goto(w, "recheck")
        \/ \E code \in Codes : Answer(w, code) /\ code # 200
    BY CodesType DEF GetTask, Codes
  <2> QED
    BY <1>4, <1>5, <2>1, <2>2 DEF Checking
<1>24. CheckFamily(w) => Honest(w)
  <2> SUFFICES ASSUME CheckFamily(w) PROVE Honest(w)
    OBVIOUS
  <2>1. job[w].step = "check_family"
    BY DEF CheckFamily, Fetch
  <2>2. Goto(w, "recheck") \/ \E code \in Codes : Answer(w, code) /\ code # 200
    BY CodesType DEF CheckFamily, Codes
  <2> QED
    BY <1>4, <1>5, <2>1, <2>2 DEF Checking
<1>25. CheckAccess(w) => Honest(w)
  <2> SUFFICES ASSUME CheckAccess(w) PROVE Honest(w)
    OBVIOUS
  <2>1. job[w].step = "check_access"
    BY DEF CheckAccess, Fetch
  <2>2. \/ Goto(w, "history") \/ Goto(w, "view")
        \/ \E code \in Codes : Answer(w, code) /\ code # 200
    BY CodesType DEF CheckAccess, Codes
  <2> QED
    BY <1>4, <1>5, <2>1, <2>2 DEF Checking
<1>12. Recheck(w) => Honest(w)
  <2> SUFFICES ASSUME Recheck(w) PROVE Honest(w)
    OBVIOUS
  <2>1. job[w].step = "recheck"
    BY DEF Recheck, Fetch
  <2>2. Goto(w, "update_task") \/ \E code \in Codes : Answer(w, code) /\ code # 200
    BY CodesType DEF Recheck, Codes
  <2> QED
    BY <1>4, <1>5, <2>1, <2>2 DEF Checking
<1>13. InsertTask(w) \/ UpdateTask(w) => Honest(w)
  <2> SUFFICES ASSUME InsertTask(w) \/ UpdateTask(w) PROVE Honest(w)
    OBVIOUS
  <2>1. /\ job[w].step \in {"insert_task", "update_task"}
        /\ Wrote(w, "task", "commit_task")
    BY DEF InsertTask, UpdateTask, Modify
  <2>2. job \in [Workers -> Job] /\ "commit_task" \in Steps
    BY StepTables DEF TypeInv, TypeOK, Steps
  <2>3. job'[w].code = job[w].code
    BY <2>1, <2>2, WroteJob
  <2> QED
    BY <1>1, <1>3, <2>1, <2>3
<1>14. CommitTask(w) => Honest(w)
  <2> SUFFICES ASSUME CommitTask(w) PROVE Honest(w)
    OBVIOUS
  <2>1. job[w].step = "commit_task" /\ Op(w) # "usage"
    BY AtStep DEF CommitTask, Commit, TaskOps
  <2>2. CASE Op(w) \in {"approve", "undo"}
    BY <1>4, <2>1, <2>2 DEF CommitTask
  <2>3. CASE Op(w) \notin {"approve", "undo"}
    <3>1. Answer(w, 200) \/ Answer(w, 201)
      BY <2>3 DEF CommitTask
    <3> QED
      BY <1>6, <2>1, <2>3, <3>1, AnswersWith
  <2> QED
    BY <2>2, <2>3
<1>15. ReadBalance(w) \/ Cover(w) \/ InsertEntry(w) \/ InsertSession(w) => Honest(w)
  <2> SUFFICES ASSUME ReadBalance(w) \/ Cover(w) \/ InsertEntry(w) \/ InsertSession(w)
               PROVE  Honest(w)
    OBVIOUS
  <2>1. job[w].step \in {"get_balance", "cover", "insert_entry", "insert_session"}
    BY DEF ReadBalance, Cover, InsertEntry, InsertSession, Fetch, Modify
  <2>2. job'[w].code = job[w].code
    BY ReadBalanceKept, CoverKept, InsertEntryKept, InsertSessionKept
  <2> QED
    BY <1>1, <1>3, <2>1, <2>2
<1>16. CommitEntry(w) => Honest(w)
  <2> SUFFICES ASSUME CommitEntry(w) PROVE Honest(w)
    OBVIOUS
  <2>1. job[w].step = "commit_entry"
    BY DEF CommitEntry, Commit
  <2>2. CASE Op(w) = "usage"
    <3>1. NextSession(w)
      BY <2>2 DEF CommitEntry
    <3> QED
      BY <1>7, <2>1, <2>2, <3>1, CommitEntryKept
  <2>3. CASE Op(w) # "usage"
    <3>1. Answer(w, 200)
      BY <2>3 DEF CommitEntry
    <3> QED
      BY <1>6, <2>1, <2>3, <3>1, AnswersWith
  <2> QED
    BY <2>2, <2>3
<1>17. FindExisting(w) => Honest(w)
  <2> SUFFICES ASSUME FindExisting(w) PROVE Honest(w)
    OBVIOUS
  <2>1. job[w].step = "find" /\ Op(w) = "usage"
    BY AtStep DEF FindExisting, Fetch
  <2>2. NextSession(w) \/ Goto(w, "cover")
    BY DEF FindExisting
  <2> QED
    BY <1>4, <1>7, <2>1, <2>2, FindExistingKept
<1>18. CommitSession(w) => Honest(w)
  <2> SUFFICES ASSUME CommitSession(w) PROVE Honest(w)
    OBVIOUS
  <2>1. job[w].step = "commit_session" /\ Op(w) = "usage"
    BY AtStep DEF CommitSession, Commit
  <2>2. NextSession(w) \/ Goto(w, "get_balance")
    BY DEF CommitSession
  <2> QED
    BY <1>4, <1>7, <2>1, <2>2, CommitSessionKept
<1>19. ViewBalance(w) \/ Health(w) \/ Audit(w) => Honest(w)
  <2> SUFFICES ASSUME ViewBalance(w) \/ Health(w) \/ Audit(w) PROVE Honest(w)
    OBVIOUS
  <2>1. job[w].step \in {"view", "respond", "sum"}
    BY DEF ViewBalance, Health, Audit, Fetch
  <2>2. Op(w) \in {"balance", "ledger", "health"}
    BY <2>1, AtStep
  <2>3. Answer(w, 200) \/ Audit(w)
    BY DEF ViewBalance, Health
  <2> QED
    BY <1>6, <2>2, <2>3, AnswersWith
<1>20. ReadHistory(w) => Honest(w)
  <2> SUFFICES ASSUME ReadHistory(w) PROVE Honest(w)
    OBVIOUS
  <2>1. job[w].step = "history" /\ Goto(w, "last")
    BY DEF ReadHistory, Fetch
  <2> QED
    BY <1>4, <2>1
<1>21. ReadLast(w) => Honest(w)
  <2> SUFFICES ASSUME ReadLast(w) PROVE Honest(w)
    OBVIOUS
  <2>1. job[w].step = "last"
    BY DEF ReadLast, Fetch
  <2>2. job'[w].code = job[w].code
    <3>1. job \in [Workers -> Job]
      BY DEF TypeInv, TypeOK
    <3>2. job[w] \in Job
      BY <3>1
    <3> QED
      BY <3>1, <3>2 DEF ReadLast, Job
  <2>3. job[w].code = 0
    BY <1>1, <2>1
  <2>4. job'[w].code = 0
    BY <2>2, <2>3
  <2> QED
    BY <1>3, <2>4
<1>22. ASSUME NEW q \in Menu, Accept(w, q) PROVE Honest(w)
  <2>1. job'[w].wrote = {} /\ (job'[w].step = "idle" => job'[w].code # 200)
    BY <1>22, AcceptKept
  <2> QED
    BY <2>1 DEF Honest
<1>23. Step(w) => Honest(w)
  <2> HIDE DEF Honest
  <2> QED
    BY <1>8, <1>9, <1>10, <1>11, <1>12, <1>13, <1>14, <1>15, <1>16, <1>17, <1>18, <1>19,
       <1>20, <1>21, <1>24, <1>25 DEF Step
<1> QED
  BY <1>22, <1>23 DEF Moves

(* An answer that refuses the request means that nothing was written.      *)
THEOREM NothingWrittenByRefusals == Spec => []RefusalsWriteNothing
<1>1. Init => RefusalsWriteNothing
  BY DEF Init, Answered, RefusalsWriteNothing
<1>2. TypeInv /\ RefusalsWriteNothing /\ [Next]_vars => RefusalsWriteNothing'
  <2>1. ASSUME TypeInv, RefusalsWriteNothing, Next, NEW v \in Workers, job'[v].code \in 400..499
        PROVE  job'[v].wrote = {}
    <3>1. PICK w \in Workers : Moves(w)
      BY <2>1 DEF Next, Moves
    <3>2. CASE v = w /\ ~Expire(w)
      BY <2>1, <3>1, <3>2, StepsHonest DEF Honest
    <3>3. CASE v # w \/ Expire(w)
      <4>1. job'[v] = job[v]
        <5>1. Kept(w)
          BY <2>1, <3>1, MovesKept
        <5> QED
          BY <3>3, <5>1 DEF Kept, JobTyped, Others, Expire
      <4> QED
        BY <2>1, <4>1 DEF RefusalsWriteNothing
    <3> QED
      BY <3>2, <3>3
  <2>2. RefusalsWriteNothing /\ UNCHANGED vars => RefusalsWriteNothing'
    BY DEF RefusalsWriteNothing, vars
  <2> QED
    BY <2>1, <2>2 DEF RefusalsWriteNothing
<1>3. TypeInv /\ [Next]_vars => TypeInv'
  BY TypeStep
<1> QED
  BY TypeInit, <1>1, <1>2, <1>3, PTL DEF Spec

-----------------------------------------------------------------------------
(***************************************************************************)
(* Which statement a thread executes where, and what it leads to.          *)
(***************************************************************************)
Failing(w) == LockedOut(w) \/ Overflow(w) \/ KeyTaken(w)

(* The statements at the steps from a write to the end of what it owes.    *)
LEMMA ActionAt ==
  ASSUME NEW w \in Workers, Moves(w)
  PROVE  /\ job[w].step = "commit_task" => CommitTask(w)
         /\ job[w].step = "commit_session" => CommitSession(w)
         /\ job[w].step = "get_balance" => Execute(w) \/ ReadBalance(w) \/ Failing(w)
         /\ job[w].step = "insert_entry" => InsertEntry(w) \/ Failing(w)
         /\ Failing(w) => Fail(w) /\ UNCHANGED tables
         /\ \/ UNCHANGED tables \/ InsertTask(w) \/ UpdateTask(w)
            \/ InsertSession(w) \/ InsertEntry(w)
<1>1. /\ Execute(w) => job[w].step \in DOMAIN ReadAt
      /\ LockedOut(w) => job[w].step \in DOMAIN ReadAt \cup DOMAIN WriteAt
      /\ Overflow(w) => job[w].step \in {"sum"} \cup DOMAIN WriteAt
      /\ KeyTaken(w) => job[w].step = "insert_session"
  BY DEF Execute, LockedOut, Refused, Overflow, KeyTaken, Modify
<1>2. /\ Health(w) => job[w].step = "respond"
      /\ InsertTask(w) => job[w].step = "insert_task"
      /\ UpdateTask(w) => job[w].step = "update_task"
      /\ InsertEntry(w) => job[w].step = "insert_entry"
      /\ InsertSession(w) => job[w].step = "insert_session"
      /\ CommitTask(w) => job[w].step = "commit_task"
      /\ CommitEntry(w) => job[w].step = "commit_entry"
      /\ CommitSession(w) => job[w].step = "commit_session"
  BY DEF Health, InsertTask, UpdateTask, InsertEntry, InsertSession,
         CommitTask, CommitEntry, CommitSession, Modify, Commit
<1>3. /\ CheckChild(w) => job[w].step = "check_child"
      /\ CheckFamily(w) => job[w].step = "check_family"
      /\ CheckAccess(w) => job[w].step = "check_access"
      /\ GetTask(w) => job[w].step = "get_task"
      /\ Recheck(w) => job[w].step = "recheck"
      /\ ReadBalance(w) => job[w].step = "get_balance"
      /\ FindExisting(w) => job[w].step = "find"
      /\ Cover(w) => job[w].step = "cover"
      /\ ViewBalance(w) => job[w].step = "view"
      /\ ReadHistory(w) => job[w].step = "history"
      /\ ReadLast(w) => job[w].step = "last"
      /\ Audit(w) => job[w].step = "sum"
  BY DEF CheckChild, CheckFamily, CheckAccess, GetTask, Recheck, ReadBalance, FindExisting,
         Cover, ViewBalance, ReadHistory, ReadLast, Audit, Fetch
<1>4. /\ Expire(w) => job[w].step = "idle"
      /\ \A q \in Menu : Accept(w, q) => job[w].step = "idle"
  BY DEF Expire, Accept
<1>5. Failing(w) => Fail(w) /\ UNCHANGED tables
  BY DEF Failing, LockedOut, Overflow, KeyTaken, tables
<1>6. \/ UNCHANGED tables \/ InsertTask(w) \/ UpdateTask(w)
      \/ InsertSession(w) \/ InsertEntry(w)
  <2>1. Execute(w) \/ Health(w) \/ Expire(w) => UNCHANGED tables
    BY DEF Execute, Health, Expire
  <2>2. CheckChild(w) \/ CheckFamily(w) \/ CheckAccess(w) \/ GetTask(w) \/ Recheck(w) \/ ReadBalance(w) \/ FindExisting(w) \/ Cover(w)
          \/ ViewBalance(w) \/ ReadHistory(w) \/ ReadLast(w) \/ Audit(w) => UNCHANGED tables
    BY DEF CheckChild, CheckFamily, CheckAccess, GetTask, Recheck, ReadBalance, FindExisting,
           Cover, ViewBalance, ReadHistory, ReadLast, Audit, Fetch
  <2>3. CommitTask(w) \/ CommitEntry(w) \/ CommitSession(w) => UNCHANGED tables
    BY DEF CommitTask, CommitEntry, CommitSession, Commit
  <2>4. \A q \in Menu : Accept(w, q) => UNCHANGED tables
    BY DEF Accept
  <2> QED
    BY <1>5, <2>1, <2>2, <2>3, <2>4 DEF Moves, Step, Failing
<1> QED
  BY <1>1, <1>2, <1>3, <1>4, <1>5, <1>6, StepTables DEF Moves, Step, Failing

(* A request is answered at the door or starts its handler.                *)
LEMMA AcceptGoes ==
  ASSUME TypeInv, NEW w \in Workers, NEW q \in Menu, Accept(w, q)
  PROVE  job'[w].step = "idle" \/ (DoorCode(q) = 200 /\ job'[w].step = FirstStep(q))
<1>1. job \in [Workers -> Job]
  BY DEF TypeInv, TypeOK
<1>2. \/ DoorCode(q) = 200 /\ job'[w] = Started(q)
      \/ \E code : job'[w] = Answered(q, code)
  BY <1>1 DEF Accept
<1>3. Started(q).step = FirstStep(q) /\ \A code : Answered(q, code).step = "idle"
  BY DEF Started, Answered
<1> QED
  BY <1>2, <1>3

(* The statements that lead to these steps, and to a commit of an entry.   *)
LEMMA LeadsTo ==
  ASSUME TypeInv, NEW w \in Workers, Moves(w), ~Expire(w)
  PROVE  /\ job'[w].step = "commit_session" => InsertSession(w)
         /\ job'[w].step = "commit_entry" => InsertEntry(w)
         /\ job'[w].step = "insert_entry" => ReadBalance(w) \/ Execute(w)
         /\ job'[w].step = "get_balance" =>
              \/ Execute(w)
              \/ CommitTask(w) /\ Goto(w, "get_balance") /\ Op(w) \in {"approve", "undo"}
              \/ CommitSession(w) /\ Goto(w, "get_balance")
         /\ job'[w].step = "update_task" => Recheck(w) /\ Goto(w, "update_task")
<1> DEFINE Late == {"commit_session", "commit_entry", "insert_entry", "get_balance", "update_task"}
           Early == {"recheck", "cover", "last", "insert_task", "check_family", "history", "view"}
<1>1. /\ Early \subseteq Steps \ Late /\ "idle" \notin Late /\ "find" \notin Late
      /\ "commit_task" \notin Late /\ "insert_session" \notin Late /\ "sum" \notin Late
      /\ {200, 201} \subseteq Codes
  BY StepTables DEF Steps, Codes
<1> HIDE DEF Late, Early
<1>2. ASSUME NEW step \in Early, Goto(w, step) PROVE job'[w].step \notin Late
  <2>1. step \in Steps
    BY <1>1
  <2> QED
    BY <1>1, <1>2, <2>1, GoesTo
<1>3. ASSUME NEW code \in Codes, Answer(w, code) PROVE job'[w].step \notin Late
  BY <1>1, <1>3, GoesTo
<1>4. CheckChild(w) => job'[w].step \notin Late
  <2> SUFFICES ASSUME CheckChild(w) PROVE job'[w].step \notin Late
    OBVIOUS
  <2>1. Goto(w, "insert_task") \/ \E code \in Codes : Answer(w, code)
    BY CodesType DEF CheckChild
  <2> QED
    BY <1>2, <1>3, <2>1 DEF Early
<1>5. GetTask(w) => job'[w].step \notin Late
  <2> SUFFICES ASSUME GetTask(w) PROVE job'[w].step \notin Late
    OBVIOUS
  <2>1. \/ Goto(w, "check_family") \/ Goto(w, "recheck")
        \/ \E code \in Codes : Answer(w, code)
    BY CodesType DEF GetTask, Codes
  <2> QED
    BY <1>2, <1>3, <2>1 DEF Early
<1>20. CheckFamily(w) => job'[w].step \notin Late
  <2> SUFFICES ASSUME CheckFamily(w) PROVE job'[w].step \notin Late
    OBVIOUS
  <2>1. Goto(w, "recheck") \/ \E code \in Codes : Answer(w, code)
    BY CodesType DEF CheckFamily, Codes
  <2> QED
    BY <1>2, <1>3, <2>1 DEF Early
<1>21. CheckAccess(w) => job'[w].step \notin Late
  <2> SUFFICES ASSUME CheckAccess(w) PROVE job'[w].step \notin Late
    OBVIOUS
  <2>1. \/ Goto(w, "history") \/ Goto(w, "view")
        \/ \E code \in Codes : Answer(w, code)
    BY CodesType DEF CheckAccess, Codes
  <2> QED
    BY <1>2, <1>3, <2>1 DEF Early
<1>6. Recheck(w) /\ job'[w].step \in Late =>
        job'[w].step = "update_task" /\ Goto(w, "update_task")
  <2> SUFFICES ASSUME Recheck(w), job'[w].step \in Late
               PROVE  job'[w].step = "update_task" /\ Goto(w, "update_task")
    OBVIOUS
  <2>1. Goto(w, "update_task") \/ \E code \in Codes : Answer(w, code)
    BY CodesType DEF Recheck, Codes
  <2>2. "update_task" \in Steps
    BY StepTables DEF Steps
  <2> QED
    BY <1>3, <2>1, <2>2, GoesTo
<1>7. FindExisting(w) => job'[w].step \notin Late
  <2> SUFFICES ASSUME FindExisting(w) PROVE job'[w].step \notin Late
    OBVIOUS
  <2>1. Goto(w, "cover") \/ NextSession(w)
    BY DEF FindExisting
  <2>2. job[w].step # "idle" /\ Op(w) = "usage"
    BY AtStep DEF FindExisting, Fetch
  <2>3. NextSession(w) => job'[w].step \in {"idle", "find"}
    BY <2>2, GoesTo
  <2> QED
    BY <1>1, <1>2, <2>1, <2>3 DEF Early
<1>8. CommitEntry(w) => job'[w].step \notin Late
  <2> SUFFICES ASSUME CommitEntry(w) PROVE job'[w].step \notin Late
    OBVIOUS
  <2>1. (Op(w) = "usage" /\ NextSession(w)) \/ Answer(w, 200)
    BY DEF CommitEntry
  <2>2. job[w].step # "idle"
    BY DEF CommitEntry, Commit
  <2>3. Op(w) = "usage" /\ NextSession(w) => job'[w].step \in {"idle", "find"}
    BY <2>2, GoesTo
  <2> QED
    BY <1>1, <1>3, <2>1, <2>3
<1>9. ViewBalance(w) \/ Health(w) => job'[w].step \notin Late
  BY <1>1, <1>3 DEF ViewBalance, Health
<1>10. ReadHistory(w) => job'[w].step \notin Late
  BY <1>2 DEF ReadHistory, Early
<1>11. Audit(w) \/ ReadLast(w) => job'[w].step \notin Late
  <2>1. job \in [Workers -> Job]
    BY DEF TypeInv, TypeOK
  <2>2. job[w] \in Job
    BY <2>1
  <2>3. Audit(w) => job'[w].step = "idle"
    BY <2>1 DEF Audit, Answered
  <2>4. ReadLast(w) => job'[w].step = "sum"
    BY <2>1, <2>2 DEF ReadLast, Job
  <2> QED
    BY <1>1, <2>3, <2>4
<1>12. Cover(w) => job'[w].step \notin Late
  BY <1>1, CoverKept
<1>13. Failing(w) => job'[w].step \notin Late
  <2> SUFFICES ASSUME Failing(w) PROVE job'[w].step \notin Late
    OBVIOUS
  <2>1. Fail(w)
    BY ActionAt
  <2>2. job'[w].step = "idle"
    BY <2>1, FailAnswers
  <2> QED
    BY <1>1, <2>2
<1>14. InsertTask(w) \/ UpdateTask(w) => job'[w].step \notin Late
  <2> SUFFICES ASSUME InsertTask(w) \/ UpdateTask(w) PROVE job'[w].step = "commit_task"
    BY <1>1
  <2>1. job \in [Workers -> Job] /\ "commit_task" \in Steps
    BY StepTables DEF TypeInv, TypeOK, Steps
  <2>2. Wrote(w, "task", "commit_task")
    BY DEF InsertTask, UpdateTask
  <2> QED
    BY <2>1, <2>2, WroteJob
<1>15. ASSUME NEW q \in Menu, Accept(w, q) PROVE job'[w].step \notin Late
  <2>1. job'[w].step \notin Settling
    BY <1>15, AcceptKept
  <2>2. job'[w].step # "update_task"
    <3>1. job'[w].step = "idle" \/ (DoorCode(q) = 200 /\ job'[w].step = FirstStep(q))
      BY <1>15, AcceptGoes
    <3>2. DoorCode(q) = 200 =>
            q.op \in {"create", "usage", "balance", "ledger", "health"} \cup TaskOps
      BY AdmittedForm
    <3> QED
      BY <3>1, <3>2 DEF FirstStep, TaskOps
  <2> QED
    BY <2>1, <2>2 DEF Late, Settling
<1>16. CommitTask(w) /\ job'[w].step \in Late =>
         Goto(w, "get_balance") /\ Op(w) \in {"approve", "undo"}
  <2>1. CommitTask(w) => \/ Goto(w, "get_balance") /\ Op(w) \in {"approve", "undo"}
                         \/ Answer(w, 200) \/ Answer(w, 201)
    BY DEF CommitTask
  <2> QED
    BY <1>1, <1>3, <2>1
<1>17. CommitSession(w) /\ job'[w].step \in Late => Goto(w, "get_balance")
  <2> SUFFICES ASSUME CommitSession(w), job'[w].step \in Late PROVE Goto(w, "get_balance")
    OBVIOUS
  <2>1. Goto(w, "get_balance") \/ NextSession(w)
    BY DEF CommitSession
  <2>2. job[w].step # "idle" /\ Op(w) = "usage"
    BY AtStep DEF CommitSession, Commit
  <2>3. NextSession(w) => job'[w].step \in {"idle", "find"}
    BY <2>2, GoesTo
  <2> QED
    BY <1>1, <2>1, <2>3
<1>18. /\ CommitTask(w) /\ Goto(w, "get_balance") => job'[w].step = "get_balance"
       /\ CommitSession(w) /\ Goto(w, "get_balance") => job'[w].step = "get_balance"
  <2>1. "get_balance" \in Steps
    BY StepTables DEF Steps
  <2> QED
    BY <2>1, GoesTo
<1>19. /\ ReadBalance(w) => job'[w].step = "insert_entry"
       /\ InsertEntry(w) => job'[w].step = "commit_entry"
       /\ InsertSession(w) => job'[w].step = "commit_session"
       /\ Execute(w) => job'[w].step \in DOMAIN ReadAt
  BY ReadBalanceKept, InsertEntryKept, InsertSessionKept, ExecuteKept DEF Execute
<1> QED
  <2>1. job'[w].step \in Late =>
          \/ ReadBalance(w) \/ InsertEntry(w) \/ InsertSession(w) \/ Execute(w)
          \/ CommitTask(w) \/ CommitSession(w) \/ Recheck(w)
    BY <1>4, <1>5, <1>7, <1>8, <1>9, <1>10, <1>11, <1>12, <1>13, <1>14, <1>15, <1>20, <1>21
       DEF Moves, Step, Failing
  <2>2. {"commit_session", "commit_entry", "update_task"} \cap DOMAIN ReadAt = {}
    BY StepTables
  <2> QED
    BY <1>6, <1>16, <1>17, <1>18, <1>19, <2>1, <2>2 DEF Late

-----------------------------------------------------------------------------
(***************************************************************************)
(* Successes.                                                              *)
(***************************************************************************)
(* What INSERT adds to the entries of a type and a source.                 *)
LEMMA EntryAdded ==
  ASSUME TypeInv, NEW w \in Workers, InsertEntry(w)
  PROVE  \A c \in Children : \A entry_type, source :
           /\ ~(/\ c = ChildOf(w) /\ EntryOf(w).entry_type = entry_type
                /\ EntryOf(w).source = source)
                => EntriesOf(ledger'[c], entry_type, source) = EntriesOf(ledger[c], entry_type, source)
           /\ c = ChildOf(w) /\ EntryOf(w).entry_type = entry_type /\ EntryOf(w).source = source
                => /\ EntriesOf(ledger'[c], entry_type, source) =
                        EntriesOf(ledger[c], entry_type, source) \cup {Len(ledger[c]) + 1}
                   /\ ledger'[c][Len(ledger[c]) + 1] = EntryOf(w)
<1> DEFINE c0 == ChildOf(w)
           e == EntryOf(w)
<1>1. /\ job[w].step = "insert_entry"
      /\ ledger' = [ledger EXCEPT ![c0] = Append(@, e)]
  BY DEF InsertEntry, Modify
<1>2. c0 \in Children /\ e \in LedgerEntry /\ TablesTyped
  BY <1>1, AtStep, EntryType
<1> HIDE DEF c0, e
<1>3. /\ \A d \in Children \ {c0} : ledger'[d] = ledger[d]
      /\ ledger'[c0] = Append(ledger[c0], e)
      /\ ledger'[c0][Len(ledger[c0]) + 1] = e
  BY <1>1, <1>2, AppendKeeps
<1>4. ledger[c0] \in Seq(LedgerEntry)
  BY <1>2 DEF TablesTyped
<1> SUFFICES ASSUME NEW c \in Children, NEW entry_type, NEW source
             PROVE  /\ ~(c = c0 /\ e.entry_type = entry_type /\ e.source = source)
                         => EntriesOf(ledger'[c], entry_type, source) = EntriesOf(ledger[c], entry_type, source)
                    /\ c = c0 /\ e.entry_type = entry_type /\ e.source = source
                         => /\ EntriesOf(ledger'[c], entry_type, source) =
                                 EntriesOf(ledger[c], entry_type, source) \cup {Len(ledger[c]) + 1}
                            /\ ledger'[c][Len(ledger[c]) + 1] = e
  BY DEF c0, e
<1>5. CASE c # c0
  BY <1>3, <1>5
<1>6. CASE c = c0
  <2>1. EntriesOf(ledger'[c], entry_type, source) =
          EntriesOf(ledger[c], entry_type, source) \cup
            (IF e.entry_type = entry_type /\ e.source = source THEN {Len(ledger[c]) + 1} ELSE {})
    <3> DEFINE entries == ledger[c0]
    <3>1. entries \in Seq(LedgerEntry) /\ ledger'[c] = Append(entries, e) /\ entries = ledger[c]
      BY <1>3, <1>4, <1>6
    <3> HIDE DEF entries
    <3>2. EntriesOf(Append(entries, e), entry_type, source) =
            EntriesOf(entries, entry_type, source) \cup
              (IF e.entry_type = entry_type /\ e.source = source THEN {Len(entries) + 1} ELSE {})
      BY <1>2, <3>1, EntriesOfAppend
    <3> QED
      BY <3>1, <3>2
  <2>2. CASE e.entry_type = entry_type /\ e.source = source
    BY <1>3, <1>6, <2>1, <2>2
  <2>3. CASE ~(e.entry_type = entry_type /\ e.source = source)
    BY <1>6, <2>1, <2>3
  <2> QED
    BY <2>2, <2>3
<1> QED
  BY <1>5, <1>6

(* A statement of the thread itself, when it is not idle, or a request.    *)
LEMMA MovesFrom ==
  ASSUME NEW w \in Workers, Moves(w), ~Expire(w)
  PROVE  job[w].step # "idle" \/ \E q \in Menu : Accept(w, q)
<1>1. job[w].step = "idle" => ~Step(w)
  <2> SUFFICES ASSUME job[w].step = "idle", Step(w) PROVE FALSE
    OBVIOUS
  <2>1. /\ ~Execute(w) /\ ~LockedOut(w) /\ ~Overflow(w) /\ ~Health(w)
    BY StepTables DEF Execute, LockedOut, Refused, Overflow, Health
  <2>2. /\ ~InsertTask(w) /\ ~UpdateTask(w) /\ ~InsertEntry(w) /\ ~InsertSession(w)
        /\ ~KeyTaken(w)
    BY DEF InsertTask, UpdateTask, InsertEntry, InsertSession, KeyTaken, Modify
  <2>3. ~CommitTask(w) /\ ~CommitEntry(w) /\ ~CommitSession(w)
    BY DEF CommitTask, CommitEntry, CommitSession, Commit
  <2>4. /\ ~CheckChild(w) /\ ~CheckFamily(w) /\ ~CheckAccess(w) /\ ~GetTask(w) /\ ~Recheck(w) /\ ~ReadBalance(w) /\ ~FindExisting(w) /\ ~Cover(w)
        /\ ~ViewBalance(w) /\ ~ReadHistory(w) /\ ~ReadLast(w) /\ ~Audit(w)
    BY DEF CheckChild, CheckFamily, CheckAccess, GetTask, Recheck, ReadBalance, FindExisting,
           Cover, ViewBalance, ReadHistory, ReadLast, Audit, Fetch
  <2> QED
    BY <2>1, <2>2, <2>3, <2>4 DEF Step
<1> QED
  BY <1>1 DEF Moves

(* What is in the tables for a request stays in them.                      *)
LEMMA PromiseStays ==
  ASSUME TablesTyped, Grows, NEW q \in Menu, DoorCode(q) = 200
  PROVE  /\ EntryIn(tasks, ledger, q) => EntryIn(tasks', ledger', q)
         /\ RowsIn(usage, q) => RowsIn(usage', q)
<1>1. ASSUME q.op \in {"approve", "undo"}, EntryIn(tasks, ledger, q)
      PROVE  EntryIn(tasks', ledger', q)
  <2>1. q.task \in TaskIds /\ tasks[q.task] # NoTask
    BY <1>1, AdmittedForm DEF TaskOps, EntryIn
  <2>2. tasks[q.task].child_id \in Children
    BY <2>1 DEF TablesTyped, Task
  <2>3. tasks'[q.task] # NoTask /\ tasks'[q.task].child_id = tasks[q.task].child_id
    BY <2>1 DEF Grows
  <2>4. \A c \in Children : \A entry_type, source :
          EntriesOf(ledger[c], entry_type, source) \subseteq EntriesOf(ledger'[c], entry_type, source)
    BY DEF Grows, EntriesOf
  <2>5. q.op = "approve" =>
          EntriesOf(ledger'[tasks'[q.task].child_id], "credit", q.task) # {}
    <3>1. q.op = "approve" =>
            EntriesOf(ledger[tasks[q.task].child_id], "credit", q.task) # {}
      BY <1>1 DEF EntryIn
    <3> QED
      BY <2>2, <2>3, <2>4, <3>1
  <2>6. q.op = "undo" =>
          EntriesOf(ledger'[tasks'[q.task].child_id], "reversal", q.task) # {}
    <3>1. q.op = "undo" =>
            EntriesOf(ledger[tasks[q.task].child_id], "reversal", q.task) # {}
      BY <1>1 DEF EntryIn
    <3> QED
      BY <2>2, <2>3, <2>4, <3>1
  <2> QED
    BY <2>3, <2>5, <2>6 DEF EntryIn
<1>2. q.op \notin {"approve", "undo"} => EntryIn(tasks', ledger', q)
  BY DEF EntryIn
<1>3. RowsIn(usage, q) => RowsIn(usage', q)
  <2> SUFFICES ASSUME RowsIn(usage, q), q.op = "usage", NEW i \in DOMAIN q.sessions
               PROVE  usage'[q.user][q.sessions[i]] # NoRow
    BY DEF RowsIn
  <2>1. q.user \in Children /\ q.sessions[i] \in Sessions
    <3>1. q.user \in Children /\ q.sessions \in Seq(Sessions)
      BY AdmittedForm
    <3> QED
      BY <3>1
  <2>2. usage[q.user][q.sessions[i]] # NoRow
    BY DEF RowsIn
  <2> QED
    BY <2>1, <2>2 DEF Grows
<1> QED
  BY <1>1, <1>2, <1>3

(* The entry is written before the promise is made, and the promise stands *)
(* from then on.                                                           *)
LEMMA PromisesStep ==
  ASSUME TypeInv, Promises, NEW w \in Workers, Moves(w)
  PROVE  Promises'
<1>1. TablesTyped /\ Grows /\ JobTyped(w)
  BY MovesKept DEF TypeInv, TypeOK, TablesTyped, Kept
<1>2. ASSUME NEW v \in Workers, job'[v] = job[v] PROVE Promised(v)'
  <2> DEFINE q == job[v].req
  <2>1. Promised(v)
    BY DEF Promises
  <2>2. job[v].step = "commit_entry" => q \in Menu /\ DoorCode(q) = 200
    BY AtStep DEF Admitted
  <2>3. job[v].step = "commit_entry" \/ Succeeded(v) => EntryIn(tasks', ledger', q)
    BY <1>1, <2>1, <2>2, PromiseStays DEF Promised
  <2>4. Succeeded(v) => q \in Menu /\ DoorCode(q) = 200 /\ RowsIn(usage', q)
    BY <1>1, <2>1, PromiseStays DEF Promised
  <2> QED
    BY <1>2, <2>3, <2>4 DEF Promised, Succeeded
<1>3. ASSUME ~Expire(w) PROVE Promised(w)'
  <2> DEFINE q == job[w].req
  <2>1. ASSUME job'[w].step = "commit_entry"
        PROVE  job'[w].req = q /\ EntryIn(tasks', ledger', q)
    <3>1. InsertEntry(w)
      BY <1>3, <2>1, LeadsTo
    <3>2. job'[w].req = q /\ job[w].step = "insert_entry" /\ tasks' = tasks
      BY <3>1, InsertEntryKept DEF InsertEntry, Modify
    <3>3. CASE q.op \in {"approve", "undo"}
      <4> DEFINE ty == IF q.op = "approve" THEN "credit" ELSE "reversal"
                 c == tasks[q.task].child_id
      <4>1. /\ ChildOf(w) = c /\ c \in Children /\ q.task \in TaskIds
            /\ EntryOf(w).entry_type = ty /\ EntryOf(w).source = q.task
        BY <3>2, <3>3, EntryType DEF Op, TaskOf
      <4>2. tasks[q.task] # NoTask
        BY <3>2, <3>3, AtStep DEF TaskFound, TaskOps
      <4> HIDE DEF ty, c
      <4>4. EntriesOf(ledger'[c], ty, q.task) # {}
        <5> HIDE DEF q
        <5>1. EntriesOf(ledger'[c], ty, q.task) =
                EntriesOf(ledger[c], ty, q.task) \cup {Len(ledger[c]) + 1}
          BY <3>1, <4>1, EntryAdded
        <5> QED
          BY <5>1
      <4> QED
        BY <3>2, <3>3, <4>2, <4>4 DEF EntryIn, ty, c
    <3>4. CASE q.op \notin {"approve", "undo"}
      BY <3>2, <3>4 DEF EntryIn
    <3> QED
      BY <3>2, <3>3, <3>4
  <2>2. ASSUME job'[w].step = "idle", job'[w].code = 200
        PROVE  /\ job'[w].req = q /\ q \in Menu /\ DoorCode(q) = 200
               /\ EntryIn(tasks', ledger', q) /\ RowsIn(usage', q)
    <3>1. Honest(w)
      BY <1>3, StepsHonest
    <3>2. job[w].step # "idle"
      <4>1. \A r \in Menu : ~Accept(w, r)
        BY <2>2, AcceptKept
      <4> QED
        BY <1>3, <4>1, MovesFrom
    <3>3. q \in Menu /\ DoorCode(q) = 200
      BY <3>2, AtStep DEF Admitted
    <3>4. job'[w].req = q
      BY <2>2, <3>1 DEF Honest
    <3>5. RowsIn(usage', q)
      BY <2>2, <3>1, <3>4 DEF Honest, RowsIn, Recorded, Op, User
    <3>6. EntryIn(tasks', ledger', q)
      <4>1. CASE q.op \in {"approve", "undo"}
        <5>1. job[w].step = "commit_entry"
          BY <2>2, <3>1, <4>1 DEF Honest, Op
        <5>2. EntryIn(tasks, ledger, q)
          BY <5>1 DEF Promises, Promised
        <5> QED
          BY <1>1, <3>3, <5>2, PromiseStays
      <4>2. CASE q.op \notin {"approve", "undo"}
        BY <4>2 DEF EntryIn
      <4> QED
        BY <4>1, <4>2
    <3> QED
      BY <3>3, <3>4, <3>5, <3>6
  <2> QED
    BY <2>1, <2>2 DEF Promised, Succeeded
<1>4. Expire(w) => job'[w] = job[w]
  BY DEF Expire
<1> QED
  BY <1>1, <1>2, <1>3, <1>4 DEF JobTyped, Others, Promises

(* A success means that all the request promises is in the tables: the     *)
(* credit, the reversal, a row for every session of the batch.             *)
THEOREM SuccessesComplete == Spec => []SuccessIsComplete
<1>1. Init => Promises
  <2> SUFFICES ASSUME Init, NEW w \in Workers
               PROVE  job[w].step = "idle" /\ job[w].code = 0
    BY DEF Promises, Promised, Succeeded
  <2> QED
    BY DEF Init, Answered
<1>2. TypeInv /\ Promises /\ [Next]_vars => Promises'
  <2>1. ASSUME TypeInv, Promises, Next PROVE Promises'
    <3>1. PICK w \in Workers : Moves(w)
      BY <2>1 DEF Next, Moves
    <3> QED
      BY <2>1, <3>1, PromisesStep
  <2>2. Promises /\ UNCHANGED vars => Promises'
    BY DEF Promises, Promised, Succeeded, vars
  <2> QED
    BY <2>1, <2>2
<1>3. Promises => SuccessIsComplete
  BY DEF Promises, Promised, Succeeded, EntryIn, RowsIn, SuccessIsComplete, Entries, Recorded
<1>4. TypeInv /\ [Next]_vars => TypeInv'
  BY TypeStep
<1> QED
  BY TypeInit, <1>1, <1>2, <1>3, <1>4, PTL DEF Spec
=============================================================================
