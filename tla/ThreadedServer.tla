--------------------------- MODULE ThreadedServer ---------------------------
(***************************************************************************)
(* RewardBank as uvicorn serves it: get_current_user runs on the event     *)
(* loop, the endpoints are sync functions that run on a pool of threads,   *)
(* each with its own connection to the shared in-memory database.  One     *)
(* action is one statement: requests interleave between any two of them,   *)
(* between a SELECT and its fetch, and between a write and its commit.     *)
(***************************************************************************)
EXTENDS RewardBankData, SharedCache

CONSTANTS
  Databases,   \* the tables that requests answered earlier may have left
  Menu,        \* the requests clients may send
  MaxInteger,  \* the largest INTEGER SQLite stores, 2^63 - 1
  MaxRequests  \* bound on the number of requests sent

(* What a request names: the user whose token it carries, and the path's   *)
(* and the body's parameters as the request models let them through.  A    *)
(* request without a bearer token is the same wherever it is sent.         *)
RequestForms ==
  LET Anyone == Users \cup {Stranger}
  IN  [op : {"create"}, user : Anyone, child : Anyone, reward : Int]
      \cup [op : TaskOps, user : Anyone, task : TaskIds]
      \cup [op : {"usage"}, user : Anyone, sessions : Seq(Sessions)]
      \cup [op : {"balance", "ledger"}, user : Anyone, child : Anyone]
      \cup [op : {"health", "no_header"}, user : {Stranger}]

ASSUME BoundsAssumption == MaxInteger \in Nat /\ MaxRequests \in Nat

ASSUME MenuAssumption == Menu \subseteq RequestForms

(* Requests answered one after the other leave no other database.          *)
ASSUME DatabasesAssumption == \A db \in Databases : Consistent(db)

VARIABLES
  tasks,     \* the tasks table
  ledger,    \* the ledger table, the entries of each child in id order
  usage,     \* usage_sessions: for each child, the row of each session
  locks,     \* the shared cache's locks
  job,       \* job[w]: the request thread w handles, or answered last
  accepted,  \* the number of requests sent
  failed     \* some request has been answered 500

tables == <<tasks, ledger, usage>>
vars   == <<tasks, ledger, usage, locks, job, accepted, failed>>

-----------------------------------------------------------------------------
(* The table that the SELECT at each step of a handler reads, and the one  *)
(* that the INSERT or UPDATE, and the commit after it, write.              *)
ReadAt == [check_child |-> "users", check_family |-> "users", check_access |-> "users",
           get_task |-> "tasks", recheck |-> "tasks", find |-> "usage_sessions",
           cover |-> "ledger", get_balance |-> "ledger", view |-> "ledger",
           history |-> "ledger", last |-> "ledger", sum |-> "ledger"]

WriteAt == [insert_task |-> "tasks", update_task |-> "tasks",
            insert_session |-> "usage_sessions", insert_entry |-> "ledger"]

CommitOf == [commit_task |-> "tasks", commit_session |-> "usage_sessions",
             commit_entry |-> "ledger"]

Steps == {"idle", "respond"} \cup
  DOMAIN ReadAt \cup DOMAIN WriteAt \cup DOMAIN CommitOf

NoRequest == [op |-> "none"]

FirstStep(q) ==
  CASE q.op = "create"  -> "check_child"
    [] q.op \in TaskOps -> "get_task"
    [] q.op = "usage"   -> "find"
    [] q.op \in {"balance", "ledger"} ->
         IF RoleOf[q.user] = "parent" THEN "check_access" ELSE "view"
    [] q.op = "health"  -> "respond"

(* What is decided before the handler's first statement: the token, the    *)
(* role, the body, and that a child asks for its own balance.              *)
DoorCode(q) ==
  IF q.op = "health" THEN 200
  ELSE IF q.op = "no_header" THEN NoHeaderCode
  ELSE IF q.user = Stranger THEN 401
  ELSE
  CASE q.op = "create"  -> IF RoleOf[q.user] # "parent" THEN 403
                           ELSE IF q.reward <= 0 THEN 422 ELSE 200
    [] q.op \in TaskOps -> IF RoleOf[q.user] # ActorOf(q.op) THEN 403 ELSE 200
    [] q.op = "usage"   -> UsageCode(q.user, q.sessions)
    [] q.op = "balance" -> IF RoleOf[q.user] = "child" THEN BalanceViewCode(q.user, q.child)
                           ELSE 200
    [] q.op = "ledger"  -> IF RoleOf[q.user] # "parent" THEN 403 ELSE 200

(* A thread that has answered q; read is the balance it had read last.     *)
Answered(q, code) ==
  [step |-> "idle", fetching |-> FALSE, req |-> q, todo |-> <<>>, read |-> 0,
   row |-> NoRow, wrote |-> {}, code |-> code, holds |-> TRUE]

Started(q) ==
  [Answered(q, 0) EXCEPT !.step = FirstStep(q),
                         !.todo = IF q.op = "usage" THEN q.sessions ELSE <<>>]

Init ==
  /\ \E db \in Databases : tasks = db.tasks /\ ledger = db.ledger /\ usage = db.usage
  /\ locks = NoLocks
  /\ job = [w \in Workers |-> Answered(NoRequest, 0)]
  /\ accepted = 0
  /\ failed = FALSE

-----------------------------------------------------------------------------
Op(w)   == job[w].req.op
User(w) == job[w].req.user
TaskOf(w) == tasks[job[w].req.task]

(* The child whose ledger the request reads.                               *)
ChildOf(w) ==
  CASE Op(w) = "usage"   -> User(w)
    [] Op(w) \in TaskOps -> TaskOf(w).child_id
    [] OTHER             -> job[w].req.child

Recorded(child, s) == usage[child][s] # NoRow

(* The SELECT at w's step returns a row.                                   *)
Found(w) ==
  CASE job[w].step = "check_child"  -> job[w].req.child \in Users
    [] job[w].step = "check_access" -> job[w].req.child \in Children
    [] job[w].step = "check_family" -> TRUE
    [] job[w].step \in {"get_task", "recheck"} -> TaskOf(w) # NoTask
    [] job[w].step = "find" -> Recorded(User(w), Head(job[w].todo))
    [] job[w].step = "sum"  -> TRUE
    [] OTHER                -> ledger[ChildOf(w)] # <<>>

(* The entry append_ledger_entry inserts for w's request.                  *)
EntryOf(w) ==
  CASE Op(w) = "approve" -> NewEntry("credit", TaskOf(w).reward_minutes,
                                     job[w].req.task, job[w].read)
    [] Op(w) = "undo"    -> NewEntry("reversal", TaskOf(w).reward_minutes,
                                     job[w].req.task, job[w].read)
    [] Op(w) = "usage"   -> NewEntry("debit", job[w].row.minutes_covered,
                                     Head(job[w].todo), job[w].read)

Width == -(MaxInteger + 1)..MaxInteger

(* The statement at w's step handles a number that SQLite cannot: sqlite3  *)
(* raises OverflowError for a parameter, SQLite an error when SUM goes     *)
(* beyond the width on its way through the entries.                        *)
TooLarge(w) ==
  \/ job[w].step = "insert_task" /\ job[w].req.reward \notin Width
  \/ job[w].step = "insert_entry" /\ EntryOf(w).balance_after \notin Width
  \/ /\ job[w].step = "sum"
     /\ \E n \in DOMAIN ledger[ChildOf(w)] :
          ComputeBalance(SubSeq(ledger[ChildOf(w)], 1, n)) \notin Width

Goto(w, step) == job' = [job EXCEPT ![w].step = step, ![w].fetching = FALSE]

Answer(w, code) ==
  job' = [job EXCEPT ![w] = [Answered(@.req, code) EXCEPT !.wrote = job[w].wrote]]

Swallowed(w) == Answer(w, 200) /\ UNCHANGED failed    \* a bug: except: pass

Fail(w) == Answer(w, 500) /\ failed' = TRUE

DirtyRead(w) ==                      \* a bug: PRAGMA read_uncommitted
  /\ job[w].step \in DOMAIN ReadAt
  /\ ~job[w].fetching
  /\ Found(w)
  /\ CanBegin(locks, w)
  /\ job' = [job EXCEPT ![w].fetching = TRUE]
  /\ UNCHANGED <<tables, locks, accepted, failed>>

(* execute() of a SELECT that finds a row: the read lock is held until the *)
(* row has been fetched.                                                   *)
Execute(w) ==
  LET step == job[w].step
  IN  /\ step \in DOMAIN ReadAt
      /\ ~job[w].fetching
      /\ Found(w)
      /\ ~TooLarge(w)
      /\ CanRead(locks, w, ReadAt[step])
      /\ locks' = Read(locks, w, ReadAt[step])
      /\ job' = [job EXCEPT ![w].fetching = TRUE]
      /\ UNCHANGED <<tables, accepted, failed>>

(* fetchone(), or a SELECT that finds nothing and ends at once.            *)
Fetch(w, step) ==
  /\ job[w].step = step
  /\ \/ job[w].fetching /\ locks' = EndStatement(locks, w)
     \/ /\ ~job[w].fetching
        /\ ~Found(w)
        /\ CanRead(locks, w, ReadAt[step])
        /\ locks' = EndStatement(Read(locks, w, ReadAt[step]), w)
  /\ UNCHANGED <<tables, accepted, failed>>

Modify(w, step) ==
  /\ job[w].step = step
  /\ ~TooLarge(w)
  /\ CanWrite(locks, w, WriteAt[step])
  /\ locks' = Write(locks, w, WriteAt[step])
  /\ UNCHANGED accepted

Wrote(w, what, step) ==
  job' = [job EXCEPT ![w].step = step, ![w].wrote = @ \cup {what}]

NoCommit(w, step) ==                                 \* a bug
  /\ job[w].step = step
  /\ UNCHANGED <<tables, locks, accepted, failed>>

(* db.commit(): nothing of SQLite's can refuse it here.                    *)
Commit(w, step) ==
  /\ job[w].step = step
  /\ locks' = Release(locks, w)
  /\ UNCHANGED <<tables, accepted, failed>>

(* A statement is refused because of other connections' locks.             *)
Refused(w) ==
  LET step == job[w].step
  IN  /\ ~job[w].fetching
      /\ \/ /\ step \in DOMAIN ReadAt
            /\ ~CanRead(locks, w, ReadAt[step])
            /\ locks' = ReadRefused(locks, w)
         \/ /\ step \in DOMAIN WriteAt
            /\ ~TooLarge(w)
            /\ ~CanWrite(locks, w, WriteAt[step])
            /\ locks' = WriteRefused(locks, w)

TriesAgain(w) == Refused(w) /\ UNCHANGED <<tables, job, accepted, failed>>  \* a bug

(* No service catches sqlite3.OperationalError: the server answers 500 and *)
(* the connection is left as the statement left it.                        *)
LockedOut(w) == Refused(w) /\ Fail(w) /\ UNCHANGED <<tables, accepted>>

(* OverflowError comes after Python's BEGIN and before the statement runs; *)
(* the failed SUM ends like any SELECT.  Nobody catches either.            *)
Overflow(w) ==
  /\ ~job[w].fetching
  /\ TooLarge(w)
  /\ \/ /\ job[w].step \in DOMAIN WriteAt
        /\ locks' = [locks EXCEPT !.begun = @ \cup {w}]
     \/ /\ job[w].step = "sum"
        /\ CanRead(locks, w, "ledger")
        /\ locks' = EndStatement(Read(locks, w, "ledger"), w)
  /\ Fail(w)
  /\ UNCHANGED <<tables, accepted>>

-----------------------------------------------------------------------------
(* Bounds: no request after MaxRequests, and none to create a task when    *)
(* the creations under way may need every id that TaskIds has left.        *)
WithinBounds(q) ==
  /\ accepted < MaxRequests
  /\ q.op = "create" =>
       Cardinality({w \in Workers : job[w].step # "idle" /\ Op(w) = "create"})
         < Cardinality({t \in TaskIds : tasks[t] = NoTask})

(* A request arrives.  Its authentication reads users on the event loop,   *)
(* which fails while a writer is kept waiting; job[w] is then the client's *)
(* place only.  GET /health has no authentication, and HTTPBearer turns a  *)
(* request without a token away before it comes to that.                   *)
Accept(w, q) ==
  LET code == IF locks.pending /\ q.op \notin {"health", "no_header"} THEN 500
              ELSE DoorCode(q)
  IN  /\ job[w].step = "idle"
      /\ WithinBounds(q)
      /\ accepted' = accepted + 1
      /\ job' = [job EXCEPT ![w] = IF code = 200 THEN Started(q) ELSE Answered(q, code)]
      /\ failed' = (failed \/ code = 500)
      /\ UNCHANGED <<tables, locks>>

(* The pool drops a thread that has been idle; its connection closes.      *)
Expire(w) ==
  /\ job[w].step = "idle"
  /\ locks' = Release(locks, w)
  /\ UNCHANGED <<tables, job, accepted, failed>>

-----------------------------------------------------------------------------
(* create_task.                                                            *)
CheckChild(w) ==
  LET q    == job[w].req
      code == CreateCode(q.user, q.child, q.reward)
  IN  /\ Fetch(w, "check_child")
      /\ IF code = 201 THEN Goto(w, "insert_task") ELSE Answer(w, code)

InsertTask(w) ==
  /\ Modify(w, "insert_task")
  /\ \E t \in TaskIds :
       /\ tasks[t] = NoTask
       /\ tasks' = [tasks EXCEPT ![t] =
            [child_id |-> job[w].req.child, family_id |-> FamilyOf[User(w)],
             reward_minutes |-> job[w].req.reward, status |-> "pending"]]
  /\ Wrote(w, "task", "commit_task")
  /\ UNCHANGED <<ledger, usage, failed>>

(* get_task in mark_task_done, approve_task, ...: a child is compared with *)
(* the task's at once, a parent's family is looked up first.               *)
GetTask(w) ==
  LET code == AccessCode(Op(w), User(w), TaskOf(w))
  IN  /\ Fetch(w, "get_task")
      /\ IF Op(w) # "done" /\ TaskOf(w) # NoTask THEN Goto(w, "check_family")
         ELSE IF code = 200 THEN Goto(w, "recheck")
         ELSE Answer(w, code)

(* _verify_parent_family.  A task's family never changes.                  *)
CheckFamily(w) ==
  LET code == AccessCode(Op(w), User(w), TaskOf(w))
  IN  /\ Fetch(w, "check_family")
      /\ IF code = 200 THEN Goto(w, "recheck") ELSE Answer(w, code)

(* _update_task_status reads the row again, to check the transition.       *)
Recheck(w) ==
  LET code == TaskCode(Op(w), User(w), TaskOf(w))
  IN  /\ Fetch(w, "recheck")
      /\ IF code = 200 THEN Goto(w, "update_task") ELSE Answer(w, code)

(* The UPDATE names the id only: it does not look at the status again.     *)
UpdateTask(w) ==
  /\ Modify(w, "update_task")
  /\ tasks' = [tasks EXCEPT ![job[w].req.task].status = NewStatus(Op(w))]
  /\ Wrote(w, "task", "commit_task")
  /\ UNCHANGED <<ledger, usage, failed>>

CommitTask(w) ==
  /\ Commit(w, "commit_task")
  /\ IF Op(w) \in {"approve", "undo"} THEN Goto(w, "get_balance")
     ELSE Answer(w, IF Op(w) = "create" THEN 201 ELSE 200)

-----------------------------------------------------------------------------
(* append_ledger_entry: the SELECT, the INSERT, the commit.  Amounts are   *)
(* positive, so that it never refuses one.                                 *)
ReadBalance(w) ==
  /\ Fetch(w, "get_balance")
  /\ job' = [job EXCEPT ![w].step = "insert_entry", ![w].fetching = FALSE,
                        ![w].read = GetBalance(ledger[ChildOf(w)])]

InsertEntry(w) ==
  /\ Modify(w, "insert_entry")
  /\ ledger' = [ledger EXCEPT ![ChildOf(w)] = Append(@, EntryOf(w))]
  /\ Wrote(w, "entry", "commit_entry")
  /\ UNCHANGED <<tasks, usage, failed>>

StopsEarly(w) == Answer(w, 200)                      \* a bug: return in the loop

(* The loop of process_usage_batch goes to the next session, or answers.   *)
NextSession(w) ==
  IF Len(job[w].todo) = 1 THEN Answer(w, 200)
  ELSE job' = [job EXCEPT ![w].todo = Tail(@), ![w].step = "find",
                          ![w].fetching = FALSE, ![w].row = NoRow, ![w].read = 0]

CommitEntry(w) ==
  /\ Commit(w, "commit_entry")
  /\ IF Op(w) = "usage" THEN NextSession(w) ELSE Answer(w, 200)

-----------------------------------------------------------------------------
(* _process_single_session.                                                *)
RetriesRejected(w) ==           \* a bug: only a processed session is a duplicate
  /\ Fetch(w, "find")
  /\ IF usage[User(w)][Head(job[w].todo)].status = "processed" THEN NextSession(w)
     ELSE Goto(w, "cover")

FindExisting(w) ==
  /\ Fetch(w, "find")
  /\ IF Recorded(User(w), Head(job[w].todo)) THEN NextSession(w) ELSE Goto(w, "cover")

Cover(w) ==
  /\ Fetch(w, "cover")
  /\ job' = [job EXCEPT ![w].step = "insert_session", ![w].fetching = FALSE,
       ![w].row = CoverSession(Head(job[w].todo), GetBalance(ledger[User(w)]))]

NoUniqueKey(w) ==                                    \* a bug
  /\ Modify(w, "insert_session")
  /\ usage' = [usage EXCEPT ![User(w)][Head(job[w].todo)] = job[w].row]
  /\ Wrote(w, "session", "commit_session")
  /\ UNCHANGED <<tasks, ledger, failed>>

InsertSession(w) ==
  /\ Modify(w, "insert_session")
  /\ ~Recorded(User(w), Head(job[w].todo))
  /\ usage' = [usage EXCEPT ![User(w)][Head(job[w].todo)] = job[w].row]
  /\ Wrote(w, "session", "commit_session")
  /\ UNCHANGED <<tasks, ledger, failed>>

CaughtAs400(w) ==                                    \* a bug: except IntegrityError
  /\ Modify(w, "insert_session")
  /\ Recorded(User(w), Head(job[w].todo))
  /\ Answer(w, 400)
  /\ UNCHANGED <<tables, failed>>

(* UNIQUE(idempotency_key) fails: IntegrityError, transaction left open.   *)
KeyTaken(w) ==
  /\ Modify(w, "insert_session")
  /\ Recorded(User(w), Head(job[w].todo))
  /\ Fail(w)
  /\ UNCHANGED tables

CommitSession(w) ==
  /\ Commit(w, "commit_session")
  /\ IF job[w].row.minutes_covered > 0 THEN Goto(w, "get_balance") ELSE NextSession(w)

-----------------------------------------------------------------------------
(* GET /children/{child_id}/balance, and /ledger with its three SELECTs.   *)
(* _verify_child_access looks the child up for a parent.                   *)
CheckAccess(w) ==
  LET code == BalanceViewCode(User(w), job[w].req.child)
  IN  /\ Fetch(w, "check_access")
      /\ IF code # 200 THEN Answer(w, code)
         ELSE Goto(w, IF Op(w) = "ledger" THEN "history" ELSE "view")

ViewBalance(w) == Fetch(w, "view") /\ Answer(w, 200)

ReadHistory(w) == Fetch(w, "history") /\ Goto(w, "last")

ReadLast(w) ==
  /\ Fetch(w, "last")
  /\ job' = [job EXCEPT ![w].step = "sum", ![w].fetching = FALSE,
                        ![w].read = GetBalance(ledger[ChildOf(w)])]

Audit(w) ==
  /\ Fetch(w, "sum")
  /\ job' = [job EXCEPT ![w] =
       [Answered(@.req, 200) EXCEPT
          !.holds = (job[w].read = ComputeBalance(ledger[ChildOf(w)]))]]

Health(w) ==
  /\ job[w].step = "respond"
  /\ Answer(w, 200)
  /\ UNCHANGED <<tables, locks, accepted, failed>>

-----------------------------------------------------------------------------
Step(w) ==
  \/ Execute(w) \/ LockedOut(w) \/ Overflow(w)
  \/ CheckChild(w) \/ InsertTask(w)
  \/ GetTask(w) \/ CheckFamily(w) \/ Recheck(w) \/ UpdateTask(w) \/ CommitTask(w)
  \/ ReadBalance(w) \/ InsertEntry(w) \/ CommitEntry(w)
  \/ FindExisting(w) \/ Cover(w) \/ InsertSession(w) \/ KeyTaken(w) \/ CommitSession(w)
  \/ CheckAccess(w) \/ ViewBalance(w) \/ ReadHistory(w) \/ ReadLast(w) \/ Audit(w) \/ Health(w)

Next == \E w \in Workers : Step(w) \/ Expire(w) \/ \E q \in Menu : Accept(w, q)

(* A thread that runs a handler is scheduled again and again: no statement *)
(* waits for a lock.  Nothing obliges clients to send a request or the     *)
(* pool to drop a thread.                                                  *)
Fairness == \A w \in Workers : WF_vars(Step(w))

Spec == Init /\ [][Next]_vars /\ Fairness

-----------------------------------------------------------------------------
(***************************************************************************)
(* Properties that hold however the statements interleave.                 *)
(***************************************************************************)
Job == [step : Steps, fetching : BOOLEAN, req : Menu \cup {NoRequest},
        todo : Seq(Sessions), read : Int, row : UsageSession \cup {NoRow},
        wrote : SUBSET {"task", "session", "entry"},
        code : {0, 200, 201, 400, 401, 403, 404, 422, 500}, holds : BOOLEAN]

(* Every variable has its type.                                            *)
TypeOK ==
  /\ tasks \in [TaskIds -> Task \cup {NoTask}]
  /\ ledger \in [Children -> Seq(LedgerEntry)]
  /\ usage \in [Children -> [Sessions -> UsageSession \cup {NoRow}]]
  /\ locks \in Locks
  /\ job \in [Workers -> Job]
  /\ accepted \in 0..MaxRequests
  /\ failed \in BOOLEAN

Entries(c, entry_type, source) == EntriesOf(ledger[c], entry_type, source)

Quiet == \A w \in Workers : job[w].step = "idle"

(* No dirty read and no two writers: from a handler's INSERT or UPDATE to  *)
(* its commit no other handler has written, or is reading, the same table. *)
Isolation ==
  \A w, other \in Workers :
    w # other /\ job[w].step \in DOMAIN CommitOf =>
      /\ job[other].step \notin DOMAIN CommitOf
      /\ job[other].fetching => ReadAt[job[other].step] # CommitOf[job[w].step]

(* However many devices or retries report a session at once, it is debited *)
(* at most once, and by the minutes its row says (UNIQUE idempotency_key). *)
OneDebitPerSession ==
  \A c \in Children, s \in Sessions : \A i, j \in Entries(c, "debit", s) :
    /\ i = j
    /\ usage[c][s].status = "processed"
    /\ ledger[c][i].amount = usage[c][s].minutes_covered

(* An answer that refuses the request means that nothing was written.      *)
RefusalsWriteNothing ==
  \A w \in Workers : job[w].code \in 400..499 => job[w].wrote = {}

(* A success means that all the request promises is in the tables: the     *)
(* credit, the reversal, a row for every session of the batch.             *)
SuccessIsComplete ==
  \A w \in Workers : job[w].step = "idle" /\ job[w].code = 200 =>
    LET q == job[w].req
    IN  /\ q.op = "approve" => Entries(tasks[q.task].child_id, "credit", q.task) # {}
        /\ q.op = "undo" => Entries(tasks[q.task].child_id, "reversal", q.task) # {}
        /\ q.op = "usage" => \A i \in DOMAIN q.sessions : Recorded(q.user, q.sessions[i])

(* Only a request answered 500 leaves a thread's connection inside a       *)
(* transaction; one that wrote and succeeded leaves it clean.              *)
OnlyErrorsHoldLocks ==
  \A w \in Workers : job[w].step = "idle" /\ w \in locks.begun =>
    failed /\ ~(job[w].code < 500 /\ job[w].wrote # {})

(* Tasks and sessions without their ledger entry come from requests that   *)
(* were answered 500 and from nothing else.                                *)
ErrorFreeIsAudited ==
  Quiet /\ ~failed => \A c \in Children :
    /\ \A t \in TaskIds :
         /\ tasks[t].status = "approved" /\ tasks[t].child_id = c
              => Entries(c, "credit", t) # {}
         /\ tasks[t].status = "undone" /\ tasks[t].child_id = c
              => Entries(c, "reversal", t) # {}
    /\ \A s \in Sessions : usage[c][s].status = "processed" => Entries(c, "debit", s) # {}

(* Every request is answered: no handler waits for a lock.                 *)
EveryRequestAnswered ==
  \A w \in Workers : job[w].step # "idle" ~> job[w].step = "idle"

(* A decision taken while no other request was being handled is final: no  *)
(* later request, and none sent twice, decides the task anew or reopens it.*)
SettledStays ==
  \A t \in TaskIds :
    /\ [](Quiet /\ tasks[t].status = "approved" => [](tasks[t].status \in {"approved", "undone"}))
    /\ [](Quiet /\ tasks[t].status = "rejected" => [](tasks[t].status = "rejected"))
    /\ [](Quiet /\ tasks[t].status = "undone" => [](tasks[t].status = "undone"))

-----------------------------------------------------------------------------
(***************************************************************************)
(* What the documents say and concurrent requests refute.                  *)
(***************************************************************************)

(* README, decision 1: the balance is the sum of the signed amounts and is *)
(* verifiable at any time.                                                 *)
LedgerProvable ==
  \A c \in Children : GetBalance(ledger[c]) = ComputeBalance(ledger[c])

(* README, decision 1 again: verifiable at any time.  The audit reports a  *)
(* violation only if the last balance is not the sum of the entries.       *)
AuditTruthful == LedgerProvable => \A w \in Workers : job[w].holds

(* WRITEUP 2: of two approvals of one task the server rejects one, the     *)
(* child is credited once.                                                 *)
ApprovedOnce ==
  \A c \in Children, t \in TaskIds : Cardinality(Entries(c, "credit", t)) <= 1

(* WRITEUP 3: sessions reported at the same time are covered one by one,   *)
(* together by no more than the balance.                                   *)
NeverOverspent ==
  \A c \in Children :
    (\A i \in DOMAIN ledger[c] : ledger[c][i].entry_type # "reversal")
      => ComputeBalance(ledger[c]) >= 0

(* README, decision 3: a duplicate submission returns the original result: *)
(* a report of a session the table holds is not answered with an error     *)
(* when no other connection is in its way.                                 *)
DuplicatesAnswered ==
  [][\A w \in Workers :
       /\ job[w].step = "insert_session"
       /\ Recorded(User(w), Head(job[w].todo))
       /\ CanWrite(locks, w, "usage_sessions")
       => job'[w].code # 500]_vars

(* README, API table: approving credits the balance.                       *)
ApprovalCredits ==
  Quiet => \A t \in TaskIds : tasks[t].status = "approved"
                                => Entries(tasks[t].child_id, "credit", t) # {}

(* README, project structure: the shared connection is thread-safe.  When  *)
(* no request is being handled the database can be written.                *)
IdleServerServes == Quiet => locks.writer = Nobody /\ ~locks.pending
=============================================================================
