-------------------------- MODULE RefinementProofs --------------------------
(***************************************************************************)
(* The threaded server implements RewardBank for a client that waits for   *)
(* each answer: every statement of a handler is a step of RewardBank's or  *)
(* none, under the refinement mapping of OneAtATime.                       *)
(***************************************************************************)
EXTENDS OneAtATimeProofs

-----------------------------------------------------------------------------
(***************************************************************************)
(* The two modules are built from the same definitions.                    *)
(***************************************************************************)
(* Rows and names.                                                         *)
LEMMA SameRows ==
  /\ Serial!NoTask = NoTask /\ Serial!NoRow = NoRow
  /\ Serial!TaskOps = TaskOps /\ Serial!Children = Children
BY DEF NoTask, Serial!NoTask, NoRow, Serial!NoRow, TaskOps, Serial!TaskOps,
       Children, Serial!Children

(* The ledger service's calculations.                                      *)
LEMMA SameLedger ==
  /\ \A e : Serial!GetBalance(e) = GetBalance(e)
  /\ \A e : Serial!ComputeBalance(e) = ComputeBalance(e)
  /\ \A entry_type, amount, source, b :
       Serial!NewEntry(entry_type, amount, source, b) = NewEntry(entry_type, amount, source, b)
<1>1. \A e : Serial!GetBalance(e) = GetBalance(e)
  BY DEF GetBalance, Serial!GetBalance
<1>2. \A e : Serial!ComputeBalance(e) = ComputeBalance(e)
  BY DEF ComputeBalance, Serial!ComputeBalance, FoldLeft, Serial!FoldLeft, SignedAmount,
         Serial!SignedAmount, MapThenFoldSet, Serial!MapThenFoldSet, Max, Serial!Max
<1>3. \A entry_type, amount, source, b :
        Serial!NewEntry(entry_type, amount, source, b) = NewEntry(entry_type, amount, source, b)
  BY DEF NewEntry, Serial!NewEntry, SignedAmount, Serial!SignedAmount
<1> QED
  BY <1>1, <1>2, <1>3

(* The usage service's.                                                    *)
LEMMA SameCover == \A s, b : Serial!CoverSession(s, b) = CoverSession(s, b)
BY DEF CoverSession, Serial!CoverSession, RejectedRow, Serial!RejectedRow, ProcessedRow,
       Serial!ProcessedRow, Lesser, Serial!Lesser, DurationMinutes, Serial!DurationMinutes,
       ExhaustedAt, Serial!ExhaustedAt, NoTime, Serial!NoTime

(* The answers.                                                            *)
LEMMA SameTaskCodes ==
  /\ \A user, child, m : Serial!CreateCode(user, child, m) = CreateCode(user, child, m)
  /\ \A op, user, task : Serial!TaskCode(op, user, task) = TaskCode(op, user, task)
  /\ \A op : Serial!NewStatus(op) = NewStatus(op)
<1>1. \A user, child, m : Serial!CreateCode(user, child, m) = CreateCode(user, child, m)
  BY DEF CreateCode, Serial!CreateCode, Children, Serial!Children
<1>2. \A op, user, task : Serial!AccessCode(op, user, task) = AccessCode(op, user, task)
  BY DEF AccessCode, Serial!AccessCode, ActorOf, Serial!ActorOf, MayAct, Serial!MayAct,
         NoTask, Serial!NoTask
<1>3. \A op : Serial!AllowedFrom(op) = AllowedFrom(op)
  BY DEF AllowedFrom, Serial!AllowedFrom
<1>4. \A op, user, task : Serial!TaskCode(op, user, task) = TaskCode(op, user, task)
  BY <1>2, <1>3 DEF TaskCode, Serial!TaskCode
<1>5. \A op : Serial!NewStatus(op) = NewStatus(op)
  BY DEF NewStatus, Serial!NewStatus
<1> QED
  BY <1>1, <1>4, <1>5

(* The codes of the routes that report or look are the same ones.          *)
LEMMA SameViewCodes ==
  /\ \A user, b : Serial!UsageCode(user, b) = UsageCode(user, b)
  /\ \A user, child : Serial!BalanceViewCode(user, child) = BalanceViewCode(user, child)
  /\ \A user, child : Serial!LedgerViewCode(user, child) = LedgerViewCode(user, child)
<1>1. \A s : Serial!SessionCode(s) = SessionCode(s)
  BY DEF SessionCode, Serial!SessionCode, EndsAfterStart, Serial!EndsAfterStart
<1>2. \A user, b : Serial!UsageCode(user, b) = UsageCode(user, b)
  BY <1>1 DEF UsageCode, Serial!UsageCode
<1>3. \A user, child : Serial!BalanceViewCode(user, child) = BalanceViewCode(user, child)
  BY DEF BalanceViewCode, Serial!BalanceViewCode, Children, Serial!Children
<1>4. \A user, child : Serial!LedgerViewCode(user, child) = LedgerViewCode(user, child)
  BY <1>3 DEF LedgerViewCode, Serial!LedgerViewCode
<1> QED
  BY <1>2, <1>3, <1>4

-----------------------------------------------------------------------------
(***************************************************************************)
(* The mapping.                                                            *)
(***************************************************************************)
HalfSteps == {"commit_task", "commit_session", "get_balance", "insert_entry", "commit_entry"}

(* With no handler running RewardBank's tables are the server's.           *)
LEMMA AtRest ==
  Quiet => AbsTasks = tasks /\ AbsUsage = usage /\ AbsLedger = ledger /\ AbsBatch = <<>>
BY DEF AbsTasks, AbsUsage, AbsLedger, AbsBatch, Half

(* With one they are without what its handler has written so far.          *)
LEMMA InHandler ==
  ASSUME Alone, NEW w \in Workers, Active(w)
  PROVE  /\ job[w].step \notin HalfSteps =>
              AbsTasks = tasks /\ AbsUsage = usage /\ AbsLedger = ledger
         /\ job[w].step # "commit_entry" => AbsLedger = ledger
         /\ Op(w) = "usage" => AbsTasks = tasks
         /\ Op(w) # "usage" => AbsUsage = usage
         /\ job[w].step \in HalfSteps =>
              /\ Op(w) = "create" => AbsTasks = [tasks EXCEPT ![Last(made)] = NoTask]
              /\ Op(w) \in TaskOps =>
                   AbsTasks = [tasks EXCEPT ![job[w].req.task].status = AllowedFrom(Op(w))]
              /\ Op(w) = "usage" =>
                   AbsUsage = [usage EXCEPT ![User(w)][Head(job[w].todo)] = NoRow]
         /\ job[w].step = "commit_entry" =>
              AbsLedger = [ledger EXCEPT ![ChildOf(w)] = Front(@)]
         /\ AbsBatch = [i \in DOMAIN job[w].todo |-> <<User(w), job[w].todo[i]>>]
<1>1. Current = w /\ ~Quiet
  BY DEF Current, Quiet, Alone, Active
<1>2. Half <=> job[w].step \in HalfSteps
  BY <1>1 DEF Half, HalfSteps
<1>3. "create" \notin TaskOps /\ "usage" \notin TaskOps
  BY DEF TaskOps
<1> QED
  BY <1>1, <1>2, <1>3 DEF AbsTasks, AbsUsage, AbsLedger, AbsBatch, HalfSteps

(* The same of the state a step leads to.                                  *)
LEMMA AtRestAfter ==
  Quiet' => AbsTasks' = tasks' /\ AbsUsage' = usage' /\ AbsLedger' = ledger' /\ AbsBatch' = <<>>
BY DEF AbsTasks, AbsUsage, AbsLedger, AbsBatch, Half

(* The same of the handler after a step, in primed form.                   *)
LEMMA InHandlerAfter ==
  ASSUME Alone', NEW w \in Workers, job'[w].step # "idle"
  PROVE  /\ job'[w].step \notin HalfSteps =>
              AbsTasks' = tasks' /\ AbsUsage' = usage' /\ AbsLedger' = ledger'
         /\ job'[w].step # "commit_entry" => AbsLedger' = ledger'
         /\ Op(w)' = "usage" => AbsTasks' = tasks'
         /\ Op(w)' # "usage" => AbsUsage' = usage'
         /\ job'[w].step \in HalfSteps =>
              /\ Op(w)' = "create" => AbsTasks' = [tasks' EXCEPT ![Last(made')] = NoTask]
              /\ Op(w)' \in TaskOps =>
                   AbsTasks' = [tasks' EXCEPT ![job'[w].req.task].status = AllowedFrom(Op(w)')]
              /\ Op(w)' = "usage" =>
                   AbsUsage' = [usage' EXCEPT ![User(w)'][Head(job'[w].todo)] = NoRow]
         /\ job'[w].step = "commit_entry" =>
              AbsLedger' = [ledger' EXCEPT ![ChildOf(w)'] = Front(@)]
         /\ AbsBatch' = [i \in DOMAIN job'[w].todo |-> <<User(w)', job'[w].todo[i]>>]
<1>1. Current' = w /\ ~Quiet'
  BY DEF Current, Quiet, Alone, Active
<1>2. Half' <=> job'[w].step \in HalfSteps
  BY <1>1 DEF Half, HalfSteps
<1>3. "create" \notin TaskOps /\ "usage" \notin TaskOps
  BY DEF TaskOps
<1> QED
  BY <1>1, <1>2, <1>3 DEF AbsTasks, AbsUsage, AbsLedger, AbsBatch, HalfSteps

(* The batch of a request that has none is empty.                          *)
LEMMA NoBatch == \A user : [i \in DOMAIN <<>> |-> <<user, <<>>[i]>>] = <<>>
OBVIOUS

-----------------------------------------------------------------------------
(***************************************************************************)
(* Statements that RewardBank does not see.                                *)
(***************************************************************************)
(* What a step of a handler starts from and leaves.                        *)
LEMMA Handling ==
  ASSUME ClientInv, Fits, NEW w \in Workers, Handle(w)
  PROVE  /\ Active(w) /\ Alone /\ Alone' /\ TypeInv /\ TablesTyped
         /\ \A v \in Workers \ {w} : job[v].step = "idle" /\ job'[v].step = "idle"
         /\ job'[w].step = "idle" => Quiet'
         /\ job'[w].step # "idle" => reply' = reply
         /\ job'[w].step = "idle" =>
              reply' = Told(job[w].req, job'[w].code, IF job'[w].code = 200 THEN Body(w) ELSE 0,
                            job'[w].holds)
<1>1. Active(w) /\ Alone /\ TypeInv /\ Moves(w)
  BY StepActive DEF Handle, Moves, ClientInv
<1>2. \A v \in Workers \ {w} : ~Active(v)
  BY <1>1 DEF Alone
<1>3. Alone' /\ \A v \in Workers \ {w} : job'[v] = job[v]
  BY <1>1, <1>2, AloneStep
<1>4. job'[w].step = "idle" => Quiet'
  BY <1>2, <1>3 DEF Quiet, Active
<1> QED
  BY <1>1, <1>2, <1>3, <1>4, SoundNow DEF Handle, Active

(* Before its first write a handler hides nothing.                         *)
LEMMA TablesShown ==
  ASSUME ClientInv, Fits, NEW w \in Workers, Handle(w), job[w].step \notin HalfSteps
  PROVE  AbsTasks = tasks /\ AbsUsage = usage /\ AbsLedger = ledger
<1>1. Alone /\ Active(w)
  BY Handling
<1> QED
  BY <1>1, InHandler

(* Once it has inserted an entry, the entry is what is hidden.             *)
LEMMA EntryHidden ==
  ASSUME ClientInv, Fits, NEW w \in Workers, Handle(w), job'[w].step = "commit_entry"
  PROVE  AbsLedger' = [ledger' EXCEPT ![ChildOf(w)'] = Front(@)]
<1>1. Alone' /\ job'[w].step # "idle"
  BY Handling
<1> QED
  BY <1>1, InHandlerAfter

(* What is left of a batch, while the handler works on the same session.   *)
LEMMA BatchHidden ==
  ASSUME Alone, Alone', NEW w \in Workers, Active(w), job'[w].step # "idle",
         job'[w].req = job[w].req, job'[w].todo = job[w].todo
  PROVE  AbsBatch' = AbsBatch
<1>1. AbsBatch = [i \in DOMAIN job[w].todo |-> <<User(w), job[w].todo[i]>>]
  BY InHandler
<1>2. AbsBatch' = [i \in DOMAIN job'[w].todo |-> <<User(w)', job'[w].todo[i]>>]
  BY InHandlerAfter
<1> QED
  BY <1>1, <1>2, SameViews

(* What it has written so far stays hidden as long as nothing is added.    *)
LEMMA HalfStays ==
  ASSUME Alone, Alone', NEW w \in Workers, Active(w), UNCHANGED <<tasks, usage>>,
         made' = made, job'[w].req = job[w].req, job'[w].todo = job[w].todo,
         job[w].step \in HalfSteps, job'[w].step \in HalfSteps,
         Op(w) \in {"create", "usage"} \cup TaskOps
  PROVE  AbsTasks' = AbsTasks /\ AbsUsage' = AbsUsage
<1>1. job'[w].step # "idle" /\ Op(w)' = Op(w) /\ User(w)' = User(w)
  BY SameViews DEF HalfSteps
<1>2. CASE Op(w) = "usage"
  <2>1. AbsTasks = tasks /\ AbsTasks' = tasks'
    BY <1>1, <1>2, InHandler, InHandlerAfter
  <2>2. AbsUsage = [usage EXCEPT ![User(w)][Head(job[w].todo)] = NoRow]
    BY <1>2, InHandler
  <2>3. AbsUsage' = [usage' EXCEPT ![User(w)'][Head(job'[w].todo)] = NoRow]
    BY <1>1, <1>2, InHandlerAfter
  <2> QED
    BY <1>1, <2>1, <2>2, <2>3
<1>3. CASE Op(w) \in {"create"} \cup TaskOps
  <2>1. Op(w) # "usage" /\ Op(w)' # "usage"
    BY <1>1, <1>3 DEF TaskOps
  <2>2. AbsUsage = usage /\ AbsUsage' = usage'
    BY <1>1, <2>1, InHandler, InHandlerAfter
  <2>3. /\ Op(w) = "create" => AbsTasks = [tasks EXCEPT ![Last(made)] = NoTask]
        /\ Op(w) \in TaskOps =>
             AbsTasks = [tasks EXCEPT ![job[w].req.task].status = AllowedFrom(Op(w))]
    BY <1>1, InHandler
  <2>4. /\ Op(w)' = "create" => AbsTasks' = [tasks' EXCEPT ![Last(made')] = NoTask]
        /\ Op(w)' \in TaskOps =>
             AbsTasks' = [tasks' EXCEPT ![job'[w].req.task].status = AllowedFrom(Op(w)')]
    BY <1>1, InHandlerAfter
  <2> QED
    BY <1>1, <1>3, <2>2, <2>3, <2>4
<1> QED
  BY <1>1, <1>2, <1>3

(* A step within what RewardBank does at once, or before it.               *)
LEMMA NothingShown ==
  ASSUME TypeInv, Alone, Alone', NEW w \in Workers, Active(w), job'[w].step # "idle",
         UNCHANGED <<tasks, ledger, usage, made, reply>>,
         job'[w].req = job[w].req, job'[w].todo = job[w].todo,
         job'[w].step \in HalfSteps <=> job[w].step \in HalfSteps,
         job'[w].step = "commit_entry" <=> job[w].step = "commit_entry"
  PROVE  UNCHANGED Serial!vars
<1>1. Op(w)' = Op(w) /\ User(w)' = User(w) /\ ChildOf(w)' = ChildOf(w)
  BY SameViews
<1>2. AbsBatch' = AbsBatch
  BY BatchHidden
<1>3. AbsLedger' = AbsLedger
  <2>1. CASE job[w].step = "commit_entry"
    <3>1. AbsLedger = [ledger EXCEPT ![ChildOf(w)] = Front(@)]
      BY <2>1, InHandler
    <3>2. AbsLedger' = [ledger' EXCEPT ![ChildOf(w)'] = Front(@)]
      BY <2>1, InHandlerAfter
    <3> QED
      BY <1>1, <3>1, <3>2
  <2>2. CASE job[w].step # "commit_entry"
    <3>1. AbsLedger = ledger
      BY <2>2, InHandler
    <3>2. AbsLedger' = ledger'
      BY <2>2, InHandlerAfter
    <3> QED
      BY <3>1, <3>2
  <2> QED
    BY <2>1, <2>2
<1>4. AbsTasks' = AbsTasks /\ AbsUsage' = AbsUsage
  <2>1. CASE job[w].step \notin HalfSteps
    BY <2>1, InHandler, InHandlerAfter
  <2>2. CASE job[w].step \in HalfSteps
    <3>1. Op(w) \in {"create", "usage"} \cup TaskOps
      BY <2>2, AtStep DEF HalfSteps, Active, TaskOps
    <3> QED
      BY <2>2, <3>1, HalfStays
  <2> QED
    BY <2>1, <2>2
<1> QED
  BY <1>2, <1>3, <1>4 DEF Serial!vars

(* A statement that writes nothing and answers nothing is not seen, unless *)
(* the handler's change becomes complete with it.                          *)
LEMMA GoesOnHidden ==
  ASSUME ClientInv, Fits, NEW w \in Workers, Handle(w), UNCHANGED tables,
         job'[w].step # "idle", job'[w].req = job[w].req, job'[w].todo = job[w].todo,
         job'[w].step \in HalfSteps <=> job[w].step \in HalfSteps,
         job'[w].step = "commit_entry" <=> job[w].step = "commit_entry"
  PROVE  UNCHANGED Serial!vars
<1>1. UNCHANGED <<tasks, ledger, usage>>
  BY DEF tables
<1>2. made' = made
  BY <1>1, MadeStays
<1> QED
  BY <1>1, <1>2, Handling, NothingShown

(* A SELECT is executed, or the handler goes on to its next statement.     *)
LEMMA GotoHidden ==
  ASSUME ClientInv, Fits, NEW w \in Workers, Handle(w), UNCHANGED tables,
         NEW step, Goto(w, step), step \notin {"idle", "commit_entry"},
         job[w].step # "commit_entry",
         step \in HalfSteps <=> job[w].step \in HalfSteps
  PROVE  UNCHANGED Serial!vars
<1>1. Keeps(w) /\ job'[w].step = step
  BY JobKeeps DEF ClientInv
<1> QED
  BY <1>1, GoesOnHidden DEF Keeps

(* The statements that only read, and the commits that more writes follow. *)
LEMMA ReadsHidden ==
  ASSUME ClientInv, Fits, NEW w \in Workers, Handle(w),
         \/ Execute(w) \/ Cover(w) \/ ReadBalance(w) \/ ReadHistory(w) \/ ReadLast(w)
         \/ CheckChild(w) /\ Goto(w, "insert_task")
         \/ GetTask(w) /\ Goto(w, "check_family")
         \/ (GetTask(w) \/ CheckFamily(w)) /\ Goto(w, "recheck")
         \/ Recheck(w) /\ Goto(w, "update_task")
         \/ CheckAccess(w) /\ (Goto(w, "history") \/ Goto(w, "view"))
         \/ FindExisting(w) /\ Goto(w, "cover")
         \/ CommitTask(w) /\ Goto(w, "get_balance")
         \/ CommitSession(w) /\ Goto(w, "get_balance")
  PROVE  UNCHANGED Serial!vars
<1>1. Active(w) /\ TypeInv /\ job \in [Workers -> Job]
  BY Handling DEF TypeInv, TypeOK
<1>2. CASE Execute(w)
  <2>1. Keeps(w) /\ job'[w].step = job[w].step /\ UNCHANGED tables
    BY <1>1, <1>2, JobKeeps DEF Execute
  <2> QED
    BY <1>1, <2>1, GoesOnHidden DEF Keeps, Active
<1>3. CASE Cover(w)
  <2>1. /\ job[w].step = "cover" /\ job'[w].step = "insert_session"
        /\ job'[w].req = job[w].req /\ job'[w].todo = job[w].todo
    BY <1>1, <1>3, CoverKept DEF Cover, Fetch
  <2>2. UNCHANGED tables
    BY <1>3 DEF Cover, Fetch
  <2> QED
    BY <2>1, <2>2, GoesOnHidden DEF HalfSteps
<1>4. CASE ReadBalance(w)
  <2>1. /\ job[w].step = "get_balance" /\ job'[w].step = "insert_entry"
        /\ job'[w].req = job[w].req /\ job'[w].todo = job[w].todo
    BY <1>1, <1>4, ReadBalanceKept DEF ReadBalance, Fetch
  <2>2. UNCHANGED tables
    BY <1>4 DEF ReadBalance, Fetch
  <2> QED
    BY <2>1, <2>2, GoesOnHidden DEF HalfSteps
<1>5. CASE ReadLast(w)
  <2>1. UNCHANGED tables /\ job[w].step = "last"
    BY <1>5 DEF ReadLast, Fetch
  <2>2. /\ job'[w].step = "sum"
        /\ job'[w].req = job[w].req /\ job'[w].todo = job[w].todo
    BY <1>1, <1>5 DEF ReadLast, Job
  <2> QED
    BY <2>1, <2>2, GoesOnHidden DEF HalfSteps
<1>6. CASE \/ ReadHistory(w)
           \/ GetTask(w) /\ Goto(w, "check_family")
           \/ (GetTask(w) \/ CheckFamily(w)) /\ Goto(w, "recheck")
           \/ Recheck(w) /\ Goto(w, "update_task")
           \/ CheckAccess(w) /\ (Goto(w, "history") \/ Goto(w, "view"))
           \/ FindExisting(w) /\ Goto(w, "cover")
  <2>1. /\ UNCHANGED tables
        /\ job[w].step \in {"history", "get_task", "check_family", "recheck", "check_access",
                            "find"}
    BY <1>6 DEF ReadHistory, GetTask, CheckFamily, Recheck, CheckAccess, FindExisting, Fetch
  <2>2. \E step \in {"last", "check_family", "recheck", "update_task", "history", "view",
                     "cover"} : Goto(w, step)
    BY <1>6 DEF ReadHistory
  <2> QED
    BY <2>1, <2>2, GotoHidden DEF HalfSteps
<1>7. CASE CheckChild(w) /\ Goto(w, "insert_task")
  <2>1. UNCHANGED tables /\ job[w].step = "check_child"
    BY <1>7 DEF CheckChild, Fetch
  <2> QED
    BY <1>7, <2>1, GotoHidden DEF HalfSteps
<1>8. CASE (CommitTask(w) \/ CommitSession(w)) /\ Goto(w, "get_balance")
  <2>1. UNCHANGED tables /\ job[w].step \in {"commit_task", "commit_session"}
    BY <1>8 DEF CommitTask, CommitSession, Commit
  <2> QED
    BY <1>8, <2>1, GotoHidden DEF HalfSteps
<1> QED
  BY <1>2, <1>3, <1>4, <1>5, <1>6, <1>7, <1>8

-----------------------------------------------------------------------------
(***************************************************************************)
(* Writes: RewardBank does not see them before their last commit.          *)
(***************************************************************************)
(* A task whose status is put back is the task it was.                     *)
LEMMA PutBack ==
  ASSUME NEW task \in Task, NEW status
  PROVE  [[task EXCEPT !.status = status] EXCEPT !.status = task.status] = task
BY DEF Task

(* The INSERT and the UPDATE of a task, of a session's row, of an entry.   *)
LEMMA InsertTaskHidden ==
  ASSUME ClientInv, Fits, NEW w \in Workers, Handle(w), InsertTask(w)
  PROVE  UNCHANGED Serial!vars
<1> DEFINE row == [child_id |-> job[w].req.child, family_id |-> FamilyOf[User(w)],
                   reward_minutes |-> job[w].req.reward, status |-> "pending"]
<1>1. job[w].step = "insert_task" /\ Wrote(w, "task", "commit_task") /\ UNCHANGED <<ledger, usage>>
  BY DEF InsertTask, Modify
<1>2. PICK t \in TaskIds : tasks[t] = NoTask /\ tasks' = [tasks EXCEPT ![t] = row]
  BY DEF InsertTask
<1>3. Keeps(w) /\ job'[w].step = "commit_task" /\ job'[w].req = job[w].req
  BY <1>1, JobKeeps DEF ClientInv, Keeps
<1>4. /\ Op(w) = "create" /\ Op(w)' = "create" /\ User(w)' = User(w)
      /\ made \in Seq(TaskIds) /\ tasks \in [TaskIds -> Task \cup {NoTask}]
  BY <1>1, <1>3, Handling, SoundNow, AtStep, SameViews DEF Active, TablesTyped
<1>5. Last(made') = t
  <2>1. row # NoTask
    BY DEF NoTask
  <2> HIDE DEF row
  <2>2. made' = Append(made, t)
    BY <1>2, <1>4, <2>1, MadeGrows
  <2> QED
    BY <1>4, <2>2 DEF Last
<1>6. AbsTasks = tasks /\ AbsUsage = usage /\ AbsLedger = ledger
  BY <1>1, TablesShown DEF HalfSteps
<1>7. AbsUsage' = usage' /\ AbsLedger' = ledger'
  BY <1>3, <1>4, Handling, InHandlerAfter
<1>8. AbsTasks' = [tasks' EXCEPT ![t] = NoTask]
  BY <1>3, <1>4, <1>5, Handling, InHandlerAfter DEF HalfSteps
<1>9. AbsTasks' = tasks
  <2> HIDE DEF row
  <2> QED
    BY <1>2, <1>4, <1>8
<1>10. AbsBatch' = AbsBatch
  BY <1>3, Handling, BatchHidden DEF Keeps
<1> QED
  BY <1>1, <1>3, <1>6, <1>7, <1>9, <1>10, Handling DEF Serial!vars

(* The UPDATE of a status is not there before the handler's last commit.   *)
LEMMA UpdateTaskHidden ==
  ASSUME ClientInv, Fits, NEW w \in Workers, Handle(w), UpdateTask(w)
  PROVE  UNCHANGED Serial!vars
<1> DEFINE t == job[w].req.task
           row == [tasks[t] EXCEPT !.status = NewStatus(Op(w))]
<1>1. /\ job[w].step = "update_task" /\ Wrote(w, "task", "commit_task")
      /\ tasks' = [tasks EXCEPT ![t] = row] /\ UNCHANGED <<ledger, usage>>
  BY DEF UpdateTask, Modify
<1>2. Op(w) \in TaskOps /\ Op(w) # "usage"
  BY <1>1, Handling, AtStep DEF Active, TaskOps
<1>3. /\ t \in TaskIds /\ tasks[t] \in Task
      /\ tasks \in [TaskIds -> Task \cup {NoTask}]
  BY <1>1, <1>2, Handling, TaskNamed DEF Active, TaskOf, TablesTyped
<1>4. tasks[t].status = AllowedFrom(Op(w))
  <2>1. TaskCode(Op(w), User(w), tasks[t]) = 200
    BY <1>1, <1>2, Handling, SoundNow DEF TransitionFits, TaskOf
  <2> QED
    BY <2>1 DEF TaskCode
<1>5. Keeps(w) /\ job'[w].step = "commit_task" /\ job'[w].req = job[w].req
  BY <1>1, JobKeeps DEF ClientInv, Keeps
<1>6. Op(w)' = Op(w)
  BY <1>5, SameViews
<1>7. AbsTasks = tasks /\ AbsUsage = usage /\ AbsLedger = ledger
  BY <1>1, TablesShown DEF HalfSteps
<1>8. AbsUsage' = usage' /\ AbsLedger' = ledger'
  BY <1>2, <1>5, <1>6, Handling, InHandlerAfter
<1>9. AbsTasks' = [tasks' EXCEPT ![t].status = AllowedFrom(Op(w))]
  <2>1. AbsTasks' = [tasks' EXCEPT ![job'[w].req.task].status = AllowedFrom(Op(w)')]
    BY <1>2, <1>5, <1>6, Handling, InHandlerAfter DEF HalfSteps
  <2> QED
    BY <1>5, <1>6, <2>1
<1>10. AbsTasks' = tasks
  <2>1. [row EXCEPT !.status = AllowedFrom(Op(w))] = tasks[t]
    BY <1>3, <1>4, PutBack
  <2> HIDE DEF row
  <2> QED
    BY <1>1, <1>3, <1>9, <2>1
<1>11. AbsBatch' = AbsBatch
  BY <1>5, Handling, BatchHidden DEF Keeps
<1> QED
  BY <1>1, <1>5, <1>7, <1>8, <1>10, <1>11, Handling DEF Serial!vars

(* Nor is the INSERT of a session.                                         *)
LEMMA InsertSessionHidden ==
  ASSUME ClientInv, Fits, NEW w \in Workers, Handle(w), InsertSession(w)
  PROVE  UNCHANGED Serial!vars
<1> DEFINE u == User(w)
           s == Head(job[w].todo)
<1>1. /\ job[w].step = "insert_session" /\ Wrote(w, "session", "commit_session")
      /\ usage' = [usage EXCEPT ![u][s] = job[w].row] /\ UNCHANGED <<tasks, ledger>>
      /\ usage[u][s] = NoRow
  BY DEF InsertSession, Modify, Recorded
<1>2. Op(w) = "usage" /\ BatchFits(job[w]) /\ Admitted(job[w]) /\ job[w] \in Job
  BY <1>1, Handling, AtStep DEF Active
<1>3. u \in Children /\ s \in Sessions
  <2>1. job[w].todo \in Seq(Sessions) /\ job[w].todo # <<>>
    BY <1>2 DEF BatchFits, Op, Job
  <2> QED
    BY <1>2, <2>1, AdmittedForm DEF Admitted, Op, User
<1>4. usage \in [Children -> [Sessions -> UsageSession \cup {NoRow}]]
  BY Handling DEF TablesTyped
<1>5. Keeps(w) /\ job'[w].step = "commit_session" /\ job'[w].req = job[w].req
  BY <1>1, JobKeeps DEF ClientInv, Keeps
<1>6. Op(w)' = Op(w) /\ User(w)' = User(w)
  BY <1>5, SameViews
<1>7. AbsTasks = tasks /\ AbsUsage = usage /\ AbsLedger = ledger
  BY <1>1, TablesShown DEF HalfSteps
<1>8. AbsTasks' = tasks' /\ AbsLedger' = ledger'
  BY <1>2, <1>5, <1>6, Handling, InHandlerAfter
<1>9. AbsUsage' = [usage' EXCEPT ![u][s] = NoRow]
  <2>1. AbsUsage' = [usage' EXCEPT ![User(w)'][Head(job'[w].todo)] = NoRow]
    BY <1>2, <1>5, <1>6, Handling, InHandlerAfter DEF HalfSteps
  <2> QED
    BY <1>5, <1>6, <2>1 DEF Keeps
<1>10. AbsUsage' = usage
  <2> HIDE DEF u, s
  <2> QED
    BY <1>1, <1>3, <1>4, <1>9
<1>11. AbsBatch' = AbsBatch
  BY <1>5, Handling, BatchHidden DEF Keeps
<1> QED
  BY <1>1, <1>5, <1>7, <1>8, <1>10, <1>11, Handling DEF Serial!vars

(* Nor is the INSERT of an entry.                                          *)
LEMMA InsertEntryHidden ==
  ASSUME ClientInv, Fits, NEW w \in Workers, Handle(w), InsertEntry(w)
  PROVE  UNCHANGED Serial!vars
<1> DEFINE c == ChildOf(w)
           e == EntryOf(w)
<1>1. /\ job[w].step = "insert_entry" /\ Wrote(w, "entry", "commit_entry")
      /\ ledger' = [ledger EXCEPT ![c] = Append(@, e)]
      /\ UNCHANGED <<tasks, usage>>
  BY DEF InsertEntry, Modify
<1>2. c \in Children /\ e \in LedgerEntry /\ Op(w) \in {"approve", "undo", "usage"}
  BY <1>1, Handling, EntryType
<1>3. ledger \in [Children -> Seq(LedgerEntry)]
  BY Handling DEF TablesTyped
<1>4. Keeps(w) /\ job'[w].step = "commit_entry" /\ job'[w].req = job[w].req
  BY <1>1, JobKeeps DEF ClientInv, Keeps
<1>5. Op(w)' = Op(w) /\ User(w)' = User(w) /\ ChildOf(w)' = c
  BY <1>1, <1>4, SameViews
<1>6. AbsLedger = ledger
  BY <1>1, Handling, InHandler
<1>7. AbsLedger' = ledger
  <2>1. AbsLedger' = [ledger' EXCEPT ![c] = Front(@)]
    BY <1>4, <1>5, EntryHidden
  <2>2. Front(Append(ledger[c], e)) = ledger[c]
    BY <1>2, <1>3, FrontOfAppend
  <2> HIDE DEF c, e
  <2> QED
    BY <1>1, <1>2, <1>3, <2>1, <2>2
<1>8. AbsTasks' = AbsTasks /\ AbsUsage' = AbsUsage
  <2>1. made' = made
    BY <1>1, MadeStays
  <2> QED
    BY <1>1, <1>2, <1>4, <2>1, Handling, HalfStays DEF HalfSteps, TaskOps, Keeps
<1>9. AbsBatch' = AbsBatch
  BY <1>4, Handling, BatchHidden DEF Keeps
<1> QED
  BY <1>4, <1>6, <1>7, <1>8, <1>9, Handling DEF Serial!vars

-----------------------------------------------------------------------------
(***************************************************************************)
(* Answers: the handler's last statement is RewardBank's step.             *)
(***************************************************************************)
(* The handler answers, and its tables are all there is.                   *)
LEMMA AnswerShown ==
  ASSUME ClientInv, Fits, NEW w \in Workers, Handle(w), UNCHANGED tables,
         NEW code \in Codes \ {401}, Answer(w, code)
  PROVE  /\ AbsTasks' = tasks /\ AbsUsage' = usage /\ AbsLedger' = ledger /\ AbsBatch' = <<>>
         /\ reply' = [op |-> Op(w), user |-> User(w), code |-> code,
                      balance |-> IF code = 200 THEN Body(w) ELSE 0, invariant_holds |-> TRUE]
<1>1. job'[w].step = "idle" /\ job'[w].code = code /\ job'[w].holds = TRUE
  <2>1. job \in [Workers -> Job]
    BY Handling DEF TypeInv, TypeOK
  <2>2. job'[w] = [Answered(job[w].req, code) EXCEPT !.wrote = job[w].wrote]
    BY <2>1 DEF Answer
  <2> QED
    BY <2>2 DEF Answered
<1>2. Quiet' /\ reply' = Told(job[w].req, code, IF code = 200 THEN Body(w) ELSE 0, TRUE)
  <2>1. /\ Quiet'
        /\ reply' = Told(job[w].req, job'[w].code, IF job'[w].code = 200 THEN Body(w) ELSE 0,
                         job'[w].holds)
    BY <1>1, Handling
  <2> QED
    BY <1>1, <2>1
<1>3. AbsTasks' = tasks /\ AbsUsage' = usage /\ AbsLedger' = ledger /\ AbsBatch' = <<>>
  BY <1>2, AtRestAfter DEF tables
<1>4. Op(w) # "no_header"
  BY Handling, AtStep, AdmittedForm DEF Active, Admitted, Op, TaskOps
<1> QED
  BY <1>2, <1>3, <1>4 DEF Told, Op, User

(* RewardBank's handler is free: a request that is no batch starts.        *)
LEMMA NoBatchLeft ==
  ASSUME ClientInv, NEW w \in Workers, Active(w), Op(w) # "usage"
  PROVE  AbsBatch = <<>>
<1>1. job[w].todo = <<>>
  BY SoundNow
<1>2. AbsBatch = [i \in DOMAIN job[w].todo |-> <<User(w), job[w].todo[i]>>]
  BY InHandler DEF ClientInv
<1> QED
  BY <1>1, <1>2, NoBatch

(* The handler turns the request down before it has written anything.      *)
LEMMA RefusalShown ==
  ASSUME ClientInv, Fits, NEW w \in Workers, Handle(w), UNCHANGED tables,
         NEW code \in Codes \ {401}, code >= 400, Answer(w, code),
         job[w].step \notin HalfSteps, Op(w) # "usage"
  PROVE  Serial!Refuse(Op(w), User(w), code)
<1>1. AbsTasks = tasks /\ AbsUsage = usage /\ AbsLedger = ledger
  BY Handling, InHandler
<1>2. AbsBatch = <<>>
  BY Handling, NoBatchLeft
<1>3. code # 200
  OBVIOUS
<1>4. /\ AbsTasks' = tasks /\ AbsUsage' = usage /\ AbsLedger' = ledger /\ AbsBatch' = <<>>
      /\ reply' = [op |-> Op(w), user |-> User(w), code |-> code,
                   balance |-> 0, invariant_holds |-> TRUE]
  BY <1>3, AnswerShown
<1> QED
  BY <1>1, <1>2, <1>4 DEF Serial!Refuse, Serial!Idle, Serial!Answer, Serial!tables

(* create_task does not find the child in the parent's family.             *)
LEMMA CheckChildShown ==
  ASSUME ClientInv, Fits, NEW w \in Workers, Handle(w), CheckChild(w)
  PROVE  Serial!Next \/ UNCHANGED Serial!vars
<1> DEFINE q == job[w].req
           code == CreateCode(q.user, q.child, q.reward)
<1>1. CASE code = 201
  BY <1>1, ReadsHidden DEF CheckChild
<1>2. CASE code # 201
  <2>1. /\ Answer(w, code) /\ UNCHANGED tables /\ job[w].step = "check_child"
    BY <1>2 DEF CheckChild, Fetch
  <2>2. code \in {400, 403, 422}
    BY <1>2 DEF CreateCode
  <2>3. Op(w) = "create" /\ Admitted(job[w])
    BY <2>1, Handling, AtStep DEF Active
  <2>4. q \in Menu /\ q.user \in Users /\ q.child \in Users \cup {Stranger} /\ q.reward \in Rewards
    BY <2>3, AdmittedForm, MenuValuesAssumption DEF Admitted, Op
  <2>5. Serial!Refuse("create", q.user, code)
    <3> HIDE DEF code
    <3> QED
      BY <2>1, <2>2, <2>3, RefusalShown DEF HalfSteps, Codes, User
  <2>6. Serial!Refusal(q.user)
    <3>1. Serial!Refuse("create", q.user, Serial!CreateCode(q.user, q.child, q.reward))
      BY <2>5, SameTaskCodes
    <3> QED
      BY <2>4, <3>1 DEF Serial!Refusal, Serial!Anyone
  <2> QED
    BY <2>4, <2>6 DEF Serial!Next, Serial!Request
<1> QED
  BY <1>1, <1>2

(* A task transition is turned down, at the first look, for the family, or *)
(* at the second look.                                                     *)
LEMMA GetTaskShown ==
  ASSUME ClientInv, Fits, NEW w \in Workers, Handle(w),
         GetTask(w) \/ CheckFamily(w) \/ Recheck(w)
  PROVE  Serial!Next \/ UNCHANGED Serial!vars
<1> DEFINE q == job[w].req
           code == TaskCode(Op(w), User(w), TaskOf(w))
<1>1. UNCHANGED tables /\ job[w].step \in {"get_task", "check_family", "recheck"}
  BY DEF GetTask, CheckFamily, Recheck, Fetch
<1>2. \/ GetTask(w) /\ Goto(w, "check_family")
      \/ (GetTask(w) \/ CheckFamily(w)) /\ Goto(w, "recheck")
      \/ Recheck(w) /\ Goto(w, "update_task")
      \/ code # 200 /\ Answer(w, code)
  BY DEF GetTask, CheckFamily, Recheck, TaskCode
<1>3. CASE \/ GetTask(w) /\ Goto(w, "check_family")
           \/ (GetTask(w) \/ CheckFamily(w)) /\ Goto(w, "recheck")
           \/ Recheck(w) /\ Goto(w, "update_task")
  BY <1>3, ReadsHidden
<1>4. CASE code # 200 /\ Answer(w, code)
  <2>1. code \in {400, 403, 404}
    BY <1>4, CodesType
  <2>2. Op(w) \in TaskOps /\ Op(w) # "usage"
    BY <1>1, Handling, AtStep DEF Active, TaskOps
  <2>3. User(w) \in Users /\ q.task \in TaskIds
    BY <2>2, Handling, TaskNamed DEF Active
  <2>4. AbsTasks = tasks
    BY <1>1, TablesShown DEF HalfSteps
  <2>5. Serial!Refuse(Op(w), User(w), code)
    <3> HIDE DEF code
    <3> QED
      BY <1>1, <1>4, <2>1, <2>2, RefusalShown DEF HalfSteps, Codes
  <2>6. Serial!Refusal(User(w))
    <3>1. Serial!Refuse(Op(w), User(w), Serial!TaskCode(Op(w), User(w), AbsTasks[q.task]))
      BY <2>4, <2>5, SameTaskCodes DEF TaskOf
    <3> QED
      BY <2>2, <2>3, <3>1, SameRows DEF Serial!Refusal
  <2> QED
    BY <2>3, <2>6 DEF Serial!Next, Serial!Request
<1> QED
  BY <1>2, <1>3, <1>4

(* A transition that is under way, before and after RewardBank makes it.   *)
LEMMA TransitionShown ==
  ASSUME ClientInv, NEW w \in Workers, Active(w), Op(w) \in TaskOps, job[w].step \in HalfSteps
  PROVE  LET t == job[w].req.task
         IN  /\ t \in TaskIds /\ User(w) \in Users
             /\ TaskCode(Op(w), User(w), AbsTasks[t]) = 200
             /\ AbsTasks[t].child_id = TaskOf(w).child_id
             /\ AbsTasks[t].reward_minutes = TaskOf(w).reward_minutes
             /\ tasks = [AbsTasks EXCEPT ![t].status = NewStatus(Op(w))]
             /\ AbsUsage = usage /\ AbsBatch = <<>>
<1> DEFINE t == job[w].req.task
           row == tasks[t]
           old == [row EXCEPT !.status = AllowedFrom(Op(w))]
<1>1. TypeInv /\ Alone /\ TablesTyped /\ Op(w) # "usage"
  BY SoundNow DEF ClientInv, TaskOps
<1>2. job[w].step \in {"commit_task", "get_balance", "insert_entry", "commit_entry"}
  BY <1>1, AtStep DEF HalfSteps, Active
<1>3. t \in TaskIds /\ User(w) \in Users /\ row \in Task
  BY <1>1, <1>2, TaskNamed DEF TaskOf, Active
<1>4. row.status = NewStatus(Op(w)) /\ AccessCode(Op(w), User(w), row) = 200
  BY <1>2, SoundNow DEF TransitionFits, TaskOf
<1>5. AbsTasks = [tasks EXCEPT ![t].status = AllowedFrom(Op(w))]
  BY <1>1, InHandler
<1>6. AbsTasks = [tasks EXCEPT ![t] = old] /\ AbsTasks[t] = old
  <2>1. tasks \in [TaskIds -> Task \cup {NoTask}]
    BY <1>1 DEF TablesTyped
  <2> QED
    BY <1>3, <1>5, <2>1
<1>7. /\ old.status = AllowedFrom(Op(w)) /\ old.child_id = row.child_id
      /\ old.family_id = row.family_id /\ old.reward_minutes = row.reward_minutes
      /\ old # NoTask
  BY <1>3 DEF Task, NoTask
<1>8. [old EXCEPT !.status = NewStatus(Op(w))] = row
  <2>1. [old EXCEPT !.status = row.status] = row
    BY <1>3, PutBack
  <2> QED
    BY <1>4, <2>1
<1> HIDE DEF old, row, t
<1>9. TaskCode(Op(w), User(w), old) = 200
  BY <1>4, <1>7 DEF TaskCode, AccessCode, MayAct
<1>10. tasks = [AbsTasks EXCEPT ![t].status = NewStatus(Op(w))]
  <2>1. tasks \in [TaskIds -> Task \cup {NoTask}] /\ tasks[t] = row
    BY <1>1 DEF TablesTyped, row
  <2> QED
    BY <1>3, <1>6, <1>8, <2>1
<1>11. AbsUsage = usage /\ AbsBatch = <<>>
  BY <1>1, InHandler, NoBatchLeft
<1>12. row = TaskOf(w)
  BY DEF row, t, TaskOf
<1> QED
  BY <1>3, <1>6, <1>7, <1>9, <1>10, <1>11, <1>12 DEF t

(* The commit of a new task.                                               *)
LEMMA CreationShown ==
  ASSUME ClientInv, Fits, NEW w \in Workers, Handle(w), CommitTask(w), Op(w) = "create"
  PROVE  Serial!Next
<1> DEFINE q == job[w].req
           t == Last(made)
           row == [child_id |-> q.child, family_id |-> FamilyOf[User(w)],
                   reward_minutes |-> q.reward, status |-> "pending"]
<1>1. job[w].step = "commit_task" /\ UNCHANGED tables /\ Answer(w, 201)
  BY DEF CommitTask, Commit
<1>2. /\ made \in Seq(TaskIds) /\ made # <<>> /\ tasks[t] = row
      /\ CreateCode(User(w), q.child, q.reward) = 201
      /\ tasks \in [TaskIds -> Task \cup {NoTask}]
  BY <1>1, Handling, SoundNow DEF CreationFits, TablesTyped
<1>3. t \in TaskIds
  BY <1>2 DEF Last
<1>4. /\ q \in Menu /\ User(w) \in Users /\ q.child \in Users \cup {Stranger}
      /\ q.reward \in Rewards
  <2>1. Admitted(job[w])
    BY Handling, AtStep DEF Active
  <2> QED
    BY <2>1, AdmittedForm, MenuValuesAssumption DEF Admitted, Op, User
<1>5. /\ AbsTasks = [tasks EXCEPT ![t] = NoTask]
      /\ AbsUsage = usage /\ AbsLedger = ledger /\ AbsBatch = <<>>
  <2>1. Alone /\ Active(w)
    BY Handling
  <2>2. /\ AbsTasks = [tasks EXCEPT ![t] = NoTask]
        /\ AbsUsage = usage /\ AbsLedger = ledger
    BY <1>1, <2>1, InHandler DEF HalfSteps
  <2>3. AbsBatch = <<>>
    BY <1>1, <2>1, NoBatchLeft
  <2> QED
    BY <2>2, <2>3
<1>6. /\ AbsTasks' = tasks /\ AbsUsage' = usage /\ AbsLedger' = ledger /\ AbsBatch' = <<>>
      /\ reply' = [op |-> "create", user |-> User(w), code |-> 201,
                   balance |-> 0, invariant_holds |-> TRUE]
  BY <1>1, AnswerShown DEF Codes
<1>7. AbsTasks[t] = NoTask /\ AbsTasks' = [AbsTasks EXCEPT ![t] = row]
  <2> HIDE DEF row, t
  <2>1. AbsTasks[t] = NoTask
    BY <1>2, <1>3, <1>5
  <2>2. [[tasks EXCEPT ![t] = NoTask] EXCEPT ![t] = tasks[t]] = tasks
    <3>1. ASSUME NEW T, tasks \in [TaskIds -> T]
          PROVE  [[tasks EXCEPT ![t] = NoTask] EXCEPT ![t] = tasks[t]] = tasks
      BY <1>3, <3>1
    <3> QED
      BY <1>2, <3>1
  <2> QED
    BY <1>2, <1>5, <1>6, <2>1, <2>2
<1>8. Serial!CreateTask(User(w), q.child, q.reward, t)
  BY <1>2, <1>5, <1>6, <1>7, SameRows, SameTaskCodes
     DEF Serial!CreateTask, Serial!Idle, Serial!Answer
<1> QED
  BY <1>3, <1>4, <1>8 DEF Serial!Next, Serial!Request, Serial!Anyone

(* The commit of a transition that no entry follows.                       *)
LEMMA DoneOrRejectedShown ==
  ASSUME ClientInv, Fits, NEW w \in Workers, Handle(w), CommitTask(w),
         Op(w) \in {"done", "reject"}
  PROVE  Serial!Next
<1> DEFINE t == job[w].req.task
<1>1. job[w].step = "commit_task" /\ UNCHANGED tables /\ Answer(w, 200)
  BY DEF CommitTask, Commit
<1>2. Op(w) \in TaskOps /\ job[w].step \in HalfSteps
  BY <1>1 DEF TaskOps, HalfSteps
<1>3. /\ t \in TaskIds /\ User(w) \in Users /\ TaskCode(Op(w), User(w), AbsTasks[t]) = 200
      /\ tasks = [AbsTasks EXCEPT ![t].status = NewStatus(Op(w))]
      /\ AbsUsage = usage /\ AbsBatch = <<>>
  BY <1>2, Handling, TransitionShown
<1>4. AbsLedger = ledger
  BY <1>1, Handling, InHandler
<1>5. Body(w) = 0
  BY DEF Body
<1>6. /\ AbsTasks' = tasks /\ AbsUsage' = usage /\ AbsLedger' = ledger /\ AbsBatch' = <<>>
      /\ reply' = [op |-> Op(w), user |-> User(w), code |-> 200,
                   balance |-> 0, invariant_holds |-> TRUE]
  BY <1>1, <1>5, AnswerShown DEF Codes
<1> HIDE DEF t
<1>7. CASE Op(w) = "done"
  <2>1. Serial!MarkTaskDone(User(w), t)
    BY <1>3, <1>4, <1>6, <1>7, SameTaskCodes
       DEF Serial!MarkTaskDone, Serial!SetStatus, Serial!Idle, Serial!Answer
  <2> QED
    BY <1>3, <2>1 DEF Serial!Next, Serial!Request
<1>8. CASE Op(w) = "reject"
  <2>1. Serial!RejectTask(User(w), t)
    BY <1>3, <1>4, <1>6, <1>8, SameTaskCodes
       DEF Serial!RejectTask, Serial!SetStatus, Serial!Idle, Serial!Answer
  <2> QED
    BY <1>3, <2>1 DEF Serial!Next, Serial!Request
<1> QED
  BY <1>7, <1>8

(* A task's commit is RewardBank's request, unless an entry follows it.    *)
LEMMA CommitTaskShown ==
  ASSUME ClientInv, Fits, NEW w \in Workers, Handle(w), CommitTask(w)
  PROVE  Serial!Next \/ UNCHANGED Serial!vars
<1>1. Op(w) \in {"create", "done", "reject", "approve", "undo"}
  <2>1. job[w].step = "commit_task"
    BY DEF CommitTask, Commit
  <2> QED
    BY <2>1, Handling, AtStep DEF Active, TaskOps
<1>2. CASE Op(w) \in {"approve", "undo"}
  BY <1>2, ReadsHidden DEF CommitTask
<1> QED
  BY <1>1, <1>2, CreationShown, DoneOrRejectedShown

(* The entry that is committed, seen from before it.                       *)
LEMMA EntryShown ==
  ASSUME ClientInv, NEW w \in Workers, Active(w), job[w].step = "commit_entry"
  PROVE  LET c == ChildOf(w)
         IN  /\ c \in Children
             /\ job[w].read = GetBalance(AbsLedger[c])
             /\ ledger = [AbsLedger EXCEPT ![c] = Append(@, EntryOf(w))]
             /\ ledger[c] # <<>> /\ ledger[c][Len(ledger[c])] = EntryOf(w)
<1> DEFINE c == ChildOf(w)
           e == EntryOf(w)
           front == Front(ledger[c])
<1>1. TypeInv /\ Alone /\ ledger \in [Children -> Seq(LedgerEntry)]
  BY SoundNow DEF ClientInv, TablesTyped
<1>2. c \in Children
  BY <1>1, ChildRead
<1>3. ledger[c] # <<>> /\ ledger[c] = Append(front, e) /\ job[w].read = GetBalance(front)
  BY SoundNow DEF BalanceFits
<1>4. AbsLedger = [ledger EXCEPT ![c] = Front(@)]
  BY <1>1, InHandler
<1>5. front \in Seq(LedgerEntry)
  <2>1. ledger[c] \in Seq(LedgerEntry)
    BY <1>1, <1>2
  <2>2. ledger[c] # <<>>
    BY <1>3
  <2> HIDE DEF c
  <2> QED
    BY <2>1, <2>2 DEF Front
<1>6. ledger[c][Len(ledger[c])] = e
  <2> HIDE DEF front, e
  <2>1. Len(Append(front, e)) = Len(front) + 1 /\ Append(front, e)[Len(front) + 1] = e
    BY <1>5
  <2> QED
    BY <1>3, <2>1
<1>7. AbsLedger = [ledger EXCEPT ![c] = front]
  BY <1>4
<1> HIDE DEF c, e, front
<1>8. AbsLedger[c] = front /\ ledger = [AbsLedger EXCEPT ![c] = Append(@, e)]
  BY <1>1, <1>2, <1>3, <1>7
<1> QED
  BY <1>2, <1>3, <1>6, <1>8 DEF c, e

(* approve_task and undo_approval end with the commit of their entry.      *)
LEMMA CreditShown ==
  ASSUME ClientInv, Fits, NEW w \in Workers, Handle(w), CommitEntry(w),
         Op(w) \in {"approve", "undo"}
  PROVE  Serial!Next
<1> DEFINE t == job[w].req.task
           c == ChildOf(w)
           kind == IF Op(w) = "approve" THEN "credit" ELSE "reversal"
<1>1. job[w].step = "commit_entry" /\ UNCHANGED tables /\ Answer(w, 200)
  BY DEF CommitEntry, Commit
<1>2. Op(w) \in TaskOps /\ job[w].step \in HalfSteps
  BY <1>1 DEF TaskOps, HalfSteps
<1>3. c = TaskOf(w).child_id
  BY <1>2 DEF ChildOf, TaskOps
<1>4. EntryOf(w) = NewEntry(kind, TaskOf(w).reward_minutes, t, job[w].read)
  BY DEF EntryOf
<1>5. /\ t \in TaskIds /\ User(w) \in Users /\ TaskCode(Op(w), User(w), AbsTasks[t]) = 200
      /\ AbsTasks[t].child_id = c /\ AbsTasks[t].reward_minutes = TaskOf(w).reward_minutes
      /\ tasks = [AbsTasks EXCEPT ![t].status = NewStatus(Op(w))]
      /\ AbsUsage = usage /\ AbsBatch = <<>>
  BY <1>2, <1>3, Handling, TransitionShown
<1>6. /\ job[w].read = GetBalance(AbsLedger[c])
      /\ ledger = [AbsLedger EXCEPT ![c] = Append(@, EntryOf(w))]
      /\ GetBalance(ledger[c]) = EntryOf(w).balance_after
  BY <1>1, Handling, EntryShown DEF GetBalance
<1>7. /\ AbsTasks' = tasks /\ AbsUsage' = usage /\ AbsLedger' = ledger /\ AbsBatch' = <<>>
      /\ reply' = [op |-> Op(w), user |-> User(w), code |-> 200,
                   balance |-> Body(w), invariant_holds |-> TRUE]
  BY <1>1, AnswerShown DEF Codes
<1> HIDE DEF t, c
<1>8. Serial!AppendLedgerEntry(AbsTasks[t].child_id, kind, AbsTasks[t].reward_minutes, t)
  BY <1>4, <1>5, <1>6, <1>7, SameLedger DEF Serial!AppendLedgerEntry
<1>9. Serial!SetStatus(Op(w), t)
  BY <1>5, <1>7, SameTaskCodes DEF Serial!SetStatus
<1>10. CASE Op(w) = "approve"
  <2>1. Body(w) = 0
    BY <1>10 DEF Body
  <2>2. Serial!ApproveTask(User(w), t)
    BY <1>5, <1>7, <1>8, <1>9, <1>10, <2>1, SameTaskCodes
       DEF Serial!ApproveTask, Serial!Idle, Serial!Answer
  <2> QED
    BY <1>5, <2>2 DEF Serial!Next, Serial!Request
<1>11. CASE Op(w) = "undo"
  <2>1. Body(w) = GetBalance(AbsLedger'[AbsTasks[t].child_id])
    BY <1>5, <1>6, <1>7, <1>11 DEF Body
  <2>2. Serial!UndoApproval(User(w), t)
    BY <1>5, <1>7, <1>8, <1>9, <1>11, <2>1, SameTaskCodes, SameLedger
       DEF Serial!UndoApproval, Serial!Idle, Serial!Report
  <2> QED
    BY <1>5, <2>2 DEF Serial!Next, Serial!Request
<1> QED
  BY <1>10, <1>11

-----------------------------------------------------------------------------
(***************************************************************************)
(* The sessions of a batch.                                                *)
(***************************************************************************)
(* RewardBank's batch for the sessions of user.                            *)
Pairs(user, todo) == [i \in DOMAIN todo |-> <<user, todo[i]>>]

(* Its pairs go as the sessions do.                                        *)
LEMMA BatchTail ==
  ASSUME NEW T, NEW todo \in Seq(T), todo # <<>>, NEW user
  PROVE  /\ Pairs(user, todo) # <<>> /\ Len(Pairs(user, todo)) = Len(todo)
         /\ Head(Pairs(user, todo)) = <<user, Head(todo)>>
         /\ Tail(Pairs(user, todo)) = Pairs(user, Tail(todo))
         /\ Len(todo) = 1 => Tail(Pairs(user, todo)) = <<>>
<1> DEFINE p == Pairs(user, todo)
           q == Pairs(user, Tail(todo))
<1>1. p \in Seq({user} \X T) /\ Len(p) = Len(todo) /\ \A i \in 1..Len(todo) : p[i] = <<user, todo[i]>>
  BY DEF Pairs
<1>2. Len(todo) >= 1
  OBVIOUS
<1>3. /\ Tail(todo) \in Seq(T) /\ Len(Tail(todo)) = Len(todo) - 1
      /\ \A i \in 1..(Len(todo) - 1) : Tail(todo)[i] = todo[i + 1]
  BY <1>2
<1>4. /\ q \in Seq({user} \X T) /\ Len(q) = Len(todo) - 1
      /\ \A i \in 1..(Len(todo) - 1) : q[i] = <<user, todo[i + 1]>>
  BY <1>3 DEF Pairs
<1> HIDE DEF p, q
<1>5. p # <<>> /\ Head(p) = <<user, Head(todo)>>
  BY <1>1, <1>2
<1>6. /\ Tail(p) \in Seq({user} \X T) /\ Len(Tail(p)) = Len(todo) - 1
      /\ \A i \in 1..(Len(todo) - 1) : Tail(p)[i] = <<user, todo[i + 1]>>
  BY <1>1, <1>2, <1>5
<1>7. Tail(p) = q
  BY <1>4, <1>6
<1>8. Len(todo) = 1 => Tail(p) = <<>>
  BY <1>6
<1> QED
  BY <1>1, <1>5, <1>7, <1>8 DEF p, q

(* The loop goes on, or the batch is answered.                             *)
LEMMA NextSessionShown ==
  ASSUME ClientInv, Fits, NEW w \in Workers, Handle(w), UNCHANGED tables,
         Op(w) = "usage", NextSession(w)
  PROVE  /\ AbsBatch # <<>>
         /\ Head(AbsBatch)[1] = User(w) /\ Head(AbsBatch)[2] = Head(job[w].todo)
         /\ Serial!NextSession(User(w))
         /\ AbsTasks' = tasks /\ AbsUsage' = usage /\ AbsLedger' = ledger
<1> DEFINE todo == job[w].todo
<1>1. todo \in Seq(Sessions) /\ todo # <<>> /\ job \in [Workers -> Job]
  <2>1. job[w] \in Job /\ BatchFits(job[w]) /\ job \in [Workers -> Job]
    BY Handling, AtStep DEF Active, TypeInv, TypeOK
  <2> QED
    BY <2>1 DEF Job, BatchFits, Op
<1>2. AbsBatch = Pairs(User(w), todo)
  BY Handling, InHandler DEF Pairs
<1>3. /\ AbsBatch # <<>> /\ Len(AbsBatch) = Len(todo)
      /\ Head(AbsBatch)[1] = User(w) /\ Head(AbsBatch)[2] = Head(todo)
      /\ Tail(AbsBatch) = Pairs(User(w), Tail(todo))
      /\ Len(todo) = 1 => Tail(AbsBatch) = <<>>
  <2> HIDE DEF todo
  <2>1. /\ Head(AbsBatch) = <<User(w), Head(todo)>>
        /\ AbsBatch # <<>> /\ Len(AbsBatch) = Len(todo)
        /\ Tail(AbsBatch) = Pairs(User(w), Tail(todo))
        /\ Len(todo) = 1 => Tail(AbsBatch) = <<>>
    BY <1>1, <1>2, BatchTail
  <2> QED
    BY <2>1
<1>4. CASE Len(todo) = 1
  <2>1. Answer(w, 200)
    BY <1>4 DEF NextSession
  <2>2. Body(w) = 0
    BY DEF Body
  <2>3. /\ AbsTasks' = tasks /\ AbsUsage' = usage /\ AbsLedger' = ledger /\ AbsBatch' = <<>>
        /\ reply' = [op |-> "usage", user |-> User(w), code |-> 200,
                     balance |-> 0, invariant_holds |-> TRUE]
    BY <2>1, <2>2, AnswerShown DEF Codes
  <2> QED
    BY <1>3, <1>4, <2>3 DEF Serial!NextSession, Serial!Answer
<1>5. CASE Len(todo) # 1
  <2>1. job' = [job EXCEPT ![w].todo = Tail(@), ![w].step = "find",
                           ![w].fetching = FALSE, ![w].row = NoRow, ![w].read = 0]
    BY <1>5 DEF NextSession
  <2>2. job'[w].req = job[w].req /\ job'[w].todo = Tail(todo) /\ job'[w].step = "find"
    BY <1>1, <2>1 DEF Job
  <2>3. User(w)' = User(w)
    BY <2>2, SameViews
  <2>4. /\ AbsTasks' = tasks' /\ AbsUsage' = usage' /\ AbsLedger' = ledger'
        /\ AbsBatch' = Pairs(User(w)', job'[w].todo)
    BY <2>2, Handling, InHandlerAfter DEF HalfSteps, Pairs
  <2>5. AbsBatch' = Tail(AbsBatch) /\ reply' = reply
    BY <1>3, <2>2, <2>3, <2>4, Handling
  <2> QED
    BY <1>3, <1>5, <2>4, <2>5 DEF Serial!NextSession, tables
<1> QED
  BY <1>4, <1>5

(* A session that the table holds already.                                 *)
LEMMA FindExistingShown ==
  ASSUME ClientInv, Fits, NEW w \in Workers, Handle(w), FindExisting(w)
  PROVE  Serial!Next \/ UNCHANGED Serial!vars
<1> DEFINE s == Head(job[w].todo)
<1>1. job[w].step = "find" /\ UNCHANGED tables
  BY DEF FindExisting, Fetch
<1>2. Op(w) = "usage"
  BY <1>1, Handling, AtStep DEF Active
<1>3. CASE ~Recorded(User(w), s)
  BY <1>3, ReadsHidden DEF FindExisting
<1>4. CASE Recorded(User(w), s)
  <2>1. NextSession(w)
    BY <1>4 DEF FindExisting
  <2>2. /\ AbsBatch # <<>> /\ Head(AbsBatch)[1] = User(w) /\ Head(AbsBatch)[2] = s
        /\ Serial!NextSession(User(w))
        /\ AbsTasks' = tasks /\ AbsUsage' = usage /\ AbsLedger' = ledger
    BY <1>1, <1>2, <2>1, NextSessionShown
  <2>3. AbsTasks = tasks /\ AbsUsage = usage /\ AbsLedger = ledger
    BY <1>1, TablesShown DEF HalfSteps
  <2>4. Serial!DuplicateSession
    BY <1>4, <2>2, <2>3, SameRows
       DEF Serial!DuplicateSession, Serial!Recorded, Recorded, Serial!tables
  <2> QED
    BY <2>4 DEF Serial!Next
<1> QED
  BY <1>3, <1>4

(* The row that is recorded, seen from before it.                          *)
LEMMA RowShown ==
  ASSUME ClientInv, NEW w \in Workers, Active(w), Op(w) = "usage",
         job[w].step \in {"commit_session", "commit_entry"}
  PROVE  LET u == User(w)
             s == Head(job[w].todo)
         IN  /\ u \in Children /\ AbsUsage[u][s] = NoRow
             /\ usage = [AbsUsage EXCEPT ![u][s] = job[w].row]
             /\ AbsTasks = tasks
<1> DEFINE u == User(w)
           s == Head(job[w].todo)
<1>1. TypeInv /\ Alone /\ usage \in [Children -> [Sessions -> UsageSession \cup {NoRow}]]
  BY SoundNow DEF ClientInv, TablesTyped
<1>2. usage[u][s] = job[w].row /\ u \in Children /\ s \in Sessions
  BY <1>1, HeadRecorded DEF Settling
<1>3. AbsTasks = tasks /\ AbsUsage = [usage EXCEPT ![u][s] = NoRow]
  BY <1>1, InHandler DEF HalfSteps
<1> HIDE DEF u, s
<1>4. AbsUsage[u][s] = NoRow
  BY <1>1, <1>2, <1>3
<1>5. usage = [AbsUsage EXCEPT ![u][s] = job[w].row]
  BY <1>1, <1>2, <1>3
<1> QED
  BY <1>2, <1>3, <1>4, <1>5 DEF u, s

(* A rejected session ends with the commit of its row.                     *)
LEMMA CommitSessionShown ==
  ASSUME ClientInv, Fits, NEW w \in Workers, Handle(w), CommitSession(w)
  PROVE  Serial!Next \/ UNCHANGED Serial!vars
<1> DEFINE u == User(w)
           s == Head(job[w].todo)
<1>1. job[w].step = "commit_session" /\ UNCHANGED tables
  BY DEF CommitSession, Commit
<1>2. Op(w) = "usage"
  BY <1>1, Handling, AtStep DEF Active
<1>3. CASE job[w].row.minutes_covered > 0
  BY <1>3, ReadsHidden DEF CommitSession
<1>4. CASE ~(job[w].row.minutes_covered > 0)
  <2>1. NextSession(w)
    BY <1>4 DEF CommitSession
  <2>2. /\ AbsBatch # <<>> /\ Head(AbsBatch)[1] = u /\ Head(AbsBatch)[2] = s
        /\ Serial!NextSession(u)
        /\ AbsTasks' = tasks /\ AbsUsage' = usage /\ AbsLedger' = ledger
    BY <1>1, <1>2, <2>1, NextSessionShown
  <2>3. /\ AbsUsage[u][s] = NoRow /\ usage = [AbsUsage EXCEPT ![u][s] = job[w].row]
        /\ AbsTasks = tasks /\ AbsLedger = ledger
    BY <1>1, <1>2, Handling, RowShown, InHandler
  <2>4. job[w].row = CoverSession(s, GetBalance(ledger[u]))
    BY <1>1, <1>2, Handling, SoundNow DEF SessionFits
  <2> HIDE DEF u, s
  <2>5. Serial!ProcessSession
    BY <1>4, <2>2, <2>3, <2>4, SameRows, SameLedger, SameCover
       DEF Serial!ProcessSession, Serial!Recorded
  <2> QED
    BY <2>5 DEF Serial!Next
<1> QED
  BY <1>3, <1>4

(* A processed one with the commit of its debit.                           *)
LEMMA DebitShown ==
  ASSUME ClientInv, Fits, NEW w \in Workers, Handle(w), CommitEntry(w), Op(w) = "usage"
  PROVE  Serial!Next
<1> DEFINE u == User(w)
           s == Head(job[w].todo)
<1>1. job[w].step = "commit_entry" /\ UNCHANGED tables /\ NextSession(w)
  BY DEF CommitEntry, Commit
<1>2. /\ AbsBatch # <<>> /\ Head(AbsBatch)[1] = u /\ Head(AbsBatch)[2] = s
      /\ Serial!NextSession(u)
      /\ AbsTasks' = tasks /\ AbsUsage' = usage /\ AbsLedger' = ledger
  BY <1>1, NextSessionShown
<1>3. /\ AbsUsage[u][s] = NoRow /\ usage = [AbsUsage EXCEPT ![u][s] = job[w].row]
      /\ AbsTasks = tasks
  BY <1>1, Handling, RowShown
<1>4. ChildOf(w) = u /\ EntryOf(w) = NewEntry("debit", job[w].row.minutes_covered, s, job[w].read)
  BY DEF ChildOf, EntryOf, TaskOps
<1>5. /\ job[w].read = GetBalance(AbsLedger[u])
      /\ ledger = [AbsLedger EXCEPT ![u] = Append(@, EntryOf(w))]
  BY <1>1, <1>4, Handling, EntryShown
<1>6. job[w].row = CoverSession(s, job[w].read)
  BY <1>1, Handling, SoundNow DEF SessionFits
<1>7. job[w].row.minutes_covered > 0
  BY <1>1, Handling, AtStep DEF Active, BatchFits, Settling, Op
<1> HIDE DEF u, s
<1>8. Serial!AppendLedgerEntry(u, "debit", job[w].row.minutes_covered, s)
  BY <1>2, <1>4, <1>5, SameLedger DEF Serial!AppendLedgerEntry
<1>9. Serial!CoverSession(s, Serial!GetBalance(AbsLedger[u])) = job[w].row
  BY <1>5, <1>6, SameLedger, SameCover
<1>10. Serial!ProcessSession
  BY <1>2, <1>3, <1>7, <1>8, <1>9, SameRows DEF Serial!ProcessSession, Serial!Recorded
<1> QED
  BY <1>10 DEF Serial!Next

(* An entry's commit is RewardBank's approval, undo or session.            *)
LEMMA CommitEntryShown ==
  ASSUME ClientInv, Fits, NEW w \in Workers, Handle(w), CommitEntry(w)
  PROVE  Serial!Next
<1>1. job[w].step = "commit_entry"
  BY DEF CommitEntry, Commit
<1>2. Op(w) \in {"approve", "undo", "usage"}
  BY <1>1, Handling, AtStep DEF Active
<1> QED
  BY <1>2, CreditShown, DebitShown

-----------------------------------------------------------------------------
(***************************************************************************)
(* The requests that only look.                                            *)
(***************************************************************************)
(* What a request may be, answered or not.                                 *)
LEMMA FormOf ==
  ASSUME NEW q \in Menu
  PROVE  /\ q.op \in {"create", "usage", "balance", "ledger", "health", "no_header"} \cup TaskOps
         /\ q.user \in Users \cup {Stranger}
         /\ q.op \in {"health", "no_header"} => q.user = Stranger
         /\ q.op = "create" => q.child \in Users \cup {Stranger} /\ q.reward \in Rewards
         /\ q.op \in TaskOps => q.task \in TaskIds
         /\ q.op = "usage" => q.sessions \in Batches /\ q.sessions \in Seq(Sessions)
         /\ q.op \in {"balance", "ledger"} => q.child \in Users \cup {Stranger}
<1>1. q \in RequestForms
  BY MenuAssumption
<1>2. CASE q \in [op : {"create"}, user : Users \cup {Stranger},
                  child : Users \cup {Stranger}, reward : Int]
  BY <1>2, MenuValuesAssumption DEF TaskOps
<1>3. CASE q \in [op : TaskOps, user : Users \cup {Stranger}, task : TaskIds]
  BY <1>3 DEF TaskOps
<1>4. CASE q \in [op : {"usage"}, user : Users \cup {Stranger}, sessions : Seq(Sessions)]
  BY <1>4, MenuValuesAssumption DEF TaskOps
<1>5. CASE q \in [op : {"balance", "ledger"}, user : Users \cup {Stranger},
                  child : Users \cup {Stranger}]
  BY <1>5 DEF TaskOps
<1>6. CASE q \in [op : {"health", "no_header"}, user : {Stranger}]
  BY <1>6 DEF TaskOps
<1> QED
  BY <1>1, <1>2, <1>3, <1>4, <1>5, <1>6 DEF RequestForms

(* A parent asks for a child that is not there or another family's.        *)
LEMMA CheckAccessShown ==
  ASSUME ClientInv, Fits, NEW w \in Workers, Handle(w), CheckAccess(w)
  PROVE  Serial!Next \/ UNCHANGED Serial!vars
<1> DEFINE q == job[w].req
           code == BalanceViewCode(q.user, q.child)
<1>1. UNCHANGED tables /\ job[w].step = "check_access"
  BY DEF CheckAccess, Fetch
<1>2. CASE code = 200
  <2>1. Goto(w, "history") \/ Goto(w, "view")
    BY <1>2 DEF CheckAccess, User
  <2> QED
    BY <2>1, ReadsHidden
<1>3. CASE code # 200
  <2>1. Answer(w, code)
    BY <1>3 DEF CheckAccess, User
  <2>2. code \in {403, 404}
    BY <1>3, CodesType
  <2>3. Op(w) \in {"balance", "ledger"} /\ Admitted(job[w])
    BY <1>1, Handling, AtStep DEF Active
  <2>4. /\ q \in Menu /\ q.user \in Users /\ q.child \in Users \cup {Stranger}
        /\ q.op = "ledger" => RoleOf[q.user] = "parent"
    BY <2>3, AdmittedForm, FormOf DEF Admitted, Op
  <2>5. Serial!Refuse(Op(w), q.user, code)
    <3> HIDE DEF code
    <3> QED
      BY <1>1, <2>1, <2>2, <2>3, RefusalShown DEF HalfSteps, Codes, User
  <2>6. CASE q.op = "balance"
    <3>1. Serial!Refuse("balance", q.user, Serial!BalanceViewCode(q.user, q.child))
      BY <2>5, <2>6, SameViewCodes DEF Op
    <3>2. Serial!Refusal(q.user)
      BY <2>4, <3>1 DEF Serial!Refusal, Serial!Anyone
    <3> QED
      BY <2>4, <3>2 DEF Serial!Next, Serial!Request
  <2>7. CASE q.op = "ledger"
    <3>1. LedgerViewCode(q.user, q.child) = code
      BY <2>4, <2>7 DEF LedgerViewCode
    <3>2. Serial!Refuse("ledger", q.user, Serial!LedgerViewCode(q.user, q.child))
      BY <2>5, <2>7, <3>1, SameViewCodes DEF Op
    <3>3. Serial!Refusal(q.user)
      BY <2>4, <3>2 DEF Serial!Refusal, Serial!Anyone
    <3> QED
      BY <2>4, <3>3 DEF Serial!Next, Serial!Request
  <2> QED
    BY <2>3, <2>6, <2>7 DEF Op
<1> QED
  BY <1>2, <1>3

(* The balance is shown of a child that the user may see.                  *)
LEMMA MaySee ==
  ASSUME NEW user \in Users, NEW child, BalanceViewCode(user, child) = 200
  PROVE  child \in Children
BY UsersAssumption DEF BalanceViewCode, Children

(* GET /children/{child_id}/balance shows what the ledger ends with.       *)
LEMMA ViewShown ==
  ASSUME ClientInv, Fits, NEW w \in Workers, Handle(w), ViewBalance(w)
  PROVE  Serial!Next
<1> DEFINE q == job[w].req
<1>1. job[w].step = "view" /\ UNCHANGED tables /\ Answer(w, 200)
  BY DEF ViewBalance, Fetch
<1>2. Op(w) = "balance" /\ Admitted(job[w])
  BY <1>1, Handling, AtStep DEF Active
<1>3. /\ q.user \in Users /\ q.child \in Children
      /\ BalanceViewCode(q.user, q.child) = 200
  <2>1. q \in Menu /\ DoorCode(q) = 200 /\ q.op = "balance"
    BY <1>2 DEF Admitted, Op
  <2>2. q.user \in Users
    BY <2>1, AdmittedForm
  <2>3. BalanceViewCode(q.user, q.child) = 200
    BY <1>1, <2>1, Handling, AtStep DEF Active, TaskFound
  <2> QED
    BY <2>2, <2>3, MaySee
<1>4. AbsTasks = tasks /\ AbsUsage = usage /\ AbsLedger = ledger /\ AbsBatch = <<>>
  <2>1. AbsTasks = tasks /\ AbsUsage = usage /\ AbsLedger = ledger
    BY <1>1, TablesShown DEF HalfSteps
  <2>2. AbsBatch = <<>>
    BY <1>2, Handling, NoBatchLeft
  <2> QED
    BY <2>1, <2>2
<1>5. Body(w) = GetBalance(ledger[q.child])
  BY <1>2 DEF Body, ChildOf, TaskOps
<1>6. /\ AbsTasks' = tasks /\ AbsUsage' = usage /\ AbsLedger' = ledger /\ AbsBatch' = <<>>
      /\ reply' = [op |-> "balance", user |-> q.user, code |-> 200,
                   balance |-> GetBalance(ledger[q.child]), invariant_holds |-> TRUE]
  BY <1>1, <1>2, <1>5, AnswerShown DEF Codes, User
<1>7. Serial!ViewBalance(q.user, q.child)
  BY <1>3, <1>4, <1>6, SameLedger, SameViewCodes
     DEF Serial!ViewBalance, Serial!Idle, Serial!Report, Serial!tables
<1> QED
  BY <1>3, <1>7 DEF Serial!Next, Serial!Request, Serial!Anyone, Children

(* The balance read before the sum is the one that RewardBank audits.      *)
LEMMA AuditShown ==
  ASSUME ClientInv, Fits, NEW w \in Workers, Handle(w), Audit(w)
  PROVE  Serial!Next
<1> DEFINE q == job[w].req
           holds == GetBalance(ledger[q.child]) = ComputeBalance(ledger[q.child])
<1>1. job[w].step = "sum" /\ UNCHANGED tables
  BY DEF Audit, Fetch
<1>2. Op(w) = "ledger" /\ Admitted(job[w]) /\ job[w].read = GetBalance(ledger[ChildOf(w)])
  BY <1>1, Handling, AtStep, SoundNow DEF Active, BalanceFits
<1>3. ChildOf(w) = q.child /\ Body(w) = job[w].read
  BY <1>2 DEF Body, ChildOf, TaskOps
<1>4. job'[w].step = "idle" /\ job'[w].code = 200 /\ job'[w].holds = holds
  <2>1. job \in [Workers -> Job]
    BY Handling DEF TypeInv, TypeOK
  <2>2. job'[w] = [Answered(q, 200) EXCEPT
                     !.holds = (job[w].read = ComputeBalance(ledger[ChildOf(w)]))]
    BY <2>1 DEF Audit
  <2> QED
    BY <1>2, <1>3, <2>2 DEF Answered
<1>5. /\ q.user \in Users /\ q.child \in Children
      /\ LedgerViewCode(q.user, q.child) = 200
  <2>1. q \in Menu /\ DoorCode(q) = 200 /\ q.op = "ledger"
    BY <1>2 DEF Admitted, Op
  <2>2. q.user \in Users /\ RoleOf[q.user] = "parent"
    BY <2>1, AdmittedForm
  <2>3. BalanceViewCode(q.user, q.child) = 200
    BY <1>1, <2>1, Handling, AtStep DEF Active, TaskFound
  <2> QED
    BY <2>2, <2>3, MaySee DEF LedgerViewCode
<1>6. AbsTasks = tasks /\ AbsUsage = usage /\ AbsLedger = ledger /\ AbsBatch = <<>>
  <2>1. AbsTasks = tasks /\ AbsUsage = usage /\ AbsLedger = ledger
    BY <1>1, TablesShown DEF HalfSteps
  <2>2. AbsBatch = <<>>
    BY <1>2, Handling, NoBatchLeft
  <2> QED
    BY <2>1, <2>2
<1>7. AbsTasks' = tasks /\ AbsUsage' = usage /\ AbsLedger' = ledger /\ AbsBatch' = <<>>
  BY <1>1, <1>4, Handling, AtRestAfter DEF tables
<1> HIDE DEF holds
<1>8. reply' = [op |-> "ledger", user |-> q.user, code |-> 200,
                balance |-> GetBalance(ledger[q.child]), invariant_holds |-> holds]
  BY <1>2, <1>3, <1>4, Handling DEF Told, Op
<1>9. Serial!ViewLedger(q.user, q.child)
  BY <1>5, <1>6, <1>7, <1>8, SameLedger, SameViewCodes
     DEF Serial!ViewLedger, Serial!Idle, Serial!Report, Serial!tables, holds
<1> QED
  BY <1>5, <1>9 DEF Serial!Next, Serial!Request, Serial!Anyone, Children

(* The health check of both answers 200 and looks at nothing.              *)
LEMMA HealthShown ==
  ASSUME ClientInv, Fits, NEW w \in Workers, Handle(w), Health(w)
  PROVE  Serial!Next
<1>1. job[w].step = "respond" /\ UNCHANGED tables /\ Answer(w, 200)
  BY DEF Health
<1>2. Op(w) = "health" /\ Admitted(job[w])
  BY <1>1, Handling, AtStep DEF Active
<1>3. User(w) = Stranger
  BY <1>2, MenuAssumption DEF Admitted, Op, User, RequestForms, TaskOps
<1>4. AbsTasks = tasks /\ AbsUsage = usage /\ AbsLedger = ledger /\ AbsBatch = <<>>
  <2>1. AbsTasks = tasks /\ AbsUsage = usage /\ AbsLedger = ledger
    BY <1>1, TablesShown DEF HalfSteps
  <2>2. AbsBatch = <<>>
    BY <1>2, Handling, NoBatchLeft
  <2> QED
    BY <2>1, <2>2
<1>5. Body(w) = 0
  BY <1>2 DEF Body
<1>6. /\ AbsTasks' = tasks /\ AbsUsage' = usage /\ AbsLedger' = ledger /\ AbsBatch' = <<>>
      /\ reply' = [op |-> "health", user |-> Stranger, code |-> 200,
                   balance |-> 0, invariant_holds |-> TRUE]
  BY <1>1, <1>2, <1>3, <1>5, AnswerShown DEF Codes
<1> QED
  BY <1>4, <1>6 DEF Serial!Next, Serial!Health, Serial!Idle, Serial!Answer, Serial!tables

-----------------------------------------------------------------------------
(***************************************************************************)
(* The client's steps.                                                     *)
(***************************************************************************)
(* What is answered before the handler starts is what RewardBank answers.  *)
LEMMA DoorShown ==
  ASSUME NEW q \in Menu, NEW code, code = DoorCode(q), code # 200,
         AbsBatch = <<>>, UNCHANGED <<AbsTasks, AbsUsage, AbsLedger, AbsBatch>>,
         reply' = Told(q, code, 0, TRUE)
  PROVE  Serial!Next
<1>1. q.op # "health"
  BY DEF DoorCode
<1>2. CASE q.user = Stranger
  <2>1. /\ code \in {401, NoHeaderCode} /\ code >= 400
        /\ code = 401 \/ q.op = "no_header"
    BY <1>1, <1>2, HeaderAssumption DEF DoorCode
  <2>2. reply' = [op |-> "none", user |-> Stranger, code |-> code, balance |-> 0,
                  invariant_holds |-> TRUE]
    BY <1>2, <2>1 DEF Told
  <2>3. Serial!Refuse("none", Stranger, code)
    BY <2>1, <2>2 DEF Serial!Refuse, Serial!Idle, Serial!Answer, Serial!tables
  <2> QED
    BY <2>1, <2>3 DEF Serial!Next, Serial!Unauthenticated
<1>3. CASE q.user # Stranger
  <2>1. q.user \in Users
    BY <1>3, FormOf
  <2>2. ASSUME code \in {400, 403, 404, 422, 500}
        PROVE  Serial!Refuse(q.op, q.user, code)
    <3>1. code >= 400 /\ code # 401 /\ q.op # "no_header"
      BY <1>3, <2>2, FormOf
    <3>2. reply' = [op |-> q.op, user |-> q.user, code |-> code,
                    balance |-> 0, invariant_holds |-> TRUE]
      BY <3>1 DEF Told
    <3> QED
      BY <3>1, <3>2 DEF Serial!Refuse, Serial!Idle, Serial!Answer, Serial!tables
  <2>3. CASE q.op = "create"
    <3>1. code = CreateCode(q.user, q.child, q.reward) /\ code \in {403, 422}
      BY <1>1, <1>3, <2>3 DEF DoorCode, CreateCode, TaskOps
    <3>2. Serial!Refuse("create", q.user, Serial!CreateCode(q.user, q.child, q.reward))
      BY <2>2, <2>3, <3>1, SameTaskCodes
    <3>3. Serial!Refusal(q.user)
      BY <2>3, <3>2, FormOf DEF Serial!Refusal, Serial!Anyone
    <3> QED
      BY <2>1, <3>3 DEF Serial!Next, Serial!Request
  <2>4. CASE q.op \in TaskOps
    <3>1. code = TaskCode(q.op, q.user, AbsTasks[q.task]) /\ code = 403
      BY <1>1, <1>3, <2>4 DEF DoorCode, TaskCode, AccessCode, TaskOps
    <3>2. Serial!Refuse(q.op, q.user, Serial!TaskCode(q.op, q.user, AbsTasks[q.task]))
      <4>1. Serial!TaskCode(q.op, q.user, AbsTasks[q.task]) = code
        BY <3>1, SameTaskCodes
      <4>2. Serial!Refuse(q.op, q.user, code)
        BY <2>2, <3>1
      <4> QED
        BY <4>1, <4>2
    <3>3. Serial!Refusal(q.user)
      BY <2>4, <3>2, FormOf, SameRows DEF Serial!Refusal
    <3> QED
      BY <2>1, <3>3 DEF Serial!Next, Serial!Request
  <2>5. CASE q.op = "usage"
    <3>1. code = UsageCode(q.user, q.sessions)
      BY <1>1, <1>3, <2>5 DEF DoorCode, TaskOps
    <3>2. code \in {400, 403, 500}
      BY <3>1 DEF UsageCode
    <3>3. Serial!Refuse("usage", q.user, Serial!UsageCode(q.user, q.sessions))
      BY <2>2, <2>5, <3>1, <3>2, SameViewCodes
    <3>4. Serial!Refusal(q.user)
      BY <2>5, <3>3, FormOf DEF Serial!Refusal
    <3> QED
      BY <2>1, <3>4 DEF Serial!Next, Serial!Request
  <2>6. CASE q.op = "balance"
    <3>1. code = BalanceViewCode(q.user, q.child)
      BY <1>3, <2>6 DEF DoorCode, TaskOps
    <3>2. code \in {403, 404}
      BY <3>1 DEF BalanceViewCode
    <3>3. Serial!Refuse("balance", q.user, Serial!BalanceViewCode(q.user, q.child))
      BY <2>2, <2>6, <3>1, <3>2, SameViewCodes
    <3>4. Serial!Refusal(q.user)
      BY <2>6, <3>3, FormOf DEF Serial!Refusal, Serial!Anyone
    <3> QED
      BY <2>1, <3>4 DEF Serial!Next, Serial!Request
  <2>7. CASE q.op = "ledger"
    <3>1. code = LedgerViewCode(q.user, q.child)
      BY <1>3, <2>7 DEF DoorCode, TaskOps, LedgerViewCode
    <3>2. code \in {403, 404}
      BY <3>1 DEF LedgerViewCode, BalanceViewCode
    <3>3. Serial!Refuse("ledger", q.user, Serial!LedgerViewCode(q.user, q.child))
      BY <2>2, <2>7, <3>1, <3>2, SameViewCodes
    <3>4. Serial!Refusal(q.user)
      BY <2>7, <3>3, FormOf DEF Serial!Refusal, Serial!Anyone
    <3> QED
      BY <2>1, <3>4 DEF Serial!Next, Serial!Request
  <2> QED
    BY <1>1, <1>3, <2>3, <2>4, <2>5, <2>6, <2>7, FormOf
<1> QED
  BY <1>2, <1>3

(* A request arrives: it is answered at once, a batch is begun, or nothing *)
(* happens yet.                                                            *)
LEMMA SendShown ==
  ASSUME ClientInv, LocksFollow, Fits, NEW w \in Workers, Send(w)
  PROVE  Serial!Next \/ UNCHANGED Serial!vars
<1>1. PICK q \in Menu :
        /\ Accept(w, q)
        /\ reply' = IF job'[w].step # "idle" THEN reply ELSE Told(q, job'[w].code, 0, TRUE)
  BY SendsWhat
<1> DEFINE code == DoorCode(q)
           j == IF code = 200 THEN Started(q) ELSE Answered(q, code)
<1>2. job'[w] = j /\ UNCHANGED tables
  <2>1. ~locks.pending /\ job \in [Workers -> Job]
    BY DEF ClientInv, LocksFollow, TypeInv, TypeOK
  <2> QED
    BY <1>1, <2>1 DEF Accept
<1>3. AbsTasks = tasks /\ AbsUsage = usage /\ AbsLedger = ledger /\ AbsBatch = <<>>
  BY AtRest DEF Send
<1>4. CASE code # 200
  <2>1. job'[w].step = "idle" /\ job'[w].code = code
    BY <1>2, <1>4 DEF Answered
  <2>2. Quiet'
    <3>1. Moves(w) /\ TypeInv /\ \A v \in Workers : ~Active(v)
      BY <1>1 DEF Moves, ClientInv, Send, Quiet, Active
    <3>2. \A v \in Workers \ {w} : job'[v] = job[v]
      BY <3>1, AloneStep
    <3> QED
      BY <2>1, <3>1, <3>2 DEF Quiet, Active
  <2>3. UNCHANGED <<AbsTasks, AbsUsage, AbsLedger, AbsBatch>>
    BY <1>2, <1>3, <2>2, AtRestAfter DEF tables
  <2> QED
    BY <1>1, <1>3, <1>4, <2>1, <2>3, DoorShown
<1>5. CASE code = 200
  <2>1. /\ job'[w].step = FirstStep(q) /\ job'[w].req = q
        /\ job'[w].todo = IF q.op = "usage" THEN q.sessions ELSE <<>>
    BY <1>2, <1>5 DEF Started, Answered
  <2>2. FirstStep(q) \notin HalfSteps \cup {"idle"}
    BY <1>5, AdmittedForm DEF FirstStep, TaskOps, HalfSteps
  <2>3. Alone' /\ reply' = reply
    BY <1>1, <2>1, <2>2, SendKeeps DEF ClientInv
  <2>4. /\ AbsTasks' = tasks' /\ AbsUsage' = usage' /\ AbsLedger' = ledger'
        /\ AbsBatch' = [i \in DOMAIN job'[w].todo |-> <<User(w)', job'[w].todo[i]>>]
    BY <2>1, <2>2, <2>3, InHandlerAfter
  <2>5. UNCHANGED <<AbsTasks, AbsUsage, AbsLedger>>
    BY <1>2, <1>3, <2>4 DEF tables
  <2>6. CASE q.op = "usage"
    <3>1. AbsBatch' = [i \in DOMAIN q.sessions |-> <<q.user, q.sessions[i]>>]
      BY <2>1, <2>4, <2>6 DEF User
    <3>2. UsageCode(q.user, q.sessions) = 200 /\ q.user \in Users
      <4>1. q.user \in Children
        BY <1>5, <2>6, AdmittedForm
      <4>2. q.user \in Users /\ q.user # Stranger
        BY <4>1, UsersAssumption DEF Children
      <4> QED
        BY <1>5, <2>6, <4>2 DEF DoorCode, TaskOps
    <3>3. Serial!ReportUsage(q.user, q.sessions)
      BY <1>3, <2>3, <2>5, <3>1, <3>2, SameViewCodes
         DEF Serial!ReportUsage, Serial!Idle, Serial!tables
    <3> QED
      BY <2>6, <3>2, <3>3, FormOf DEF Serial!Next, Serial!Request
  <2>7. CASE q.op # "usage"
    <3>1. AbsBatch' = <<>>
      BY <2>1, <2>4, <2>7, NoBatch
    <3> QED
      BY <1>3, <2>3, <2>5, <3>1 DEF Serial!vars
  <2> QED
    BY <2>6, <2>7
<1> QED
  BY <1>4, <1>5

(* The server's steps, one by one.                                         *)
LEMMA HandleShown ==
  ASSUME ClientInv, LocksFollow, Fits, NEW w \in Workers, Handle(w)
  PROVE  Serial!Next \/ UNCHANGED Serial!vars
<1>1. Step(w)
  BY DEF Handle
<1>2. ~LockedOut(w) /\ ~Overflow(w) /\ ~KeyTaken(w)
  BY NothingFails DEF ClientInv
<1>3. Execute(w) \/ Cover(w) \/ ReadBalance(w) \/ ReadHistory(w) \/ ReadLast(w)
        => UNCHANGED Serial!vars
  BY ReadsHidden
<1>4. InsertTask(w) \/ UpdateTask(w) \/ InsertSession(w) \/ InsertEntry(w)
        => UNCHANGED Serial!vars
  BY InsertTaskHidden, UpdateTaskHidden, InsertSessionHidden, InsertEntryHidden
<1>5. ASSUME \/ CheckChild(w) \/ GetTask(w) \/ CheckFamily(w) \/ Recheck(w)
             \/ CheckAccess(w) \/ FindExisting(w)
      PROVE  Serial!Next \/ UNCHANGED Serial!vars
  BY <1>5, CheckChildShown, GetTaskShown, CheckAccessShown, FindExistingShown
<1>6. CommitTask(w) \/ CommitSession(w) \/ CommitEntry(w)
        => Serial!Next \/ UNCHANGED Serial!vars
  BY CommitTaskShown, CommitSessionShown, CommitEntryShown
<1>7. ViewBalance(w) \/ Audit(w) \/ Health(w) => Serial!Next
  BY ViewShown, AuditShown, HealthShown
<1> QED
  BY <1>1, <1>2, <1>3, <1>4, <1>5, <1>6, <1>7 DEF Step

(* The tables RewardBank starts with are those of init_db.                 *)
LEMMA BeginsAsNew ==
  /\ NewDatabase.tasks = [t \in TaskIds |-> Serial!NoTask]
  /\ NewDatabase.ledger = [c \in Serial!Children |-> <<>>]
  /\ NewDatabase.usage = [c \in Serial!Children |-> [s \in Sessions |-> Serial!NoRow]]
BY SameRows DEF NewDatabase

(* A reset begins RewardBank anew.                                         *)
LEMMA ResetShown ==
  ASSUME ClientInv, ResetDatabase
  PROVE  Serial!Init'
<1>1. Quiet'
  BY DEF ResetDatabase, Quiet
<1>2. /\ AbsTasks' = NewDatabase.tasks /\ AbsUsage' = NewDatabase.usage
      /\ AbsLedger' = NewDatabase.ledger /\ AbsBatch' = <<>> /\ reply' = NoReply
  BY <1>1, AtRestAfter DEF ResetDatabase
<1> QED
  BY <1>2, BeginsAsNew DEF Serial!Init, NoReply

(* The new database is RewardBank's initial state.                         *)
LEMMA BeginsShown == ClientInit => Serial!Init
<1> SUFFICES ASSUME ClientInit PROVE Serial!Init
  OBVIOUS
<1>1. Quiet
  BY DEF ClientInit, Init, Quiet, Answered
<1>2. /\ tasks = NewDatabase.tasks /\ usage = NewDatabase.usage /\ ledger = NewDatabase.ledger
  BY NewDatabaseAssumption DEF ClientInit, Init
<1> QED
  BY <1>1, <1>2, AtRest, BeginsAsNew DEF Serial!Init, NoReply, ClientInit

(* Every step of the client and the server is one of RewardBank's, its     *)
(* beginning anew, or none that it sees.                                   *)
LEMMA StepShown ==
  ASSUME ClientInv, LocksFollow, Fits, [ClientNext]_<<vars, clientVars>>
  PROVE  [Serial!Next \/ Serial!Init']_(Serial!vars)
<1>1. CASE ResetDatabase
  BY <1>1, ResetShown
<1>2. CASE \E w \in Workers : Send(w) \/ Handle(w)
  BY <1>2, SendShown, HandleShown
<1>3. CASE \/ \E w \in Workers : Expire(w) /\ UNCHANGED clientVars
           \/ UNCHANGED <<vars, clientVars>>
  <2>1. UNCHANGED <<tasks, ledger, usage, job, made, reply>>
    BY <1>3 DEF Expire, tables, vars, clientVars
  <2>2. UNCHANGED <<AbsTasks, AbsLedger, AbsUsage, AbsBatch>>
    BY <2>1 DEF AbsTasks, AbsLedger, AbsUsage, AbsBatch, Half, Quiet, Current, Op, User, ChildOf,
                TaskOf
  <2> QED
    BY <2>1, <2>2 DEF Serial!vars
<1> QED
  BY <1>1, <1>2, <1>3 DEF ClientNext

(* For a client that waits for each answer, the threaded server with its   *)
(* statements, locks and commits does what RewardBank does, and answers    *)
(* what RewardBank answers.                                                *)
THEOREM ServerImplements == ClientSpec /\ []Fits => Implements
<1>1. ClientInv /\ [ClientNext]_<<vars, clientVars>> => ClientInv'
  BY ClientStep
<1>2. ClientInv /\ LocksFollow /\ Fits /\ [ClientNext]_<<vars, clientVars>> => LocksFollow'
  BY FollowStep
<1>3. ClientInv /\ LocksFollow /\ Fits /\ [ClientNext]_<<vars, clientVars>>
        => [Serial!Next \/ Serial!Init']_(Serial!vars)
  BY StepShown
<1> QED
  BY ClientBegins, BeginsShown, <1>1, <1>2, <1>3, PTL DEF ClientSpec, Implements

-----------------------------------------------------------------------------
(***************************************************************************)
(* The books of the threaded server.  RewardBank's invariants are proved   *)
(* in BalanceProofs and RewardBankProofs; what the server implements has   *)
(* them, so for a client that waits the server has them, between requests  *)
(* and, less what a handler has not completed, within them.                *)
(***************************************************************************)
Bank == INSTANCE BalanceProofs
        WITH tasks <- AbsTasks, ledger <- AbsLedger, usage <- AbsUsage, batch <- AbsBatch

(* Bank and Serial are one specification: the rows and the calculations,   *)
LEMMA BankData ==
  /\ Bank!NoTask = Serial!NoTask /\ Bank!NoRow = Serial!NoRow
  /\ Bank!TaskOps = Serial!TaskOps /\ Bank!Children = Serial!Children
  /\ \A e : Bank!GetBalance(e) = Serial!GetBalance(e)
  /\ \A e : Bank!ComputeBalance(e) = Serial!ComputeBalance(e)
  /\ \A entry_type, amount, source, b :
       Bank!NewEntry(entry_type, amount, source, b) = Serial!NewEntry(entry_type, amount, source, b)
  /\ \A s, b : Bank!CoverSession(s, b) = Serial!CoverSession(s, b)
<1>1. /\ Bank!NoTask = Serial!NoTask /\ Bank!NoRow = Serial!NoRow
      /\ Bank!TaskOps = Serial!TaskOps /\ Bank!Children = Serial!Children
  BY DEF Serial!NoTask, Bank!NoTask, Serial!NoRow, Bank!NoRow, Serial!TaskOps, Bank!TaskOps,
         Serial!Children, Bank!Children
<1>2. \A e : Bank!GetBalance(e) = Serial!GetBalance(e)
  BY DEF Serial!GetBalance, Bank!GetBalance
<1>3. \A e : Bank!ComputeBalance(e) = Serial!ComputeBalance(e)
  BY DEF Serial!ComputeBalance, Bank!ComputeBalance, Serial!FoldLeft, Bank!FoldLeft,
         Serial!SignedAmount, Bank!SignedAmount, Serial!MapThenFoldSet, Bank!MapThenFoldSet,
         Serial!Max, Bank!Max
<1>4. \A entry_type, amount, source, b :
        Bank!NewEntry(entry_type, amount, source, b) = Serial!NewEntry(entry_type, amount, source, b)
  BY DEF Serial!NewEntry, Bank!NewEntry, Serial!SignedAmount, Bank!SignedAmount
<1>5. \A s, b : Bank!CoverSession(s, b) = Serial!CoverSession(s, b)
  BY DEF Serial!CoverSession, Bank!CoverSession, Serial!RejectedRow, Bank!RejectedRow,
         Serial!ProcessedRow, Bank!ProcessedRow, Serial!Lesser, Bank!Lesser,
         Serial!DurationMinutes, Bank!DurationMinutes, Serial!ExhaustedAt, Bank!ExhaustedAt,
         Serial!NoTime, Bank!NoTime
<1> QED
  BY <1>1, <1>2, <1>3, <1>4, <1>5

(* the codes,                                                              *)
LEMMA BankCodes ==
  /\ \A user, child, m : Bank!CreateCode(user, child, m) = Serial!CreateCode(user, child, m)
  /\ \A op, user, task : Bank!TaskCode(op, user, task) = Serial!TaskCode(op, user, task)
  /\ \A op : Bank!NewStatus(op) = Serial!NewStatus(op)
  /\ \A user, b : Bank!UsageCode(user, b) = Serial!UsageCode(user, b)
  /\ \A user, child : Bank!BalanceViewCode(user, child) = Serial!BalanceViewCode(user, child)
  /\ \A user, child : Bank!LedgerViewCode(user, child) = Serial!LedgerViewCode(user, child)
<1>1. \A user, child, m : Bank!CreateCode(user, child, m) = Serial!CreateCode(user, child, m)
  BY BankData DEF Serial!CreateCode, Bank!CreateCode
<1>2. \A op, user, task : Bank!TaskCode(op, user, task) = Serial!TaskCode(op, user, task)
  BY DEF Serial!TaskCode, Bank!TaskCode, Serial!AccessCode, Bank!AccessCode, Serial!ActorOf,
         Bank!ActorOf, Serial!MayAct, Bank!MayAct, Serial!AllowedFrom, Bank!AllowedFrom,
         Serial!NoTask, Bank!NoTask
<1>3. \A op : Bank!NewStatus(op) = Serial!NewStatus(op)
  BY DEF Serial!NewStatus, Bank!NewStatus
<1>4. \A user, b : Bank!UsageCode(user, b) = Serial!UsageCode(user, b)
  BY DEF Serial!UsageCode, Bank!UsageCode, Serial!SessionCode, Bank!SessionCode,
         Serial!EndsAfterStart, Bank!EndsAfterStart
<1>5. \A user, child : Bank!BalanceViewCode(user, child) = Serial!BalanceViewCode(user, child)
  BY BankData DEF Serial!BalanceViewCode, Bank!BalanceViewCode
<1>6. \A user, child : Bank!LedgerViewCode(user, child) = Serial!LedgerViewCode(user, child)
  BY <1>5 DEF Serial!LedgerViewCode, Bank!LedgerViewCode
<1> QED
  BY <1>1, <1>2, <1>3, <1>4, <1>5, <1>6

(* the task requests,                                                      *)
LEMMA BankTaskSteps ==
  /\ \A user, child, m, t : Serial!CreateTask(user, child, m, t) => Bank!CreateTask(user, child, m, t)
  /\ \A user, t : Serial!MarkTaskDone(user, t) => Bank!MarkTaskDone(user, t)
  /\ \A user, t : Serial!ApproveTask(user, t) => Bank!ApproveTask(user, t)
  /\ \A user, t : Serial!RejectTask(user, t) => Bank!RejectTask(user, t)
  /\ \A user, t : Serial!UndoApproval(user, t) => Bank!UndoApproval(user, t)
BY BankData, BankCodes
   DEF Serial!CreateTask, Bank!CreateTask, Serial!MarkTaskDone, Bank!MarkTaskDone,
       Serial!ApproveTask, Bank!ApproveTask, Serial!RejectTask, Bank!RejectTask,
       Serial!UndoApproval, Bank!UndoApproval, Serial!Idle, Bank!Idle, Serial!Answer,
       Bank!Answer, Serial!Report, Bank!Report, Serial!AppendLedgerEntry,
       Bank!AppendLedgerEntry, Serial!SetStatus, Bank!SetStatus

(* the reports,                                                            *)
LEMMA BankUsageSteps ==
  /\ \A user, b : Serial!ReportUsage(user, b) => Bank!ReportUsage(user, b)
  /\ Serial!DuplicateSession => Bank!DuplicateSession
  /\ Serial!ProcessSession => Bank!ProcessSession
<1>1. \A user, b : Serial!ReportUsage(user, b) => Bank!ReportUsage(user, b)
  BY BankCodes DEF Serial!ReportUsage, Bank!ReportUsage, Serial!Idle, Bank!Idle,
                   Serial!tables, Bank!tables
<1>2. \A c : Serial!NextSession(c) => Bank!NextSession(c)
  BY DEF Serial!NextSession, Bank!NextSession, Serial!Answer, Bank!Answer
<1>3. \A c, s : Serial!Recorded(c, s) <=> Bank!Recorded(c, s)
  BY BankData DEF Serial!Recorded, Bank!Recorded
<1>4. Serial!DuplicateSession => Bank!DuplicateSession
  BY <1>2, <1>3 DEF Serial!DuplicateSession, Bank!DuplicateSession, Serial!tables, Bank!tables
<1>5. Serial!ProcessSession => Bank!ProcessSession
  BY <1>2, <1>3, BankData DEF Serial!ProcessSession, Bank!ProcessSession,
     Serial!AppendLedgerEntry, Bank!AppendLedgerEntry
<1> QED
  BY <1>1, <1>4, <1>5

(* and the rest of the answers.                                            *)
LEMMA BankAnswers ==
  /\ \A user, child : Serial!ViewBalance(user, child) => Bank!ViewBalance(user, child)
  /\ \A user, child : Serial!ViewLedger(user, child) => Bank!ViewLedger(user, child)
  /\ Serial!Health => Bank!Health
  /\ \A user : Serial!Refusal(user) => Bank!Refusal(user)
  /\ Serial!Unauthenticated => Bank!Unauthenticated
<1> USE DEF Serial!Idle, Bank!Idle, Serial!tables, Bank!tables
<1>1. \A op, user, code : Serial!Refuse(op, user, code) => Bank!Refuse(op, user, code)
  BY DEF Serial!Refuse, Bank!Refuse, Serial!Answer, Bank!Answer
<1>2. \A user, child : Serial!ViewBalance(user, child) => Bank!ViewBalance(user, child)
  BY BankData, BankCodes DEF Serial!ViewBalance, Bank!ViewBalance, Serial!Report, Bank!Report
<1>3. \A user, child : Serial!ViewLedger(user, child) => Bank!ViewLedger(user, child)
  BY BankData, BankCodes DEF Serial!ViewLedger, Bank!ViewLedger, Serial!Report, Bank!Report
<1>4. Serial!Health => Bank!Health
  BY DEF Serial!Health, Bank!Health, Serial!Answer, Bank!Answer
<1>5. \A user : Serial!Refusal(user) => Bank!Refusal(user)
  BY <1>1, BankData, BankCodes DEF Serial!Refusal, Bank!Refusal, Serial!Anyone, Bank!Anyone
<1>6. Serial!Unauthenticated => Bank!Unauthenticated
  BY <1>1 DEF Serial!Unauthenticated, Bank!Unauthenticated
<1> QED
  BY <1>2, <1>3, <1>4, <1>5, <1>6

(* A step of the one is a step of the other.                               *)
LEMMA BankStep == [Serial!Next]_(Serial!vars) => [Bank!Next]_(Bank!vars)
<1>1. Serial!Anyone = Bank!Anyone
  BY DEF Serial!Anyone, Bank!Anyone
<1>2. \A user \in Users : Serial!Request(user) => Bank!Request(user)
  BY <1>1, BankTaskSteps, BankUsageSteps, BankAnswers DEF Serial!Request, Bank!Request
<1>3. Serial!Next => Bank!Next
  BY <1>2, BankUsageSteps, BankAnswers DEF Serial!Next, Bank!Next
<1>4. UNCHANGED Serial!vars => UNCHANGED Bank!vars
  BY DEF Serial!vars, Bank!vars
<1> QED
  BY <1>3, <1>4

(* Tasks, sessions, ledger and balance agree, and every audit has held.    *)
BooksBalance ==
  /\ Serial!LedgerProvable
  /\ Serial!ApprovalsAudited
  /\ Serial!SessionsAudited
  /\ Serial!SpendingNeverOverdraws
  /\ Serial!CutOffExact
  /\ Serial!BalanceExplained
  /\ Bank!AuditHolds

(* What is inductive of RewardBank: see the proofs of its theorems.        *)
BankInv == Bank!Books /\ Bank!BalanceInv /\ Bank!LedgerProvable /\ Bank!AuditHolds

(* A new database has it.                                                  *)
LEMMA BankBegins == Serial!Init => BankInv
<1> USE UsersAssumption, HeaderAssumption, InputsAssumption, BatchesAssumption
    DEF Spellings, Bank!Spellings
<1>1. Serial!Init => Bank!Init /\ Bank!AuditHolds
  BY BankData DEF Serial!Init, Bank!Init, Bank!AuditHolds
<1>2. Bank!Init => Bank!Books
  BY Bank!BooksInit
<1>3. Bank!Init => Bank!BalanceInv
  BY Bank!BalanceInit
<1>4. Bank!Init => Bank!LedgerProvable
  BY Bank!ProvableInit
<1> QED
  BY <1>1, <1>2, <1>3, <1>4 DEF BankInv

(* So has the one that a reset makes.                                      *)
LEMMA BankBeginsAnew == Serial!Init' => BankInv'
BY BankBegins, PTL

(* Every step keeps it, as BalanceProofs and RewardBankProofs have shown.  *)
LEMMA BankKept == BankInv /\ [Serial!Next]_(Serial!vars) => BankInv'
<1> USE UsersAssumption, HeaderAssumption, InputsAssumption, BatchesAssumption
    DEF Spellings, Bank!Spellings
<1>1. Bank!Books /\ [Bank!Next]_(Bank!vars) => Bank!Books'
  BY Bank!BooksStep
<1>2. Bank!BalanceInv /\ [Bank!Next]_(Bank!vars) => Bank!BalanceInv'
  BY Bank!BalanceStep
<1>3. Bank!TypeInv /\ Bank!LedgerProvable /\ [Bank!Next]_(Bank!vars) => Bank!LedgerProvable'
  BY Bank!ProvableStep
<1>4. Bank!LedgerProvable /\ Bank!AuditHolds /\ [Bank!Next]_(Bank!vars) => Bank!AuditHolds'
  BY Bank!AuditStep
<1>5. Bank!BalanceInv => Bank!TypeInv
  BY DEF Bank!BalanceInv
<1> QED
  BY <1>1, <1>2, <1>3, <1>4, <1>5, BankStep DEF BankInv

(* It has in it what the reader of the books asks for.                     *)
LEMMA BankBalances == BankInv => BooksBalance
<1> SUFFICES ASSUME BankInv PROVE BooksBalance
  OBVIOUS
<1> USE BankData DEF Serial!Entries, Bank!Entries, Serial!EntriesOf, Bank!EntriesOf
<1>1. /\ Bank!ApprovalsAudited /\ Bank!SessionsAudited
      /\ Bank!SpendingNeverOverdraws /\ Bank!CutOffExact
  BY DEF BankInv, Bank!Books
<1>2. Serial!LedgerProvable
  BY DEF BankInv, Serial!LedgerProvable, Bank!LedgerProvable
<1>3. Serial!ApprovalsAudited
  BY <1>1 DEF Serial!ApprovalsAudited, Bank!ApprovalsAudited
<1>4. Serial!SessionsAudited
  BY <1>1 DEF Serial!SessionsAudited, Bank!SessionsAudited
<1>5. Serial!SpendingNeverOverdraws
  BY <1>1 DEF Serial!SpendingNeverOverdraws, Bank!SpendingNeverOverdraws
<1>6. Serial!CutOffExact
  BY <1>1 DEF Serial!CutOffExact, Bank!CutOffExact, Serial!NoTime, Bank!NoTime,
              Serial!DurationMinutes, Bank!DurationMinutes
<1>7. Bank!BalanceExplained
  <2>1. Bank!BalanceInv => Bank!TypeInv /\ Bank!FiniteTables /\ \A c \in Bank!Children : Bank!Explained(c)
    BY DEF Bank!BalanceInv
  <2> QED
    BY <2>1, Bank!ExplainedIsBalanceExplained, UsersAssumption, HeaderAssumption,
       InputsAssumption, BatchesAssumption DEF BankInv, Spellings, Bank!Spellings
<1>8. Serial!BalanceExplained
  BY <1>7 DEF Serial!BalanceExplained, Bank!BalanceExplained, Serial!MapThenSumSet,
              Bank!MapThenSumSet, Serial!MapThenFoldSet, Bank!MapThenFoldSet, Serial!NoRow,
              Bank!NoRow, Serial!GetBalance, Bank!GetBalance, Serial!Children, Bank!Children
<1> QED
  BY <1>2, <1>3, <1>4, <1>5, <1>6, <1>8 DEF BankInv, BooksBalance

(* For a client that waits for each answer the books of the threaded       *)
(* server balance, and it is never told that they do not.                  *)
THEOREM BooksServed == ClientSpec /\ []Fits => []BooksBalance
<1>1. BankInv /\ [Serial!Next \/ Serial!Init']_(Serial!vars) => BankInv'
  <2>1. [Serial!Next \/ Serial!Init']_(Serial!vars) => Serial!Init' \/ [Serial!Next]_(Serial!vars)
    OBVIOUS
  <2> QED
    BY <2>1, BankBeginsAnew, BankKept
<1> QED
  BY ServerImplements, BankBegins, BankBalances, <1>1, PTL DEF Implements

(* Between two requests these are the tables themselves: the audit that    *)
(* GET /ledger makes of any child's entries succeeds.                      *)
AuditedAtRest == Quiet => \A c \in Children : GetBalance(ledger[c]) = ComputeBalance(ledger[c])

(* No request leaves a ledger behind that the next audit finds wrong.      *)
THEOREM LedgerAuditedAtRest == ClientSpec /\ []Fits => []AuditedAtRest
<1>1. BooksBalance => AuditedAtRest
  <2> SUFFICES ASSUME BooksBalance, Quiet, NEW c \in Children
               PROVE  GetBalance(ledger[c]) = ComputeBalance(ledger[c])
    BY DEF AuditedAtRest
  <2>1. AbsLedger = ledger
    BY AtRest
  <2>2. Serial!GetBalance(AbsLedger[c]) = Serial!ComputeBalance(AbsLedger[c])
    BY SameRows DEF BooksBalance, Serial!LedgerProvable
  <2> QED
    BY <2>1, <2>2, SameLedger
<1> QED
  BY BooksServed, <1>1, PTL
=============================================================================
