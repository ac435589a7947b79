---------------------------- MODULE BalanceProofs ----------------------------
(***************************************************************************)
(* Theorems about the balance: it is the sum of the whole ledger, and what *)
(* the tasks and the sessions say it is.                                   *)
(***************************************************************************)
EXTENDS RewardBankProofs, Sums

(* append_ledger_entry moves the balance by the signed amount, the stored  *)
(* one and the computed one, and no other child's.                         *)
LEMMA BalanceMoves ==
  ASSUME TypeOK, NEW c \in Children, NEW entry_type, NEW amount, NEW source,
         AppendLedgerEntry(c, entry_type, amount, source)
  PROVE  /\ GetBalance(ledger'[c]) = GetBalance(ledger[c]) + SignedAmount(entry_type, amount)
         /\ ComputeBalance(ledger'[c])
              = ComputeBalance(ledger[c]) + SignedAmount(entry_type, amount)
         /\ \A d \in Children : d # c => ledger'[d] = ledger[d]
<1> DEFINE b == GetBalance(ledger[c])
           e == NewEntry(entry_type, amount, source, b)
<1>1. ledger[c] \in Seq(LedgerEntry)
  BY DEF TypeOK
<1>2. /\ e.balance_after = b + SignedAmount(entry_type, amount)
      /\ e.entry_type = entry_type /\ e.amount = amount
  BY DEF NewEntry
<1> HIDE DEF e
<1>3. ledger'[c] = Append(ledger[c], e) /\ \A d \in Children : d # c => ledger'[d] = ledger[d]
  BY DEF AppendLedgerEntry, TypeOK, e
<1>4. GetBalance(Append(ledger[c], e)) = e.balance_after
  <2>1. /\ Append(ledger[c], e) # <<>>
        /\ Append(ledger[c], e)[Len(Append(ledger[c], e))] = e
    BY <1>1
  <2> QED
    BY <2>1 DEF GetBalance
<1>5. ComputeBalance(Append(ledger[c], e))
        = ComputeBalance(ledger[c]) + SignedAmount(e.entry_type, e.amount)
  BY <1>1, BalanceOfAppend
<1> QED
  BY <1>2, <1>3, <1>4, <1>5

(* A step leaves the ledger alone or appends one entry to it.              *)
LEMMA LedgerStep ==
  ASSUME TypeInv, [Next]_vars
  PROVE  \/ ledger' = ledger
         \/ \E c \in Children : \E entry_type, amount, source :
              AppendLedgerEntry(c, entry_type, amount, source)
<1>1. ASSUME NEW user \in Users, NEW t \in TaskIds,
             ApproveTask(user, t) \/ UndoApproval(user, t)
      PROVE  \E c \in Children : \E entry_type, amount, source :
               AppendLedgerEntry(c, entry_type, amount, source)
  <2>1. tasks[t] \in Task
    BY <1>1, TaskCodeFacts DEF ApproveTask, UndoApproval, TaskOps, TypeInv
  <2>2. PICK c \in Children : tasks[t].child_id = c
    BY <2>1 DEF Task
  <2>3. \/ AppendLedgerEntry(c, "credit", tasks[t].reward_minutes, t)
        \/ AppendLedgerEntry(c, "reversal", tasks[t].reward_minutes, t)
    BY <1>1, <2>2 DEF ApproveTask, UndoApproval
  <2> QED
    BY <2>3
<1>2. CASE ProcessSession
  <2>1. PICK c \in Children : c = Head(batch)[1]
    BY <1>2, HeadOfBatch DEF ProcessSession
  <2>2. \/ \E amount, s : AppendLedgerEntry(c, "debit", amount, s)
        \/ ledger' = ledger
    BY <1>2, <2>1 DEF ProcessSession
  <2> QED
    BY <2>2
<1>3. ASSUME NEW user \in Users, Request(user)
      PROVE  ledger' = ledger \/ \E t \in TaskIds : ApproveTask(user, t) \/ UndoApproval(user, t)
  <2>1. Refusal(user) => ledger' = ledger
    BY DEF Refusal, Refuse, tables
  <2> QED
    BY <1>3, <2>1 DEF Request, CreateTask, MarkTaskDone, RejectTask, ReportUsage,
                      ViewBalance, ViewLedger, tables
<1>4. Unauthenticated \/ Health \/ DuplicateSession \/ UNCHANGED vars => ledger' = ledger
  BY DEF Unauthenticated, Refuse, Health, DuplicateSession, vars, tables
<1> QED
  BY <1>1, <1>2, <1>3, <1>4 DEF Next

(* Whatever the step does, it moves both by the same amount.               *)
LEMMA ProvableStep == TypeInv /\ LedgerProvable /\ [Next]_vars => LedgerProvable'
<1> SUFFICES ASSUME TypeInv, LedgerProvable, [Next]_vars, NEW d \in Children
             PROVE  GetBalance(ledger'[d]) = ComputeBalance(ledger'[d])
  BY DEF LedgerProvable
<1>1. GetBalance(ledger[d]) = ComputeBalance(ledger[d])
  BY DEF LedgerProvable
<1>2. CASE ledger' = ledger
  BY <1>1, <1>2
<1>3. ASSUME NEW c \in Children, NEW entry_type, NEW amount, NEW source,
             AppendLedgerEntry(c, entry_type, amount, source)
      PROVE  GetBalance(ledger'[d]) = ComputeBalance(ledger'[d])
  BY <1>1, <1>3, BalanceMoves DEF TypeInv
<1> QED
  BY <1>2, <1>3, LedgerStep

(* Nobody has a balance yet.                                               *)
LEMMA ProvableInit == Init => LedgerProvable
BY BalanceOfNone DEF Init, LedgerProvable, GetBalance

(* The audit never fails: the stored balance is the sum of all entries in  *)
(* every reachable state, however long the ledger.                         *)
THEOREM LedgerAlwaysProvable == Spec => []LedgerProvable
BY TypeInit, TypeStep, ProvableInit, ProvableStep, PTL DEF Spec

(* What GET /ledger answers is the audit of the ledger it reads.           *)
AuditHolds == reply.invariant_holds

(* It can only be answered that the invariant holds.                       *)
LEMMA AuditStep == LedgerProvable /\ AuditHolds /\ [Next]_vars => AuditHolds'
<1> SUFFICES ASSUME LedgerProvable, reply.invariant_holds, [Next]_vars
             PROVE  reply'.invariant_holds
  BY DEF AuditHolds
<1>1. \A op, user, code : Answer(op, user, code) => reply'.invariant_holds
  BY DEF Answer
<1>2. \A op, user, code : Refuse(op, user, code) => reply'.invariant_holds
  BY <1>1 DEF Refuse
<1>3. ASSUME NEW user, NEW child \in Anyone, ViewLedger(user, child)
      PROVE  reply'.invariant_holds
  <2>1. child \in Children
    BY <1>3, InputsAssumption, UsersAssumption
       DEF ViewLedger, LedgerViewCode, BalanceViewCode
  <2>2. GetBalance(ledger[child]) = ComputeBalance(ledger[child])
    BY <2>1 DEF LedgerProvable
  <2> QED
    BY <1>3, <2>2 DEF ViewLedger, Report
<1>4. ASSUME NEW user \in Users, Request(user)
      PROVE  reply'.invariant_holds
  <2>1. Refusal(user) => reply'.invariant_holds
    BY <1>2 DEF Refusal
  <2>2. \A child : ViewBalance(user, child) => reply'.invariant_holds
    BY DEF ViewBalance, Report
  <2>3. \A b : ReportUsage(user, b) => reply' = reply
    BY DEF ReportUsage
  <2>4. \A t : \/ MarkTaskDone(user, t) \/ ApproveTask(user, t) \/ RejectTask(user, t)
               \/ UndoApproval(user, t)
               => reply'.invariant_holds
    BY <1>1 DEF MarkTaskDone, ApproveTask, RejectTask, UndoApproval, Report
  <2>5. \A child, m, t : CreateTask(user, child, m, t) => reply'.invariant_holds
    BY <1>1 DEF CreateTask
  <2> QED
    BY <1>3, <1>4, <2>1, <2>2, <2>3, <2>4, <2>5 DEF Request
<1>5. \A c : NextSession(c) => reply'.invariant_holds
  BY <1>1 DEF NextSession
<1>6. DuplicateSession \/ ProcessSession => reply'.invariant_holds
  BY <1>5 DEF DuplicateSession, ProcessSession
<1>7. Unauthenticated \/ Health => reply'.invariant_holds
  BY <1>1, <1>2 DEF Unauthenticated, Health
<1>8. UNCHANGED vars => reply'.invariant_holds
  BY DEF vars
<1> QED
  BY <1>4, <1>6, <1>7, <1>8 DEF Next

(* GET /ledger never tells a parent that the invariant does not hold.      *)
THEOREM AuditsHold == Spec => []AuditHolds
<1>1. Init => AuditHolds
  BY DEF Init, AuditHolds
<1> QED
  BY TypeInit, TypeStep, ProvableInit, ProvableStep, AuditStep, <1>1, PTL DEF Spec

-----------------------------------------------------------------------------
(***************************************************************************)
(* The balance against the other two tables.                               *)
(***************************************************************************)
Standing(c) == {t \in TaskIds : tasks[t].status = "approved" /\ tasks[t].child_id = c}
Covered(c)  == {s \in Sessions : usage[c][s] # NoRow}

Rewarded(c) == Total([t \in TaskIds |-> tasks[t].reward_minutes], Standing(c))
Spent(c)    == Total([s \in Sessions |-> usage[c][s].minutes_covered], Covered(c))

Explained(c) == GetBalance(ledger[c]) = Rewarded(c) - Spent(c)

(* Only finitely many rows are ever written, whatever the ids there are.   *)
FiniteTables ==
  /\ IsFiniteSet({t \in TaskIds : tasks[t] # NoTask})
  /\ \A c \in Children : IsFiniteSet(Covered(c))

BalanceInv == TypeInv /\ FiniteTables /\ \A c \in Children : Explained(c)

(* A task that stands approved exists, and its reward is a number.         *)
LEMMA StandingRows ==
  ASSUME TypeInv, FiniteTables, NEW c \in Children
  PROVE  /\ IsFiniteSet(Standing(c)) /\ Standing(c) \in SUBSET TaskIds
         /\ \A t \in Standing(c) : tasks[t] \in Task /\ tasks[t].reward_minutes \in Int
<1>1. \A t \in Standing(c) : tasks[t] # NoTask
  BY DEF Standing, NoTask
<1>2. \A t \in Standing(c) : tasks[t] \in Task /\ tasks[t].reward_minutes \in Int
  BY <1>1 DEF Standing, TypeInv, TypeOK, Task
<1>3. Standing(c) \in SUBSET {t \in TaskIds : tasks[t] # NoTask}
  BY <1>1 DEF Standing
<1>4. IsFiniteSet(Standing(c))
  BY <1>3, FS_Subset DEF FiniteTables
<1> QED
  BY <1>2, <1>4 DEF Standing

(* So are the minutes of a session that is recorded.                       *)
LEMMA CoveredRows ==
  ASSUME TypeInv, NEW c \in Children
  PROVE  /\ Covered(c) \in SUBSET Sessions
         /\ \A s \in Covered(c) : usage[c][s].minutes_covered \in Int
BY DEF Covered, TypeInv, TypeOK, UsageSession

(* BalanceExplained is Explained for every child.                          *)
LEMMA ExplainedIsBalanceExplained ==
  ASSUME TypeInv, FiniteTables, \A c \in Children : Explained(c)
  PROVE  BalanceExplained
<1> SUFFICES ASSUME NEW c \in Children
             PROVE  GetBalance(ledger[c])
                      = MapThenSumSet(LAMBDA t : tasks[t].reward_minutes, Standing(c))
                      - MapThenSumSet(LAMBDA s : usage[c][s].minutes_covered, Covered(c))
  BY DEF BalanceExplained, Standing, Covered
<1>1. MapThenSumSet(LAMBDA t : tasks[t].reward_minutes, Standing(c)) = Rewarded(c)
  BY StandingRows, RewardsTotal DEF Rewarded
<1>2. MapThenSumSet(LAMBDA s : usage[c][s].minutes_covered, Covered(c)) = Spent(c)
  BY CoveredRows, MinutesTotal DEF Spent, FiniteTables
<1> QED
  BY <1>1, <1>2 DEF Explained

-----------------------------------------------------------------------------
(* The rewards that stand are the same when the tasks that stand are.      *)
LEMMA RewardedSame ==
  ASSUME TypeInv, FiniteTables, NEW c \in Children, Standing(c)' = Standing(c),
         \A t \in Standing(c) : tasks'[t].reward_minutes = tasks[t].reward_minutes
  PROVE  Rewarded(c)' = Rewarded(c)
<1> DEFINE v == [t \in TaskIds |-> tasks[t].reward_minutes]
           w == [t \in TaskIds |-> tasks'[t].reward_minutes]
<1>1. IsFiniteSet(Standing(c)) /\ \A t \in Standing(c) : v[t] = w[t]
  BY StandingRows
<1>2. Rewarded(c) = Total(v, Standing(c)) /\ Rewarded(c)' = Total(w, Standing(c))
  BY DEF Rewarded
<1> HIDE DEF v, w
<1> QED
  BY <1>1, <1>2, TotalSame

(* A status update keeps a task's child and reward, and which tasks exist. *)
LEMMA StatusRow ==
  ASSUME TypeInv, NEW t \in TaskIds, tasks[t] \in Task, NEW op \in TaskOps, SetStatus(op, t)
  PROVE  /\ tasks'[t].status = NewStatus(op)
         /\ \A u \in TaskIds : /\ tasks'[u].child_id = tasks[u].child_id
                               /\ tasks'[u].reward_minutes = tasks[u].reward_minutes
                               /\ u # t => tasks'[u] = tasks[u]
                               /\ tasks'[u] # NoTask <=> tasks[u] # NoTask
<1> DEFINE st == NewStatus(op)
<1>1. st # "absent"
  BY DEF NewStatus
<1> HIDE DEF st
<1>2. tasks' = [tasks EXCEPT ![t].status = st]
  BY DEF SetStatus, st
<1>3. \A u \in TaskIds : u # t => tasks'[u] = tasks[u]
  BY <1>2 DEF TypeInv, TypeOK
<1>4. /\ tasks'[t].child_id = tasks[t].child_id
      /\ tasks'[t].reward_minutes = tasks[t].reward_minutes
      /\ tasks'[t].status = st
  BY <1>2 DEF TypeInv, TypeOK, Task
<1>5. tasks[t].status # "absent"
  BY DEF Task, TaskStatus
<1>6. tasks[t] # NoTask /\ tasks'[t] # NoTask
  BY <1>1, <1>4, <1>5 DEF NoTask
<1> QED
  BY <1>3, <1>4, <1>6 DEF st

(* Which rows exist, after a step on the tasks only.                       *)
LEMMA StatusKeepsFinite ==
  ASSUME FiniteTables, usage' = usage,
         \A u \in TaskIds : tasks'[u] # NoTask <=> tasks[u] # NoTask
  PROVE  FiniteTables'
<1>1. {u \in TaskIds : tasks'[u] # NoTask} = {u \in TaskIds : tasks[u] # NoTask}
  OBVIOUS
<1> QED
  BY <1>1 DEF FiniteTables, Covered

(* A status that is neither approved nor was moves no balance.             *)
LEMMA QuietStatus ==
  ASSUME BalanceInv, NEW t \in TaskIds, tasks[t] \in Task,
         NEW op \in {"done", "reject"}, tasks[t].status = AllowedFrom(op),
         SetStatus(op, t), UNCHANGED <<ledger, usage>>
  PROVE  FiniteTables' /\ \A c \in Children : Explained(c)'
<1>1. /\ tasks'[t].status = NewStatus(op)
      /\ \A u \in TaskIds : /\ tasks'[u].child_id = tasks[u].child_id
                            /\ tasks'[u].reward_minutes = tasks[u].reward_minutes
                            /\ u # t => tasks'[u] = tasks[u]
                            /\ tasks'[u] # NoTask <=> tasks[u] # NoTask
  BY StatusRow DEF BalanceInv, TaskOps
<1>2. FiniteTables'
  BY <1>1, StatusKeepsFinite DEF BalanceInv
<1>3. tasks[t].status # "approved" /\ tasks'[t].status # "approved"
  BY <1>1 DEF AllowedFrom, NewStatus
<1>4. ASSUME NEW c \in Children
      PROVE  Explained(c)'
  <2>1. Standing(c)' = Standing(c)
    BY <1>1, <1>3 DEF Standing
  <2>2. Rewarded(c)' = Rewarded(c)
    BY <1>1, <2>1, RewardedSame DEF BalanceInv, Standing
  <2>3. Spent(c)' = Spent(c)
    BY DEF Spent, Covered
  <2> QED
    BY <2>2, <2>3 DEF Explained, BalanceInv
<1> QED
  BY <1>2, <1>4

(* An approval adds the task to those that stand, and its reward.          *)
LEMMA ApprovalExplained ==
  ASSUME BalanceInv, NEW t \in TaskIds, tasks[t] \in Task, tasks[t].status = "done",
         NEW c \in Children, tasks[t].child_id = c, SetStatus("approve", t), usage' = usage,
         AppendLedgerEntry(c, "credit", tasks[t].reward_minutes, t)
  PROVE  FiniteTables' /\ \A d \in Children : Explained(d)'
<1> DEFINE r == tasks[t].reward_minutes
           v == [u \in TaskIds |-> tasks[u].reward_minutes]
           w == [u \in TaskIds |-> tasks'[u].reward_minutes]
<1>1. /\ tasks'[t].status = "approved"
      /\ \A u \in TaskIds : /\ tasks'[u].child_id = tasks[u].child_id
                            /\ tasks'[u].reward_minutes = tasks[u].reward_minutes
                            /\ u # t => tasks'[u] = tasks[u]
                            /\ tasks'[u] # NoTask <=> tasks[u] # NoTask
  BY StatusRow DEF BalanceInv, TaskOps, NewStatus
<1>2. FiniteTables'
  BY <1>1, StatusKeepsFinite DEF BalanceInv
<1>3. /\ GetBalance(ledger'[c]) = GetBalance(ledger[c]) + r
      /\ \A d \in Children : d # c => ledger'[d] = ledger[d]
  BY BalanceMoves DEF BalanceInv, TypeInv, SignedAmount
<1>4. r \in Int
  BY DEF Task
<1>5. ASSUME NEW d \in Children
      PROVE  Spent(d)' = Spent(d)
  BY DEF Spent, Covered
<1>6. ASSUME NEW d \in Children, d # c
      PROVE  Explained(d)'
  <2>1. Standing(d)' = Standing(d)
    BY <1>1, <1>6 DEF Standing
  <2>2. Rewarded(d)' = Rewarded(d)
    BY <1>1, <2>1, RewardedSame DEF BalanceInv, Standing
  <2> QED
    BY <1>3, <1>5, <1>6, <2>2 DEF Explained, BalanceInv
<1>7. Explained(c)'
  <2>1. Standing(c)' = Standing(c) \cup {t} /\ t \notin Standing(c)
    BY <1>1 DEF Standing
  <2>2. IsFiniteSet(Standing(c)) /\ \A u \in Standing(c) : v[u] = w[u] /\ v[u] \in Int
    BY <1>1, StandingRows DEF BalanceInv
  <2>3. w[t] = r
    BY <1>1
  <2>4. Rewarded(c) = Total(v, Standing(c)) /\ Rewarded(c)' = Total(w, Standing(c) \cup {t})
    BY <2>1 DEF Rewarded
  <2> HIDE DEF v, w, r
  <2>5. Rewarded(c)' = Rewarded(c) + r /\ Rewarded(c) \in Int
    BY <1>4, <2>1, <2>2, <2>3, <2>4, TotalWith
  <2>6. Spent(c) \in Int
    BY CoveredRows, TotalType DEF Spent, FiniteTables, BalanceInv
  <2>7. GetBalance(ledger[c]) = Rewarded(c) - Spent(c)
    BY DEF Explained, BalanceInv
  <2>8. GetBalance(ledger'[c]) = Rewarded(c)' - Spent(c)'
    BY <1>3, <1>4, <1>5, <2>5, <2>6, <2>7
  <2> QED
    BY <2>8 DEF Explained
<1> QED
  BY <1>2, <1>6, <1>7

(* An undoing takes both away again.                                       *)
LEMMA UndoExplained ==
  ASSUME BalanceInv, NEW t \in TaskIds, tasks[t] \in Task, tasks[t].status = "approved",
         NEW c \in Children, tasks[t].child_id = c, SetStatus("undo", t), usage' = usage,
         AppendLedgerEntry(c, "reversal", tasks[t].reward_minutes, t)
  PROVE  FiniteTables' /\ \A d \in Children : Explained(d)'
<1> DEFINE r == tasks[t].reward_minutes
           v == [u \in TaskIds |-> tasks[u].reward_minutes]
           w == [u \in TaskIds |-> tasks'[u].reward_minutes]
<1>1. /\ tasks'[t].status = "undone"
      /\ \A u \in TaskIds : /\ tasks'[u].child_id = tasks[u].child_id
                            /\ tasks'[u].reward_minutes = tasks[u].reward_minutes
                            /\ u # t => tasks'[u] = tasks[u]
                            /\ tasks'[u] # NoTask <=> tasks[u] # NoTask
  BY StatusRow DEF BalanceInv, TaskOps, NewStatus
<1>2. FiniteTables'
  BY <1>1, StatusKeepsFinite DEF BalanceInv
<1>3. /\ GetBalance(ledger'[c]) = GetBalance(ledger[c]) + (-r)
      /\ \A d \in Children : d # c => ledger'[d] = ledger[d]
  BY BalanceMoves DEF BalanceInv, TypeInv, SignedAmount
<1>4. r \in Int
  BY DEF Task
<1>5. ASSUME NEW d \in Children
      PROVE  Spent(d)' = Spent(d)
  BY DEF Spent, Covered
<1>6. ASSUME NEW d \in Children, d # c
      PROVE  Explained(d)'
  <2>1. Standing(d)' = Standing(d)
    BY <1>1, <1>6 DEF Standing
  <2>2. Rewarded(d)' = Rewarded(d)
    BY <1>1, <2>1, RewardedSame DEF BalanceInv, Standing
  <2> QED
    BY <1>3, <1>5, <1>6, <2>2 DEF Explained, BalanceInv
<1>7. Explained(c)'
  <2> DEFINE S == Standing(c)'
  <2>1. Standing(c) = S \cup {t} /\ t \notin S
    BY <1>1 DEF Standing
  <2>2. IsFiniteSet(S)
    <3>1. S \in SUBSET Standing(c)
      BY <2>1
    <3> QED
      BY <3>1, StandingRows, FS_Subset DEF BalanceInv
  <2>3. \A u \in S : v[u] = w[u] /\ v[u] \in Int
    <3>1. \A u \in S : u \in TaskIds /\ tasks[u].reward_minutes \in Int
      BY <2>1, StandingRows DEF BalanceInv
    <3> QED
      BY <1>1, <3>1
  <2>4. v[t] = r
    OBVIOUS
  <2>5. Rewarded(c) = Total(v, S \cup {t}) /\ Rewarded(c)' = Total(w, S)
    BY <2>1 DEF Rewarded
  <2> HIDE DEF v, w, r, S
  <2>6. Rewarded(c) = Rewarded(c)' + r /\ Rewarded(c)' \in Int
    <3>1. t \notin S /\ v[t] \in Int
      BY <1>4, <2>1, <2>4
    <3>2. Total(v, S \cup {t}) = Total(w, S) + v[t] /\ Total(w, S) \in Int
      BY <2>2, <2>3, <3>1, TotalWith
    <3> QED
      BY <2>4, <2>5, <3>2
  <2>7. Spent(c) \in Int
    BY CoveredRows, TotalType DEF Spent, FiniteTables, BalanceInv
  <2>8. GetBalance(ledger[c]) = Rewarded(c) - Spent(c)
    BY DEF Explained, BalanceInv
  <2>9. GetBalance(ledger'[c]) = Rewarded(c)' - Spent(c)'
    BY <1>3, <1>4, <1>5, <2>6, <2>7, <2>8
  <2> QED
    BY <2>9 DEF Explained
<1> QED
  BY <1>2, <1>6, <1>7

(* A task that has just been created stands for nothing yet.               *)
LEMMA CreateExplained ==
  ASSUME BalanceInv, NEW t \in TaskIds, tasks[t] = NoTask, NEW row,
         row.status = "pending", tasks' = [tasks EXCEPT ![t] = row],
         UNCHANGED <<ledger, usage>>
  PROVE  FiniteTables' /\ \A c \in Children : Explained(c)'
<1>1. tasks'[t] = row /\ \A u \in TaskIds : u # t => tasks'[u] = tasks[u]
  BY DEF BalanceInv, TypeInv, TypeOK
<1>2. FiniteTables'
  <2> DEFINE Old == {u \in TaskIds : tasks[u] # NoTask}
             New == {u \in TaskIds : tasks'[u] # NoTask}
  <2>1. New \in SUBSET (Old \cup {t})
    BY <1>1
  <2>2. IsFiniteSet(Old)
    BY DEF BalanceInv, FiniteTables
  <2> HIDE DEF Old, New
  <2>3. IsFiniteSet(New)
    BY <2>1, <2>2, FS_AddElement, FS_Subset
  <2> QED
    BY <2>3 DEF New, FiniteTables, BalanceInv, Covered
<1>3. ASSUME NEW c \in Children
      PROVE  Explained(c)'
  <2>1. tasks[t].status # "approved" /\ tasks'[t].status # "approved"
    BY <1>1 DEF NoTask
  <2>2. Standing(c)' = Standing(c)
    BY <1>1, <2>1 DEF Standing
  <2>3. \A u \in Standing(c) : tasks'[u] = tasks[u]
    BY <1>1, <2>1 DEF Standing
  <2>4. Rewarded(c)' = Rewarded(c)
    BY <2>2, <2>3, RewardedSame DEF BalanceInv
  <2>5. Spent(c)' = Spent(c)
    BY DEF Spent, Covered
  <2> QED
    BY <2>4, <2>5 DEF Explained, BalanceInv
<1> QED
  BY <1>2, <1>3

(* A session that is recorded adds its minutes to those spent, and its     *)
(* debit, if it has one, takes as many off the balance.                    *)
LEMMA SessionExplained ==
  ASSUME BalanceInv, ProcessSession
  PROVE  FiniteTables' /\ \A d \in Children : Explained(d)'
<1>1. PICK c \in Children, s \in Sessions :
         c = Head(batch)[1] /\ s = Head(batch)[2] /\ EndsAfterStart(s)
  BY HeadOfBatch DEF ProcessSession, BalanceInv
<1> DEFINE row == CoverSession(s, GetBalance(ledger[c]))
           m   == row.minutes_covered
           v   == [r \in Sessions |-> usage[c][r].minutes_covered]
           w   == [r \in Sessions |-> usage'[c][r].minutes_covered]
<1>2. /\ usage[c][s] = NoRow
      /\ usage' = [usage EXCEPT ![c][s] = row]
      /\ m > 0 => AppendLedgerEntry(c, "debit", m, s)
      /\ ~(m > 0) => ledger' = ledger
      /\ tasks' = tasks
  BY <1>1 DEF ProcessSession, Recorded
<1>3. row \in UsageSession
  <2>1. GetBalance(ledger[c]) \in Int
    BY BalanceType DEF BalanceInv, TypeInv, TypeOK
  <2> QED
    BY <1>1, <2>1, CoverSessionRow
<1>4. m \in Nat /\ row # NoRow
  <2> HIDE DEF row
  <2> QED
    BY <1>3 DEF UsageSession, NoRow
<1> HIDE DEF row
<1>5. /\ usage'[c][s] = row
      /\ \A r \in Sessions : r # s => usage'[c][r] = usage[c][r]
      /\ \A d \in Children : d # c => usage'[d] = usage[d]
  BY <1>2 DEF BalanceInv, TypeInv, TypeOK
<1>6. Covered(c)' = Covered(c) \cup {s} /\ s \notin Covered(c)
  BY <1>2, <1>4, <1>5 DEF Covered
<1>7. \A d \in Children : d # c => Covered(d)' = Covered(d)
  BY <1>5 DEF Covered
<1>8. FiniteTables'
  <2>1. \A d \in Children : IsFiniteSet(Covered(d)')
    BY <1>6, <1>7, FS_AddElement DEF FiniteTables, BalanceInv
  <2> QED
    BY <1>2, <2>1 DEF FiniteTables, BalanceInv
<1>9. \A d \in Children : Rewarded(d)' = Rewarded(d)
  BY <1>2 DEF Rewarded, Standing
<1>10. /\ GetBalance(ledger'[c]) = GetBalance(ledger[c]) - m
       /\ \A d \in Children : d # c => ledger'[d] = ledger[d]
  <2>1. CASE m > 0
    <3>1. /\ GetBalance(ledger'[c]) = GetBalance(ledger[c]) + SignedAmount("debit", m)
          /\ \A d \in Children : d # c => ledger'[d] = ledger[d]
      BY <1>2, <2>1, BalanceMoves DEF BalanceInv, TypeInv
    <3>2. GetBalance(ledger[c]) \in Int
      BY BalanceType DEF BalanceInv, TypeInv, TypeOK
    <3> QED
      BY <1>4, <3>1, <3>2 DEF SignedAmount
  <2>2. CASE ~(m > 0)
    <3>1. m = 0 /\ ledger' = ledger
      BY <1>2, <1>4, <2>2
    <3>2. GetBalance(ledger[c]) \in Int
      BY BalanceType DEF BalanceInv, TypeInv, TypeOK
    <3> QED
      BY <3>1, <3>2
  <2> QED
    BY <2>1, <2>2
<1>11. ASSUME NEW d \in Children, d # c
       PROVE  Explained(d)'
  <2>1. Spent(d)' = Spent(d)
    BY <1>5, <1>7, <1>11 DEF Spent
  <2> QED
    BY <1>9, <1>10, <1>11, <2>1 DEF Explained, BalanceInv
<1>12. Explained(c)'
  <2>1. IsFiniteSet(Covered(c))
    BY DEF FiniteTables, BalanceInv
  <2>2. \A r \in Covered(c) : w[r] = v[r] /\ w[r] \in Int
    <3>1. \A r \in Covered(c) : r \in Sessions /\ r # s /\ usage[c][r].minutes_covered \in Int
      BY <1>6, CoveredRows DEF BalanceInv
    <3> QED
      BY <1>5, <3>1
  <2>3. w[s] = m
    BY <1>5
  <2>4. Spent(c) = Total(v, Covered(c)) /\ Spent(c)' = Total(w, Covered(c) \cup {s})
    BY <1>6 DEF Spent
  <2> HIDE DEF v, w, m
  <2>5. Spent(c)' = Spent(c) + m /\ Spent(c) \in Int
    <3>1. s \notin Covered(c) /\ w[s] \in Int
      BY <1>4, <1>6, <2>3 DEF m
    <3>2. Total(w, Covered(c) \cup {s}) = Total(v, Covered(c)) + w[s] /\ Total(v, Covered(c)) \in Int
      BY <2>1, <2>2, <3>1, TotalWith
    <3> QED
      BY <2>3, <2>4, <3>2
  <2>6. Rewarded(c) \in Int
    BY StandingRows, TotalType DEF Rewarded, BalanceInv
  <2>7. GetBalance(ledger[c]) = Rewarded(c) - Spent(c)
    BY DEF Explained, BalanceInv
  <2>8. GetBalance(ledger'[c]) = Rewarded(c)' - Spent(c)'
    <3>1. m \in Int
      BY <1>4 DEF m
    <3> QED
      BY <1>9, <1>10, <2>5, <2>6, <2>7, <3>1
  <2> QED
    BY <2>8 DEF Explained
<1> QED
  BY <1>8, <1>11, <1>12

-----------------------------------------------------------------------------
(* Nobody has done anything yet: nothing is rewarded and nothing is spent. *)
LEMMA BalanceInit == Init => BalanceInv
<1> SUFFICES ASSUME Init PROVE BalanceInv
  OBVIOUS
<1>1. {t \in TaskIds : tasks[t] # NoTask} = {}
  BY DEF Init
<1>2. ASSUME NEW c \in Children
      PROVE  Covered(c) = {} /\ Standing(c) = {} /\ ledger[c] = <<>>
  BY DEF Init, Covered, Standing, NoTask
<1>3. FiniteTables
  BY <1>1, <1>2, FS_EmptySet DEF FiniteTables
<1>4. ASSUME NEW c \in Children
      PROVE  Explained(c)
  <2>1. Rewarded(c) = 0 /\ Spent(c) = 0
    BY <1>2, TotalOfNone DEF Rewarded, Spent
  <2> QED
    BY <1>2, <2>1 DEF Explained, GetBalance
<1> QED
  BY <1>3, <1>4, TypeInit DEF BalanceInv

(* Every step keeps the balance explained.                                 *)
LEMMA BalanceStep == BalanceInv /\ [Next]_vars => BalanceInv'
<1> SUFFICES ASSUME BalanceInv, [Next]_vars
             PROVE  FiniteTables' /\ \A c \in Children : Explained(c)'
  BY TypeStep DEF BalanceInv
<1>0. TypeInv /\ TypeOK
  BY DEF BalanceInv, TypeInv
<1>1. CASE UNCHANGED tables
  BY <1>1 DEF BalanceInv, FiniteTables, Covered, Explained, Rewarded, Spent, Standing, tables
<1>2. ASSUME NEW user \in Users, NEW child \in Anyone, NEW m \in Rewards,
             NEW t \in TaskIds, CreateTask(user, child, m, t)
      PROVE  FiniteTables' /\ \A c \in Children : Explained(c)'
  <2> DEFINE row == [child_id |-> child, family_id |-> FamilyOf[user],
                     reward_minutes |-> m, status |-> "pending"]
  <2>1. row.status = "pending"
    OBVIOUS
  <2>2. /\ tasks[t] = NoTask /\ tasks' = [tasks EXCEPT ![t] = row]
        /\ UNCHANGED <<ledger, usage>>
    BY <1>2 DEF CreateTask
  <2> HIDE DEF row
  <2> QED
    BY <2>1, <2>2, CreateExplained
<1>3. ASSUME NEW user \in Users, NEW t \in TaskIds, MarkTaskDone(user, t) \/ RejectTask(user, t)
      PROVE  FiniteTables' /\ \A c \in Children : Explained(c)'
  <2>1. PICK op \in {"done", "reject"} :
          TaskCode(op, user, tasks[t]) = 200 /\ SetStatus(op, t) /\ UNCHANGED <<ledger, usage>>
    BY <1>3 DEF MarkTaskDone, RejectTask
  <2>2. tasks[t] \in Task /\ tasks[t].status = AllowedFrom(op)
    BY <1>0, <2>1, TaskCodeFacts DEF TaskOps
  <2> QED
    BY <2>1, <2>2, QuietStatus
<1>4. ASSUME NEW user \in Users, NEW t \in TaskIds, ApproveTask(user, t)
      PROVE  FiniteTables' /\ \A c \in Children : Explained(c)'
  <2>1. tasks[t] \in Task /\ tasks[t].status = "done"
    BY <1>0, <1>4, TaskCodeFacts DEF ApproveTask, TaskOps, AllowedFrom
  <2>2. PICK c \in Children : tasks[t].child_id = c
    BY <2>1 DEF Task
  <2> QED
    BY <1>4, <2>1, <2>2, ApprovalExplained DEF ApproveTask
<1>5. ASSUME NEW user \in Users, NEW t \in TaskIds, UndoApproval(user, t)
      PROVE  FiniteTables' /\ \A c \in Children : Explained(c)'
  <2>1. tasks[t] \in Task /\ tasks[t].status = "approved"
    BY <1>0, <1>5, TaskCodeFacts DEF UndoApproval, TaskOps, AllowedFrom
  <2>2. PICK c \in Children : tasks[t].child_id = c
    BY <2>1 DEF Task
  <2> QED
    BY <1>5, <2>1, <2>2, UndoExplained DEF UndoApproval
<1>6. ASSUME NEW user \in Users, Request(user)
      PROVE  FiniteTables' /\ \A c \in Children : Explained(c)'
  <2>1. Refusal(user) => UNCHANGED tables
    BY DEF Refusal, Refuse
  <2>2. \A b \in Batches : ReportUsage(user, b) => UNCHANGED tables
    BY DEF ReportUsage
  <2>3. \A child : ViewBalance(user, child) \/ ViewLedger(user, child) => UNCHANGED tables
    BY DEF ViewBalance, ViewLedger
  <2> QED
    BY <1>1, <1>2, <1>3, <1>4, <1>5, <1>6, <2>1, <2>2, <2>3 DEF Request
<1>7. Unauthenticated \/ Health \/ DuplicateSession \/ UNCHANGED vars => UNCHANGED tables
  BY DEF Unauthenticated, Refuse, Health, DuplicateSession, vars, tables
<1>8. CASE ProcessSession
  BY <1>8, SessionExplained
<1> QED
  BY <1>1, <1>6, <1>7, <1>8 DEF Next

(* The balance is always the rewards of the tasks that stand approved less *)
(* the minutes of the sessions covered: nothing else ever moves it.        *)
THEOREM BalanceAlwaysExplained == Spec => []BalanceExplained
<1>1. BalanceInv => BalanceExplained
  BY ExplainedIsBalanceExplained DEF BalanceInv
<1> QED
  BY BalanceInit, BalanceStep, <1>1, PTL DEF Spec
=============================================================================
