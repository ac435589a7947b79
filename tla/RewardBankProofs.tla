-------------------------- MODULE RewardBankProofs --------------------------
(***************************************************************************)
(* Theorems about RewardBank, for any users, families, tasks, rewards,     *)
(* sessions and batches.                                                   *)
(***************************************************************************)
EXTENDS RewardBank, RewardBankDataProofs

(* A session with two dates that can be compared, in their order.          *)
LiesInTime(s) == EndsAfterStart(s) /\ s.spelled \in {"zulu", "offset"}

(* A batch that is being processed holds such sessions only:               *)
(* report_usage_endpoint looks at all of them first.                       *)
BatchValid == \A i \in DOMAIN batch : LiesInTime(batch[i][2])

TypeInv == TypeOK /\ BatchValid

-----------------------------------------------------------------------------
(* What a task request that is answered 200 has found.                     *)
LEMMA TaskCodeFacts ==
  ASSUME TypeOK, NEW user \in Users, NEW t \in TaskIds, NEW op \in TaskOps,
         TaskCode(op, user, tasks[t]) = 200
  PROVE  /\ tasks[t] \in Task
         /\ tasks[t].status = AllowedFrom(op)
         /\ RoleOf[user] = ActorOf(op)
         /\ MayAct(op, user, tasks[t])
<1>1. AccessCode(op, user, tasks[t]) = 200
  BY DEF TaskCode
<1>2. tasks[t] # NoTask
  BY <1>1 DEF AccessCode
<1> QED
  BY <1>1, <1>2 DEF TaskCode, AccessCode, TypeOK

(* append_ledger_entry keeps the ledger's type.                            *)
LEMMA AppendType ==
  ASSUME TypeOK, NEW c \in Children,
         NEW entry_type \in {"credit", "debit", "reversal"},
         NEW amount \in Nat \ {0}, NEW source \in TaskIds \cup Sessions,
         AppendLedgerEntry(c, entry_type, amount, source)
  PROVE  /\ NewEntry(entry_type, amount, source, GetBalance(ledger[c])) \in LedgerEntry
         /\ ledger' \in [Children -> Seq(LedgerEntry)]
<1>1. ledger[c] \in Seq(LedgerEntry)
  BY DEF TypeOK
<1>2. GetBalance(ledger[c]) \in Int
  BY <1>1, BalanceType
<1>3. NewEntry(entry_type, amount, source, GetBalance(ledger[c])) \in LedgerEntry
  BY <1>2 DEF NewEntry, SignedAmount, LedgerEntry
<1> QED
  BY <1>1, <1>3 DEF AppendLedgerEntry, TypeOK

(* An answer has its type.                                                 *)
LEMMA AnswerType ==
  ASSUME NEW op \in Ops, NEW user \in Users \cup {Stranger}, NEW code \in Codes
  PROVE  Answer(op, user, code) => reply' \in Reply
BY DEF Answer, Reply

(* So has an answer that carries a balance.                                *)
LEMMA ReportType ==
  ASSUME NEW op \in Ops, NEW user \in Users \cup {Stranger},
         NEW balance \in Int, NEW holds \in BOOLEAN
  PROVE  Report(op, user, balance, holds) => reply' \in Reply
<1>1. 200 \in Codes
  BY DEF Codes
<1> QED
  BY <1>1 DEF Report, Reply

(* Every code of a request is one of Codes.                                *)
LEMMA CodesType ==
  ASSUME NEW user \in Users
  PROVE  /\ \A child, m : CreateCode(user, child, m) \in Codes
         /\ \A op, task : TaskCode(op, user, task) \in Codes
         /\ \A b : UsageCode(user, b) \in Codes
         /\ \A child : /\ BalanceViewCode(user, child) \in Codes
                       /\ LedgerViewCode(user, child) \in Codes
<1>1. \A child, m : CreateCode(user, child, m) \in Codes
  BY DEF CreateCode, Codes
<1>2. \A op, task : TaskCode(op, user, task) \in Codes
  <2>1. \A op, task : AccessCode(op, user, task) \in {200, 403, 404}
    BY DEF AccessCode
  <2> QED
    BY <2>1 DEF TaskCode, Codes
<1>3. \A b : UsageCode(user, b) \in Codes
  BY DEF UsageCode, Codes
<1>4. \A child : BalanceViewCode(user, child) \in Codes
  BY DEF BalanceViewCode, Codes
<1>5. \A child : LedgerViewCode(user, child) \in Codes
  BY <1>4 DEF LedgerViewCode, Codes
<1> QED
  BY <1>1, <1>2, <1>3, <1>4, <1>5

(* Moving on in a batch keeps its type and the order of its sessions.      *)
LEMMA NextSessionType ==
  ASSUME TypeInv, batch # <<>>, NEW child \in Users, NextSession(child)
  PROVE  /\ batch' \in Seq(Children \X Sessions)
         /\ BatchValid'
         /\ reply' \in Reply
<1>1. batch' = Tail(batch) /\ batch \in Seq(Children \X Sessions)
  BY DEF NextSession, TypeInv, TypeOK
<1>2. /\ batch' \in Seq(Children \X Sessions)
      /\ \A i \in DOMAIN batch' : i + 1 \in DOMAIN batch /\ batch'[i] = batch[i + 1]
  BY <1>1
<1>3. BatchValid'
  BY <1>2 DEF BatchValid, TypeInv
<1>4. reply' \in Reply
  <2>1. CASE Len(batch) = 1
    <3>1. "usage" \in Ops /\ 200 \in Codes
      BY DEF Ops, Codes
    <3>2. Answer("usage", child, 200)
      BY <2>1 DEF NextSession
    <3> QED
      BY <3>1, <3>2, AnswerType
  <2>2. CASE Len(batch) # 1
    BY <2>2 DEF NextSession, TypeInv, TypeOK
  <2> QED
    BY <2>1, <2>2
<1> QED
  BY <1>2, <1>3, <1>4

(* The head of a batch is a session of a child.                            *)
LEMMA HeadOfBatch ==
  ASSUME TypeInv, batch # <<>>
  PROVE  /\ Head(batch)[1] \in Children
         /\ Head(batch)[1] \in Users
         /\ Head(batch)[2] \in Sessions
         /\ EndsAfterStart(Head(batch)[2])
         /\ LiesInTime(Head(batch)[2])
<1>1. Head(batch) = batch[1] /\ 1 \in DOMAIN batch /\ batch[1] \in Children \X Sessions
  BY DEF TypeInv, TypeOK
<1> QED
  BY <1>1 DEF TypeInv, BatchValid, LiesInTime, Children

-----------------------------------------------------------------------------
(* The empty tables have their types.                                      *)
LEMMA TypeInit == Init => TypeInv
<1> SUFFICES ASSUME Init PROVE TypeInv
  OBVIOUS
<1>1. reply \in Reply
  BY DEF Init, Reply, Codes, Ops
<1> QED
  BY <1>1 DEF Init, TypeInv, TypeOK, BatchValid

(* Every step keeps the types, and batches of valid sessions only.         *)
LEMMA TypeStep == TypeInv /\ [Next]_vars => TypeInv'
<1> SUFFICES ASSUME TypeInv, [Next]_vars PROVE TypeInv'
  OBVIOUS
<1> USE DEF TypeInv
<1>1. ASSUME NEW user \in Users, NEW child \in Anyone, NEW m \in Rewards,
             NEW t \in TaskIds, CreateTask(user, child, m, t)
      PROVE  TypeInv'
  <2>1. child \in Children /\ m \in Nat \ {0} /\ FamilyOf[user] \in Families
    BY <1>1, UsersAssumption, InputsAssumption DEF CreateTask, CreateCode
  <2>2. tasks' \in [TaskIds -> Task \cup {NoTask}]
    BY <1>1, <2>1 DEF CreateTask, TypeOK, Task, TaskStatus
  <2>3. reply' \in Reply
    BY <1>1, AnswerType DEF CreateTask, Codes, Ops
  <2> QED
    BY <1>1, <2>2, <2>3 DEF CreateTask, TypeOK, BatchValid
<1>2. ASSUME NEW op \in TaskOps, NEW t \in TaskIds, tasks[t] \in Task, SetStatus(op, t)
      PROVE  tasks' \in [TaskIds -> Task \cup {NoTask}]
  <2>1. NewStatus(op) \in TaskStatus
    BY DEF NewStatus, TaskStatus
  <2> QED
    BY <1>2, <2>1 DEF SetStatus, TypeOK, Task
<1>3. ASSUME NEW user \in Users, NEW t \in TaskIds, MarkTaskDone(user, t)
      PROVE  TypeInv'
  <2>1. tasks' \in [TaskIds -> Task \cup {NoTask}]
    BY <1>2, <1>3, TaskCodeFacts DEF MarkTaskDone, TaskOps
  <2>2. reply' \in Reply
    BY <1>3, AnswerType DEF MarkTaskDone, Codes, Ops, TaskOps
  <2> QED
    BY <1>3, <2>1, <2>2 DEF MarkTaskDone, TypeOK, BatchValid
<1>4. ASSUME NEW user \in Users, NEW t \in TaskIds, RejectTask(user, t)
      PROVE  TypeInv'
  <2>1. tasks' \in [TaskIds -> Task \cup {NoTask}]
    BY <1>2, <1>4, TaskCodeFacts DEF RejectTask, TaskOps
  <2>2. reply' \in Reply
    BY <1>4, AnswerType DEF RejectTask, Codes, Ops, TaskOps
  <2> QED
    BY <1>4, <2>1, <2>2 DEF RejectTask, TypeOK, BatchValid
<1>5. ASSUME NEW user \in Users, NEW t \in TaskIds, ApproveTask(user, t)
      PROVE  TypeInv'
  <2>1. tasks[t] \in Task
    BY <1>5, TaskCodeFacts DEF ApproveTask, TaskOps
  <2>2. tasks[t].child_id \in Children /\ tasks[t].reward_minutes \in Nat \ {0}
    BY <2>1 DEF Task
  <2>3. tasks' \in [TaskIds -> Task \cup {NoTask}]
    BY <1>2, <1>5, <2>1 DEF ApproveTask, TaskOps
  <2>4. ledger' \in [Children -> Seq(LedgerEntry)]
    BY <1>5, <2>2, AppendType DEF ApproveTask
  <2>5. reply' \in Reply
    BY <1>5, AnswerType DEF ApproveTask, Codes, Ops, TaskOps
  <2> QED
    BY <1>5, <2>3, <2>4, <2>5 DEF ApproveTask, TypeOK, BatchValid
<1>6. ASSUME NEW user \in Users, NEW t \in TaskIds, UndoApproval(user, t)
      PROVE  TypeInv'
  <2>1. tasks[t] \in Task
    BY <1>6, TaskCodeFacts DEF UndoApproval, TaskOps
  <2>2. tasks[t].child_id \in Children /\ tasks[t].reward_minutes \in Nat \ {0}
    BY <2>1 DEF Task
  <2>3. tasks' \in [TaskIds -> Task \cup {NoTask}]
    BY <1>2, <1>6, <2>1 DEF UndoApproval, TaskOps
  <2>4. ledger' \in [Children -> Seq(LedgerEntry)]
    BY <1>6, <2>2, AppendType DEF UndoApproval
  <2>5. reply' \in Reply
    <3>1. GetBalance(ledger'[tasks[t].child_id]) \in Int
      BY <2>2, <2>4, BalanceType
    <3> QED
      BY <1>6, <3>1, ReportType DEF UndoApproval, Ops, TaskOps
  <2> QED
    BY <1>6, <2>3, <2>4, <2>5 DEF UndoApproval, TypeOK, BatchValid
<1>7. ASSUME NEW op \in Ops, NEW user \in Users \cup {Stranger}, NEW code \in Codes,
             Refuse(op, user, code)
      PROVE  TypeInv'
  BY <1>7, AnswerType DEF Refuse, TypeOK, BatchValid, tables
<1>8. ASSUME NEW user \in Users, NEW b \in Batches, ReportUsage(user, b)
      PROVE  TypeInv'
  <2>1. /\ user \in Children
        /\ b \in Seq(Sessions)
    BY <1>8, UsersAssumption, BatchesAssumption DEF ReportUsage, UsageCode, Children
  <2>3. \A i \in DOMAIN b : b[i] \in Sessions /\ SessionCode(b[i]) = 200
    BY <1>8, <2>1 DEF ReportUsage, UsageCode
  <2>4. ASSUME NEW s \in Sessions, SessionCode(s) = 200
        PROVE  LiesInTime(s)
    BY <2>4, InputsAssumption DEF SessionCode, LiesInTime, Spellings
  <2>2. batch' \in Seq(Children \X Sessions) /\ BatchValid'
    BY <1>8, <2>1, <2>3, <2>4 DEF ReportUsage, BatchValid
  <2> QED
    BY <1>8, <2>2 DEF ReportUsage, TypeOK, tables
<1>9. ASSUME DuplicateSession
      PROVE  TypeInv'
  <2>1. batch # <<>> /\ NextSession(Head(batch)[1]) /\ UNCHANGED tables
    BY <1>9 DEF DuplicateSession
  <2> QED
    BY <2>1, HeadOfBatch, NextSessionType DEF TypeOK, tables
<1>10. ASSUME ProcessSession
       PROVE  TypeInv'
  <2> DEFINE child == Head(batch)[1]
             s     == Head(batch)[2]
             row   == CoverSession(s, GetBalance(ledger[child]))
  <2>1. batch # <<>>
    BY <1>10 DEF ProcessSession
  <2>2. child \in Children /\ child \in Users /\ s \in Sessions /\ EndsAfterStart(s)
    BY <2>1, HeadOfBatch
  <2>3. /\ usage' = [usage EXCEPT ![child][s] = row]
        /\ row.minutes_covered > 0 => AppendLedgerEntry(child, "debit", row.minutes_covered, s)
        /\ ~(row.minutes_covered > 0) => ledger' = ledger
        /\ NextSession(child)
        /\ tasks' = tasks
    BY <1>10 DEF ProcessSession
  <2>4. GetBalance(ledger[child]) \in Int
    BY <2>2, BalanceType DEF TypeOK
  <2> HIDE DEF child, s
  <2>5. row \in UsageSession
    BY <2>2, <2>4, CoverSessionRow
  <2> HIDE DEF row
  <2>6. usage' \in [Children -> [Sessions -> UsageSession \cup {NoRow}]]
    BY <2>2, <2>3, <2>5 DEF TypeOK
  <2>7. ledger' \in [Children -> Seq(LedgerEntry)]
    <3>1. CASE row.minutes_covered > 0
      <4>1. row.minutes_covered \in Nat \ {0}
        BY <2>5, <3>1 DEF UsageSession
      <4> QED
        BY <2>2, <2>3, <3>1, <4>1, AppendType
    <3>2. CASE ~(row.minutes_covered > 0)
      BY <2>3, <3>2 DEF TypeOK
    <3> QED
      BY <3>1, <3>2
  <2>8. batch' \in Seq(Children \X Sessions) /\ BatchValid' /\ reply' \in Reply
    BY <2>1, <2>2, <2>3, NextSessionType
  <2> QED
    BY <2>3, <2>6, <2>7, <2>8 DEF TypeOK
<1>11. ASSUME NEW user \in Users, NEW child \in Anyone,
              ViewBalance(user, child) \/ ViewLedger(user, child)
       PROVE  TypeInv'
  <2>1. child \in Children
    <3>1. BalanceViewCode(user, child) = 200
      <4>1. CASE ViewBalance(user, child)
        BY <4>1 DEF ViewBalance
      <4>2. CASE ViewLedger(user, child)
        <5>1. LedgerViewCode(user, child) = 200
          BY <4>2 DEF ViewLedger
        <5> QED
          BY <5>1 DEF LedgerViewCode
      <4> QED
        BY <1>11, <4>1, <4>2
    <3>2. CASE RoleOf[user] = "child"
      <4>1. user = child
        BY <3>1, <3>2 DEF BalanceViewCode
      <4> QED
        BY <3>2, <4>1 DEF Children
    <3>3. CASE RoleOf[user] # "child"
      BY <3>1, <3>3 DEF BalanceViewCode
    <3> QED
      BY <3>2, <3>3
  <2>2. GetBalance(ledger[child]) \in Int
    BY <2>1, BalanceType DEF TypeOK
  <2>3. reply' \in Reply
    <3>1. CASE ViewBalance(user, child)
      BY <2>2, <3>1, ReportType DEF ViewBalance, Ops
    <3>2. CASE ViewLedger(user, child)
      BY <2>2, <3>2, ReportType DEF ViewLedger, Ops
    <3> QED
      BY <1>11, <3>1, <3>2
  <2> QED
    BY <1>11, <2>3 DEF ViewBalance, ViewLedger, TypeOK, BatchValid, tables
<1>12. CASE UNCHANGED vars
  BY <1>12 DEF vars, TypeOK, BatchValid
<1>13. ASSUME NEW user \in Users, Refusal(user)
       PROVE  TypeInv'
  <2>1. \E op \in Ops, code \in Codes : Refuse(op, user, code)
    BY <1>13, CodesType DEF Refusal, Ops
  <2> QED
    BY <1>7, <2>1
<1>14. ASSUME NEW user \in Users, Request(user)
       PROVE  TypeInv'
  BY <1>1, <1>3, <1>4, <1>5, <1>6, <1>8, <1>11, <1>13, <1>14 DEF Request
<1>15. CASE Unauthenticated
  <2>1. {401, NoHeaderCode} \subseteq Codes /\ "none" \in Ops
    BY HeaderAssumption DEF Codes, Ops
  <2> QED
    BY <1>7, <1>15, <2>1 DEF Unauthenticated
<1>16. CASE Health
  <2>1. reply' \in Reply
    BY <1>16, AnswerType DEF Health, Ops, Codes
  <2> QED
    BY <1>16, <2>1 DEF Health, TypeOK, BatchValid, tables
<1> QED
  BY <1>9, <1>10, <1>12, <1>14, <1>15, <1>16 DEF Next

(* Every variable has its type, whatever the size of the tables.           *)
THEOREM TypeCorrect == Spec => []TypeOK
<1>1. TypeInv => TypeOK
  BY DEF TypeInv
<1> QED
  BY TypeInit, TypeStep, <1>1, PTL DEF Spec

(* No session that ends before it starts, is no date or cannot be compared *)
(* ever gets a row: report_usage_endpoint looks at the whole batch first.  *)
THEOREM OnlyValidSessions == Spec => []OnlyValidRecorded
<1>1. Init => OnlyValidRecorded
  BY DEF Init, OnlyValidRecorded
<1>2. ASSUME TypeInv, OnlyValidRecorded, ProcessSession
      PROVE  OnlyValidRecorded'
  <2>1. PICK d \in Children, r \in Sessions : d = Head(batch)[1] /\ r = Head(batch)[2]
    BY <1>2, HeadOfBatch DEF ProcessSession
  <2>2. LiesInTime(r)
    BY <1>2, <2>1, HeadOfBatch DEF ProcessSession
  <2>3. \E row : usage' = [usage EXCEPT ![d][r] = row]
    BY <1>2, <2>1 DEF ProcessSession
  <2>4. \A c \in Children, s \in Sessions :
          usage'[c][s] = usage[c][s] \/ (c = d /\ s = r)
    BY <1>2, <2>3 DEF TypeInv, TypeOK
  <2> QED
    BY <1>2, <2>2, <2>4 DEF OnlyValidRecorded, LiesInTime
<1>3. TypeInv /\ OnlyValidRecorded /\ [Next]_vars => OnlyValidRecorded'
  <2> SUFFICES ASSUME TypeInv, OnlyValidRecorded, [Next]_vars
               PROVE  OnlyValidRecorded'
    OBVIOUS
  <2>1. usage' = usage \/ ProcessSession
    <3>1. ASSUME NEW user \in Users, Request(user)
          PROVE  usage' = usage
      <4>1. Refusal(user) => usage' = usage
        BY DEF Refusal, Refuse, tables
      <4> QED
        BY <3>1, <4>1 DEF Request, CreateTask, MarkTaskDone, ApproveTask, RejectTask,
                          UndoApproval, ReportUsage, ViewBalance, ViewLedger, tables
    <3>2. Unauthenticated \/ Health \/ DuplicateSession \/ UNCHANGED vars => usage' = usage
      BY DEF Unauthenticated, Refuse, Health, DuplicateSession, vars, tables
    <3> QED
      BY <3>1, <3>2 DEF Next
  <2> QED
    BY <1>2, <2>1 DEF OnlyValidRecorded
<1> QED
  BY TypeInit, TypeStep, <1>1, <1>3, PTL DEF Spec

-----------------------------------------------------------------------------
(***************************************************************************)
(* The books: tasks and sessions against the ledger.                       *)
(***************************************************************************)
Books ==
  /\ TypeInv
  /\ ApprovalsAudited
  /\ SessionsAudited
  /\ SpendingNeverOverdraws
  /\ CutOffExact

(* append_ledger_entry adds one position to the child's entries, the last, *)
(* and leaves everything else in the ledger as it was.                     *)
LEMMA Appended ==
  ASSUME TypeOK, NEW c \in Children, NEW entry_type, NEW amount, NEW source,
         AppendLedgerEntry(c, entry_type, amount, source)
  PROVE  LET n == Len(ledger[c]) + 1
             e == NewEntry(entry_type, amount, source, GetBalance(ledger[c]))
         IN  /\ n \notin DOMAIN ledger[c]
             /\ DOMAIN ledger'[c] = DOMAIN ledger[c] \cup {n}
             /\ ledger'[c][n] = e
             /\ \A i \in DOMAIN ledger[c] : ledger'[c][i] = ledger[c][i]
             /\ \A d \in Children : d # c => ledger'[d] = ledger[d]
<1> DEFINE e == NewEntry(entry_type, amount, source, GetBalance(ledger[c]))
<1>1. ledger' = [ledger EXCEPT ![c] = Append(@, e)]
  BY DEF AppendLedgerEntry
<1> HIDE DEF e
<1>2. ledger[c] \in Seq(LedgerEntry) /\ ledger'[c] = Append(ledger[c], e)
  BY <1>1 DEF TypeOK
<1>3. \A d \in Children : d # c => ledger'[d] = ledger[d]
  BY <1>1 DEF TypeOK
<1>4. /\ Len(ledger[c]) + 1 \notin DOMAIN ledger[c]
      /\ DOMAIN ledger'[c] = DOMAIN ledger[c] \cup {Len(ledger[c]) + 1}
      /\ ledger'[c][Len(ledger[c]) + 1] = e
      /\ \A i \in DOMAIN ledger[c] : ledger'[c][i] = ledger[c][i]
  BY <1>2
<1> QED
  BY <1>3, <1>4 DEF e

(* The entries of one type and source, after an append of that type and    *)
(* source and after any other.                                             *)
LEMMA AppendedEntries ==
  ASSUME TypeOK, NEW c \in Children, NEW entry_type, NEW amount, NEW source,
         AppendLedgerEntry(c, entry_type, amount, source)
  PROVE  /\ Entries(c, entry_type, source)'
              = Entries(c, entry_type, source) \cup {Len(ledger[c]) + 1}
         /\ \A d \in Children : \A ty, src :
              ~(d = c /\ ty = entry_type /\ src = source)
                => Entries(d, ty, src)' = Entries(d, ty, src)
         /\ \A d \in Children : \A ty, src : \A i \in Entries(d, ty, src) :
              ledger'[d][i] = ledger[d][i]
<1> DEFINE n == Len(ledger[c]) + 1
<1>1. /\ n \notin DOMAIN ledger[c]
      /\ DOMAIN ledger'[c] = DOMAIN ledger[c] \cup {n}
      /\ ledger'[c][n].entry_type = entry_type /\ ledger'[c][n].source = source
      /\ \A i \in DOMAIN ledger[c] : ledger'[c][i] = ledger[c][i]
      /\ \A d \in Children : d # c => ledger'[d] = ledger[d]
  <2> DEFINE e == NewEntry(entry_type, amount, source, GetBalance(ledger[c]))
  <2>1. e.entry_type = entry_type /\ e.source = source
    BY DEF NewEntry
  <2> HIDE DEF e
  <2>2. /\ n \notin DOMAIN ledger[c]
        /\ DOMAIN ledger'[c] = DOMAIN ledger[c] \cup {n}
        /\ ledger'[c][n] = e
        /\ \A i \in DOMAIN ledger[c] : ledger'[c][i] = ledger[c][i]
        /\ \A d \in Children : d # c => ledger'[d] = ledger[d]
    BY Appended DEF e
  <2> QED
    BY <2>1, <2>2
<1> HIDE DEF n
<1>2. Entries(c, entry_type, source)' = Entries(c, entry_type, source) \cup {n}
  BY <1>1 DEF Entries, EntriesOf
<1>3. ASSUME NEW d \in Children, NEW ty, NEW src,
             ~(d = c /\ ty = entry_type /\ src = source)
      PROVE  Entries(d, ty, src)' = Entries(d, ty, src)
  <2>1. CASE d # c
    BY <1>1, <2>1 DEF Entries, EntriesOf
  <2>2. CASE d = c
    <3>1. ~(ledger'[c][n].entry_type = ty /\ ledger'[c][n].source = src)
      BY <1>1, <1>3, <2>2
    <3> QED
      BY <1>1, <2>2, <3>1 DEF Entries, EntriesOf
  <2> QED
    BY <2>1, <2>2
<1>4. \A d \in Children : \A ty, src : \A i \in Entries(d, ty, src) :
        ledger'[d][i] = ledger[d][i]
  BY <1>1 DEF Entries, EntriesOf
<1> QED
  BY <1>2, <1>3, <1>4 DEF n

(* A task whose status changes without an entry was not, and is not,       *)
(* approved or undone.                                                     *)
LEMMA QuietTask ==
  ASSUME Books, TypeInv', NEW t \in TaskIds,
         tasks[t].status \notin {"approved", "undone"},
         tasks'[t].status \notin {"approved", "undone"},
         \A u \in TaskIds : u # t => tasks'[u] = tasks[u],
         UNCHANGED <<ledger, usage>>
  PROVE  Books'
<1>1. \A c, ty, src : Entries(c, ty, src)' = Entries(c, ty, src)
  BY DEF Entries, EntriesOf
<1>2. ApprovalsAudited'
  <2> SUFFICES ASSUME NEW c \in Children, NEW u \in TaskIds
      PROVE  LET Owns(statuses) == tasks'[u].status \in statuses /\ tasks'[u].child_id = c
             IN  /\ (Entries(c, "credit", u) # {}) <=> Owns({"approved", "undone"})
                 /\ (Entries(c, "reversal", u) # {}) <=> Owns({"undone"})
                 /\ \A entry_type \in {"credit", "reversal"} :
                      \A i, j \in Entries(c, entry_type, u) :
                        i = j /\ ledger[c][i].amount = tasks'[u].reward_minutes
    BY <1>1 DEF ApprovalsAudited
  <2>1. CASE u = t
    <3>1. Entries(c, "credit", u) = {} /\ Entries(c, "reversal", u) = {}
      BY <2>1 DEF Books, ApprovalsAudited
    <3> QED
      BY <2>1, <3>1
  <2>2. CASE u # t
    BY <2>2 DEF Books, ApprovalsAudited
  <2> QED
    BY <2>1, <2>2
<1>3. SessionsAudited' /\ SpendingNeverOverdraws' /\ CutOffExact'
  BY <1>1 DEF Books, SessionsAudited, SpendingNeverOverdraws, CutOffExact
<1> QED
  BY <1>2, <1>3 DEF Books

(* Sessions stay audited when an entry for a task is appended.             *)
LEMMA TaskEntryKeepsSessions ==
  ASSUME Books, NEW c \in Children, NEW entry_type \in {"credit", "reversal"},
         NEW amount, NEW t \in TaskIds,
         AppendLedgerEntry(c, entry_type, amount, t), usage' = usage
  PROVE  SessionsAudited' /\ SpendingNeverOverdraws' /\ CutOffExact'
<1>1. /\ \A d \in Children : \A s : Entries(d, "debit", s)' = Entries(d, "debit", s)
      /\ \A d \in Children : \A s : \A i \in Entries(d, "debit", s) :
           ledger'[d][i] = ledger[d][i]
  BY AppendedEntries DEF Books, TypeInv
<1>2. SessionsAudited'
  BY <1>1 DEF Books, SessionsAudited
<1>3. CutOffExact'
  BY <1>1 DEF Books, CutOffExact
<1>4. SpendingNeverOverdraws'
  <2> DEFINE n == Len(ledger[c]) + 1
  <2>1. /\ DOMAIN ledger'[c] = DOMAIN ledger[c] \cup {n}
        /\ ledger'[c][n].entry_type = entry_type
        /\ \A i \in DOMAIN ledger[c] : ledger'[c][i] = ledger[c][i]
        /\ \A d \in Children : d # c => ledger'[d] = ledger[d]
    <3> DEFINE e == NewEntry(entry_type, amount, t, GetBalance(ledger[c]))
    <3>1. e.entry_type = entry_type
      BY DEF NewEntry
    <3> HIDE DEF e
    <3>2. /\ DOMAIN ledger'[c] = DOMAIN ledger[c] \cup {n}
          /\ ledger'[c][n] = e
          /\ \A i \in DOMAIN ledger[c] : ledger'[c][i] = ledger[c][i]
          /\ \A d \in Children : d # c => ledger'[d] = ledger[d]
      BY Appended DEF e, Books, TypeInv
    <3> QED
      BY <3>1, <3>2
  <2> HIDE DEF n
  <2>2. \A d \in Children : \A i \in DOMAIN ledger'[d] :
          ledger'[d][i].entry_type = "debit"
            => i \in DOMAIN ledger[d] /\ ledger'[d][i] = ledger[d][i]
    BY <2>1
  <2> QED
    BY <2>2 DEF Books, SpendingNeverOverdraws
<1> QED
  BY <1>2, <1>3, <1>4

(* The approval of a done task: its one credit.                            *)
LEMMA ApprovalBooked ==
  ASSUME Books, TypeInv', NEW t \in TaskIds, NEW c \in Children,
         tasks[t] \in Task, tasks[t].child_id = c,
         tasks[t].status = "done", SetStatus("approve", t),
         AppendLedgerEntry(c, "credit", tasks[t].reward_minutes, t),
         usage' = usage
  PROVE  Books'
<1> DEFINE n == Len(ledger[c]) + 1
           e == NewEntry("credit", tasks[t].reward_minutes, t, GetBalance(ledger[c]))
<1>1. /\ tasks'[t].status = "approved" /\ tasks'[t].child_id = c
      /\ tasks'[t].reward_minutes = tasks[t].reward_minutes
      /\ \A u \in TaskIds : u # t => tasks'[u] = tasks[u]
  <2>1. NewStatus("approve") = "approved"
    BY DEF NewStatus
  <2> QED
    BY <2>1 DEF SetStatus, Task, Books, TypeInv, TypeOK
<1>2. SessionsAudited' /\ SpendingNeverOverdraws' /\ CutOffExact'
  BY TaskEntryKeepsSessions
<1>3. /\ Entries(c, "credit", t)' = Entries(c, "credit", t) \cup {n}
      /\ \A d \in Children : \A ty, src :
           ~(d = c /\ ty = "credit" /\ src = t)
             => Entries(d, ty, src)' = Entries(d, ty, src)
      /\ \A d \in Children : \A ty, src : \A i \in Entries(d, ty, src) :
           ledger'[d][i] = ledger[d][i]
  BY AppendedEntries DEF Books, TypeInv
<1>4. ledger'[c][n].amount = tasks[t].reward_minutes
  <2>1. e.amount = tasks[t].reward_minutes
    BY DEF NewEntry
  <2>2. ledger'[c][n] = e
    BY Appended DEF Books, TypeInv
  <2> QED
    BY <2>1, <2>2
<1>5. \A d \in Children, ty \in {"credit", "reversal"} : Entries(d, ty, t) = {}
  BY DEF Books, ApprovalsAudited
<1> HIDE DEF n
<1>6. ApprovalsAudited'
  <2> SUFFICES ASSUME NEW d \in Children, NEW u \in TaskIds
      PROVE  LET Owns(statuses) == tasks'[u].status \in statuses /\ tasks'[u].child_id = d
             IN  /\ (Entries(d, "credit", u)' # {}) <=> Owns({"approved", "undone"})
                 /\ (Entries(d, "reversal", u)' # {}) <=> Owns({"undone"})
                 /\ \A entry_type \in {"credit", "reversal"} :
                      \A i, j \in Entries(d, entry_type, u)' :
                        i = j /\ ledger'[d][i].amount = tasks'[u].reward_minutes
    BY DEF ApprovalsAudited
  <2>1. CASE u = t
    <3>1. Entries(d, "reversal", t)' = {}
      BY <1>3, <1>5
    <3>2. CASE d = c
      <4>1. Entries(d, "credit", t)' = {n}
        BY <1>3, <1>5, <3>2
      <4> QED
        BY <1>1, <1>4, <2>1, <3>1, <3>2, <4>1
    <3>3. CASE d # c
      <4>1. Entries(d, "credit", t)' = {}
        BY <1>3, <1>5, <3>3
      <4> QED
        BY <1>1, <2>1, <3>1, <3>3, <4>1
    <3> QED
      BY <3>2, <3>3
  <2>2. CASE u # t
    BY <1>1, <1>3, <2>2 DEF Books, ApprovalsAudited
  <2> QED
    BY <2>1, <2>2
<1> QED
  BY <1>2, <1>6 DEF Books

(* The undoing of an approval: the one reversal of its credit.             *)
LEMMA UndoBooked ==
  ASSUME Books, TypeInv', NEW t \in TaskIds, NEW c \in Children,
         tasks[t] \in Task, tasks[t].child_id = c,
         tasks[t].status = "approved", SetStatus("undo", t),
         AppendLedgerEntry(c, "reversal", tasks[t].reward_minutes, t),
         usage' = usage
  PROVE  Books'
<1> DEFINE n == Len(ledger[c]) + 1
           e == NewEntry("reversal", tasks[t].reward_minutes, t, GetBalance(ledger[c]))
<1>1. /\ tasks'[t].status = "undone" /\ tasks'[t].child_id = c
      /\ tasks'[t].reward_minutes = tasks[t].reward_minutes
      /\ \A u \in TaskIds : u # t => tasks'[u] = tasks[u]
  <2>1. NewStatus("undo") = "undone"
    BY DEF NewStatus
  <2> QED
    BY <2>1 DEF SetStatus, Task, Books, TypeInv, TypeOK
<1>2. SessionsAudited' /\ SpendingNeverOverdraws' /\ CutOffExact'
  BY TaskEntryKeepsSessions
<1>3. /\ Entries(c, "reversal", t)' = Entries(c, "reversal", t) \cup {n}
      /\ \A d \in Children : \A ty, src :
           ~(d = c /\ ty = "reversal" /\ src = t)
             => Entries(d, ty, src)' = Entries(d, ty, src)
      /\ \A d \in Children : \A ty, src : \A i \in Entries(d, ty, src) :
           ledger'[d][i] = ledger[d][i]
  BY AppendedEntries DEF Books, TypeInv
<1>4. ledger'[c][n].amount = tasks[t].reward_minutes
  <2>1. e.amount = tasks[t].reward_minutes
    BY DEF NewEntry
  <2>2. ledger'[c][n] = e
    BY Appended DEF Books, TypeInv
  <2> QED
    BY <2>1, <2>2
<1>5. /\ \A d \in Children : Entries(d, "reversal", t) = {}
      /\ \A d \in Children : (Entries(d, "credit", t) # {}) <=> d = c
      /\ \A d \in Children : \A i, j \in Entries(d, "credit", t) :
           i = j /\ ledger[d][i].amount = tasks[t].reward_minutes
  BY DEF Books, ApprovalsAudited
<1> HIDE DEF n
<1>6. ApprovalsAudited'
  <2> SUFFICES ASSUME NEW d \in Children, NEW u \in TaskIds
      PROVE  LET Owns(statuses) == tasks'[u].status \in statuses /\ tasks'[u].child_id = d
             IN  /\ (Entries(d, "credit", u)' # {}) <=> Owns({"approved", "undone"})
                 /\ (Entries(d, "reversal", u)' # {}) <=> Owns({"undone"})
                 /\ \A entry_type \in {"credit", "reversal"} :
                      \A i, j \in Entries(d, entry_type, u)' :
                        i = j /\ ledger'[d][i].amount = tasks'[u].reward_minutes
    BY DEF ApprovalsAudited
  <2>1. CASE u = t
    <3>1. /\ Entries(d, "credit", t)' = Entries(d, "credit", t)
          /\ \A i \in Entries(d, "credit", t) : ledger'[d][i] = ledger[d][i]
      BY <1>3
    <3>2. CASE d = c
      <4>1. Entries(d, "reversal", t)' = {n}
        BY <1>3, <1>5, <3>2
      <4> QED
        BY <1>1, <1>4, <1>5, <2>1, <3>1, <3>2, <4>1
    <3>3. CASE d # c
      <4>1. Entries(d, "reversal", t)' = {}
        BY <1>3, <1>5, <3>3
      <4> QED
        BY <1>1, <1>5, <2>1, <3>1, <3>3, <4>1
    <3> QED
      BY <3>2, <3>3
  <2>2. CASE u # t
    BY <1>1, <1>3, <2>2 DEF Books, ApprovalsAudited
  <2> QED
    BY <2>1, <2>2
<1> QED
  BY <1>2, <1>6 DEF Books

(* A new session: its row and, if minutes are covered, its one debit.      *)
LEMMA SessionBooked ==
  ASSUME Books, TypeInv', ProcessSession,
         NEW c \in Children, NEW s \in Sessions, c = Head(batch)[1], s = Head(batch)[2]
  PROVE  Books'
<1> DEFINE b == GetBalance(ledger[c])
           row == CoverSession(s, b)
           m == row.minutes_covered
           n == Len(ledger[c]) + 1
<1>1. batch # <<>>
  BY DEF ProcessSession
<1>2. EndsAfterStart(s)
  BY <1>1, HeadOfBatch DEF Books
<1>3. /\ usage[c][s] = NoRow
      /\ usage' = [usage EXCEPT ![c][s] = row]
      /\ m > 0 => AppendLedgerEntry(c, "debit", m, s)
      /\ ~(m > 0) => ledger' = ledger
      /\ tasks' = tasks
  BY DEF ProcessSession, Recorded
<1>4. b \in Int
  BY <1>2, BalanceType DEF Books, TypeInv, TypeOK
<1>5. /\ usage'[c][s] = row
      /\ \A d \in Children, r \in Sessions : ~(d = c /\ r = s) => usage'[d][r] = usage[d][r]
  BY <1>2, <1>3 DEF Books, TypeInv, TypeOK
<1> HIDE DEF b
<1>6. /\ row \in UsageSession
      /\ row.status = "processed" <=> m > 0
      /\ m > 0 => m <= b
      /\ m > 0 /\ row.balance_exhausted_at = NoTime => m = DurationMinutes(s)
      /\ m > 0 /\ row.balance_exhausted_at # NoTime
           => s.start < row.balance_exhausted_at /\ row.balance_exhausted_at < s.end /\ m = b
  BY <1>2, <1>4, CoverSessionRow
<1>7. \A i, j \in Entries(c, "debit", s) : FALSE
  <2>1. usage[c][s].status # "processed"
    BY <1>3 DEF NoRow
  <2> QED
    BY <1>2, <2>1 DEF Books, SessionsAudited
<1> HIDE DEF row
<1>8. CASE m > 0
  <2> DEFINE e == NewEntry("debit", m, s, b)
  <2>1. AppendLedgerEntry(c, "debit", m, s)
    BY <1>3, <1>8
  <2>2. e.entry_type = "debit" /\ e.amount = m /\ e.balance_after = b - m
    BY <1>4, <1>6 DEF NewEntry, SignedAmount, UsageSession
  <2> HIDE DEF e, m
  <2>3. /\ DOMAIN ledger'[c] = DOMAIN ledger[c] \cup {n}
        /\ ledger'[c][n] = e
        /\ \A i \in DOMAIN ledger[c] : ledger'[c][i] = ledger[c][i]
        /\ \A d \in Children : d # c => ledger'[d] = ledger[d]
    BY <1>2, <2>1, Appended DEF Books, TypeInv, e, b
  <2>4. /\ Entries(c, "debit", s)' = Entries(c, "debit", s) \cup {n}
        /\ \A d \in Children : \A ty, src :
             ~(d = c /\ ty = "debit" /\ src = s) => Entries(d, ty, src)' = Entries(d, ty, src)
        /\ \A d \in Children : \A ty, src : \A i \in Entries(d, ty, src) :
             ledger'[d][i] = ledger[d][i]
    BY <1>2, <2>1, AppendedEntries DEF Books, TypeInv
  <2> HIDE DEF n
  <2>5. Entries(c, "debit", s)' = {n}
    BY <1>7, <2>4
  <2>6. ApprovalsAudited'
    <3>1. \A d \in Children, t \in TaskIds, ty \in {"credit", "reversal"} :
            Entries(d, ty, t)' = Entries(d, ty, t)
      BY <2>4
    <3>2. \A d \in Children, t \in TaskIds, ty \in {"credit", "reversal"} :
            \A i \in Entries(d, ty, t) : ledger'[d][i] = ledger[d][i]
      BY <2>4
    <3> QED
      BY <1>3, <3>1, <3>2 DEF Books, ApprovalsAudited
  <2>7. SessionsAudited'
    <3> SUFFICES ASSUME NEW d \in Children, NEW r \in Sessions
        PROVE  /\ (Entries(d, "debit", r)' # {}) <=> (usage'[d][r].status = "processed")
               /\ \A i, j \in Entries(d, "debit", r)' :
                    i = j /\ ledger'[d][i].amount = usage'[d][r].minutes_covered
      BY DEF SessionsAudited
    <3>1. CASE d = c /\ r = s
      BY <1>5, <1>6, <1>8, <2>2, <2>3, <2>5, <3>1 DEF m
    <3>2. CASE ~(d = c /\ r = s)
      <4>1. usage'[d][r] = usage[d][r]
        BY <1>5, <3>2
      <4>2. Entries(d, "debit", r)' = Entries(d, "debit", r)
        BY <2>4, <3>2
      <4> QED
        BY <2>4, <4>1, <4>2 DEF Books, SessionsAudited
    <3> QED
      BY <3>1, <3>2
  <2>8. SpendingNeverOverdraws'
    <3>1. e.balance_after >= 0
      BY <1>4, <1>6, <1>8, <2>2 DEF m, UsageSession
    <3> QED
      BY <2>3, <3>1 DEF Books, SpendingNeverOverdraws
  <2>9. CutOffExact'
    <3> SUFFICES ASSUME NEW d \in Children, NEW r \in Sessions,
                        NEW i \in Entries(d, "debit", r)'
        PROVE  IF usage'[d][r].balance_exhausted_at = NoTime
               THEN usage'[d][r].minutes_covered = DurationMinutes(r)
               ELSE /\ r.start < usage'[d][r].balance_exhausted_at
                    /\ usage'[d][r].balance_exhausted_at < r.end
                    /\ ledger'[d][i].balance_after = 0
      BY DEF CutOffExact
    <3>1. CASE d = c /\ r = s
      <4>1. ledger'[d][i].balance_after = b - m
        BY <2>2, <2>3, <2>5, <3>1
      <4> QED
        BY <1>4, <1>5, <1>6, <1>8, <3>1, <4>1 DEF m
    <3>2. CASE ~(d = c /\ r = s)
      <4>1. usage'[d][r] = usage[d][r]
        BY <1>5, <3>2
      <4>2. i \in Entries(d, "debit", r) /\ ledger'[d][i] = ledger[d][i]
        BY <2>4, <3>2
      <4> QED
        BY <4>1, <4>2 DEF Books, CutOffExact
    <3> QED
      BY <3>1, <3>2
  <2> QED
    BY <2>6, <2>7, <2>8, <2>9 DEF Books
<1>9. CASE ~(m > 0)
  <2>1. \A d, ty, src : Entries(d, ty, src)' = Entries(d, ty, src)
    BY <1>3, <1>9 DEF Entries, EntriesOf
  <2>2. ledger' = ledger /\ tasks' = tasks
    BY <1>3, <1>9
  <2>3. ApprovalsAudited' /\ SpendingNeverOverdraws'
    BY <2>1, <2>2 DEF Books, ApprovalsAudited, SpendingNeverOverdraws
  <2> HIDE DEF m
  <2>4. SessionsAudited'
    <3> SUFFICES ASSUME NEW d \in Children, NEW r \in Sessions
        PROVE  /\ (Entries(d, "debit", r) # {}) <=> (usage'[d][r].status = "processed")
               /\ \A i, j \in Entries(d, "debit", r) :
                    i = j /\ ledger[d][i].amount = usage'[d][r].minutes_covered
      BY <2>1, <2>2 DEF SessionsAudited
    <3>1. CASE d = c /\ r = s
      BY <1>5, <1>6, <1>7, <1>9, <3>1
    <3>2. CASE ~(d = c /\ r = s)
      BY <1>5, <3>2 DEF Books, SessionsAudited
    <3> QED
      BY <3>1, <3>2
  <2>5. CutOffExact'
    <3> SUFFICES ASSUME NEW d \in Children, NEW r \in Sessions, NEW i \in Entries(d, "debit", r)
        PROVE  /\ usage'[d][r] = usage[d][r]
               /\ ledger'[d][i] = ledger[d][i]
      BY <2>1, <2>2 DEF Books, CutOffExact
    <3>1. ~(d = c /\ r = s)
      BY <1>7
    <3> QED
      BY <1>5, <2>2, <3>1
  <2> QED
    BY <2>3, <2>4, <2>5 DEF Books
<1> QED
  BY <1>8, <1>9

(* Nothing is booked before the first request.                             *)
LEMMA BooksInit == Init => Books
<1> SUFFICES ASSUME Init PROVE Books
  OBVIOUS
<1>1. \A c \in Children : \A ty, src : Entries(c, ty, src) = {}
  BY DEF Init, Entries, EntriesOf
<1>2. ApprovalsAudited
  BY <1>1 DEF Init, ApprovalsAudited, NoTask
<1>3. SessionsAudited
  BY <1>1 DEF Init, SessionsAudited, NoRow
<1>4. SpendingNeverOverdraws /\ CutOffExact
  BY <1>1 DEF Init, SpendingNeverOverdraws, CutOffExact
<1> QED
  BY <1>2, <1>3, <1>4, TypeInit DEF Books

(* Steps that leave the three tables alone leave the books alone.          *)
LEMMA TablesKeepBooks ==
  ASSUME Books, TypeInv', UNCHANGED tables
  PROVE  Books'
<1>1. \A c, ty, src : Entries(c, ty, src)' = Entries(c, ty, src)
  BY DEF Entries, EntriesOf, tables
<1> QED
  BY <1>1 DEF Books, tables, ApprovalsAudited, SessionsAudited,
              SpendingNeverOverdraws, CutOffExact

(* Every step keeps the books.                                             *)
LEMMA BooksStep == Books /\ [Next]_vars => Books'
<1> SUFFICES ASSUME Books, [Next]_vars PROVE Books'
  OBVIOUS
<1>0. TypeInv' /\ TypeOK
  BY TypeStep DEF Books, TypeInv
<1>1. ASSUME NEW user \in Users, NEW child \in Anyone, NEW m \in Rewards,
             NEW t \in TaskIds, CreateTask(user, child, m, t)
      PROVE  Books'
  <2>1. /\ tasks[t].status \notin {"approved", "undone"}
        /\ tasks'[t].status \notin {"approved", "undone"}
        /\ \A u \in TaskIds : u # t => tasks'[u] = tasks[u]
    BY <1>0, <1>1 DEF CreateTask, TypeOK, NoTask
  <2> QED
    BY <1>0, <1>1, <2>1, QuietTask DEF CreateTask
<1>2. ASSUME NEW op \in {"done", "reject"}, NEW user \in Users, NEW t \in TaskIds,
             TaskCode(op, user, tasks[t]) = 200, SetStatus(op, t),
             UNCHANGED <<ledger, usage>>
      PROVE  Books'
  <2>1. tasks[t] \in Task /\ tasks[t].status = AllowedFrom(op)
    BY <1>0, <1>2, TaskCodeFacts DEF TaskOps
  <2>2. AllowedFrom(op) \in {"pending", "done"} /\ NewStatus(op) \in {"done", "rejected"}
    BY DEF AllowedFrom, NewStatus
  <2>3. /\ tasks'[t].status = NewStatus(op)
        /\ \A u \in TaskIds : u # t => tasks'[u] = tasks[u]
    BY <1>0, <1>2, <2>1 DEF SetStatus, TypeOK, Task
  <2> QED
    BY <1>0, <1>2, <2>1, <2>2, <2>3, QuietTask
<1>3. ASSUME NEW user \in Users, NEW t \in TaskIds, MarkTaskDone(user, t)
      PROVE  Books'
  BY <1>2, <1>3 DEF MarkTaskDone
<1>4. ASSUME NEW user \in Users, NEW t \in TaskIds, RejectTask(user, t)
      PROVE  Books'
  BY <1>2, <1>4 DEF RejectTask
<1>5. ASSUME NEW user \in Users, NEW t \in TaskIds, ApproveTask(user, t)
      PROVE  Books'
  <2>1. tasks[t] \in Task /\ tasks[t].status = AllowedFrom("approve")
    BY <1>0, <1>5, TaskCodeFacts DEF ApproveTask, TaskOps
  <2>2. AllowedFrom("approve") = "done"
    BY DEF AllowedFrom
  <2>3. PICK c \in Children : tasks[t].child_id = c
    BY <2>1 DEF Task
  <2>4. /\ SetStatus("approve", t)
        /\ AppendLedgerEntry(c, "credit", tasks[t].reward_minutes, t)
        /\ usage' = usage
    BY <1>5, <2>3 DEF ApproveTask
  <2> QED
    BY <1>0, <2>1, <2>2, <2>3, <2>4, ApprovalBooked
<1>6. ASSUME NEW user \in Users, NEW t \in TaskIds, UndoApproval(user, t)
      PROVE  Books'
  <2>1. tasks[t] \in Task /\ tasks[t].status = AllowedFrom("undo")
    BY <1>0, <1>6, TaskCodeFacts DEF UndoApproval, TaskOps
  <2>2. AllowedFrom("undo") = "approved"
    BY DEF AllowedFrom
  <2>3. PICK c \in Children : tasks[t].child_id = c
    BY <2>1 DEF Task
  <2>4. /\ SetStatus("undo", t)
        /\ AppendLedgerEntry(c, "reversal", tasks[t].reward_minutes, t)
        /\ usage' = usage
    BY <1>6, <2>3 DEF UndoApproval
  <2> QED
    BY <1>0, <2>1, <2>2, <2>3, <2>4, UndoBooked
<1>7. ASSUME NEW user \in Users, Refusal(user)
      PROVE  Books'
  <2>1. UNCHANGED tables
    BY <1>7 DEF Refusal, Refuse
  <2> QED
    BY <1>0, <2>1, TablesKeepBooks
<1>8. ASSUME NEW user \in Users, NEW b \in Batches, ReportUsage(user, b)
      PROVE  Books'
  BY <1>0, <1>8, TablesKeepBooks DEF ReportUsage
<1>9. ASSUME NEW user \in Users, NEW child \in Anyone,
             ViewBalance(user, child) \/ ViewLedger(user, child)
      PROVE  Books'
  BY <1>0, <1>9, TablesKeepBooks DEF ViewBalance, ViewLedger
<1>10. ASSUME NEW user \in Users, Request(user)
       PROVE  Books'
  BY <1>1, <1>3, <1>4, <1>5, <1>6, <1>7, <1>8, <1>9, <1>10 DEF Request
<1>11. CASE Unauthenticated
  BY <1>0, <1>11, TablesKeepBooks DEF Unauthenticated, Refuse
<1>12. CASE DuplicateSession
  BY <1>0, <1>12, TablesKeepBooks DEF DuplicateSession
<1>13. CASE ProcessSession
  <2>1. PICK c \in Children, s \in Sessions : c = Head(batch)[1] /\ s = Head(batch)[2]
    <3>1. batch # <<>>
      BY <1>13 DEF ProcessSession
    <3> QED
      BY <3>1, HeadOfBatch DEF Books
  <2> QED
    BY <1>0, <1>13, <2>1, SessionBooked
<1>14. CASE UNCHANGED vars
  BY <1>0, <1>14, TablesKeepBooks DEF vars, tables
<1>15. CASE Health
  BY <1>0, <1>15, TablesKeepBooks DEF Health
<1> QED
  BY <1>10, <1>11, <1>12, <1>13, <1>14, <1>15 DEF Next

(* Every approval has exactly one credit, every undoing exactly one        *)
(* reversal, each of the task's reward, and no other task has any.         *)
THEOREM ApprovalsAlwaysAudited == Spec => []ApprovalsAudited
<1>1. Books => ApprovalsAudited
  BY DEF Books
<1> QED
  BY BooksInit, BooksStep, <1>1, PTL DEF Spec

(* Every processed session has exactly one debit, of the minutes it covers. *)
THEOREM SessionsAlwaysAudited == Spec => []SessionsAudited
<1>1. Books => SessionsAudited
  BY DEF Books
<1> QED
  BY BooksInit, BooksStep, <1>1, PTL DEF Spec

(* A debit never leaves a balance below zero.                              *)
THEOREM NeverOverdrawn == Spec => []SpendingNeverOverdraws
<1>1. Books => SpendingNeverOverdraws
  BY DEF Books
<1> QED
  BY BooksInit, BooksStep, <1>1, PTL DEF Spec

(* The instant a session is cut off lies inside it, and is reported        *)
(* exactly when the balance ran out there.                                 *)
THEOREM CutOffsExact == Spec => []CutOffExact
<1>1. Books => CutOffExact
  BY DEF Books
<1> QED
  BY BooksInit, BooksStep, <1>1, PTL DEF Spec

(* Whatever has been answered, the tables agree with each other: these are *)
(* the databases that ThreadedServer may start from.                       *)
THEOREM LeavesConsistent ==
  Spec => []Consistent([tasks |-> tasks, ledger |-> ledger, usage |-> usage])
<1>1. Books => Consistent([tasks |-> tasks, ledger |-> ledger, usage |-> usage])
  <2> SUFFICES ASSUME Books
               PROVE  Consistent([tasks |-> tasks, ledger |-> ledger, usage |-> usage])
    OBVIOUS
  <2>1. ASSUME NEW t \in TaskIds, tasks[t].status \in {"approved", "undone"}
        PROVE  /\ Entries(tasks[t].child_id, "credit", t) # {}
               /\ tasks[t].status = "undone" => Entries(tasks[t].child_id, "reversal", t) # {}
    <3>1. tasks[t] \in Task
      BY <2>1 DEF Books, TypeInv, TypeOK, NoTask
    <3>2. PICK c \in Children : tasks[t].child_id = c
      BY <3>1 DEF Task
    <3> QED
      BY <2>1, <3>2 DEF Books, ApprovalsAudited
  <2>2. ASSUME NEW c \in Children, NEW s \in Sessions
        PROVE  /\ usage[c][s].status = "processed" => Entries(c, "debit", s) # {}
               /\ \A i, j \in Entries(c, "debit", s) :
                    /\ i = j
                    /\ usage[c][s].status = "processed"
                    /\ ledger[c][i].amount = usage[c][s].minutes_covered
    BY DEF Books, SessionsAudited
  <2> QED
    BY <2>1, <2>2 DEF Consistent, Books, TypeInv, TypeOK, Entries
<1> QED
  BY BooksInit, BooksStep, <1>1, PTL DEF Spec

-----------------------------------------------------------------------------
(***************************************************************************)
(* The running balance, entry by entry.  That the last balance_after is    *)
(* the sum of all the amounts is proved in BalanceProofs.                  *)
(***************************************************************************)

(* Each entry continues from the balance the entry before it left.         *)
Chained ==
  \A c \in Children : \A i \in DOMAIN ledger[c] :
    ledger[c][i].balance_after =
      (IF i = 1 THEN 0 ELSE ledger[c][i - 1].balance_after)
        + SignedAmount(ledger[c][i].entry_type, ledger[c][i].amount)

(* append_ledger_entry continues the chain, for any entry it writes.       *)
LEMMA AppendChains ==
  ASSUME TypeOK, Chained, NEW c \in Children, NEW entry_type, NEW amount, NEW source,
         AppendLedgerEntry(c, entry_type, amount, source)
  PROVE  Chained'
<1> DEFINE n == Len(ledger[c]) + 1
           b == GetBalance(ledger[c])
           e == NewEntry(entry_type, amount, source, b)
<1>1. e.balance_after = b + SignedAmount(e.entry_type, e.amount)
  BY DEF NewEntry
<1> HIDE DEF e
<1>2. /\ n \notin DOMAIN ledger[c]
      /\ DOMAIN ledger'[c] = DOMAIN ledger[c] \cup {n}
      /\ ledger'[c][n] = e
      /\ \A i \in DOMAIN ledger[c] : ledger'[c][i] = ledger[c][i]
      /\ \A d \in Children : d # c => ledger'[d] = ledger[d]
  BY Appended DEF e
<1>3. ledger[c] \in Seq(LedgerEntry)
  BY DEF TypeOK
<1>4. ASSUME NEW i \in DOMAIN ledger'[c]
      PROVE  ledger'[c][i].balance_after =
               (IF i = 1 THEN 0 ELSE ledger'[c][i - 1].balance_after)
                 + SignedAmount(ledger'[c][i].entry_type, ledger'[c][i].amount)
  <2>1. CASE i = n
    <3>1. b = (IF n = 1 THEN 0 ELSE ledger'[c][n - 1].balance_after)
      <4>1. CASE ledger[c] = <<>>
        BY <1>3, <4>1 DEF GetBalance
      <4>2. CASE ledger[c] # <<>>
        <5>1. n # 1 /\ n - 1 = Len(ledger[c]) /\ n - 1 \in DOMAIN ledger[c]
          BY <1>3, <4>2
        <5>2. ledger'[c][n - 1] = ledger[c][Len(ledger[c])]
          BY <1>2, <5>1
        <5> QED
          BY <4>2, <5>1, <5>2 DEF GetBalance
      <4> QED
        BY <4>1, <4>2
    <3> HIDE DEF n, b
    <3> QED
      BY <1>1, <1>2, <2>1, <3>1
  <2>2. CASE i # n
    <3>1. i \in DOMAIN ledger[c] /\ ledger'[c][i] = ledger[c][i]
      BY <1>2, <2>2
    <3>2. i # 1 => i - 1 \in DOMAIN ledger[c] /\ ledger'[c][i - 1] = ledger[c][i - 1]
      BY <1>2, <1>3, <3>1
    <3> QED
      BY <3>1, <3>2 DEF Chained
  <2> QED
    BY <2>1, <2>2
<1> QED
  BY <1>2, <1>4 DEF Chained

(* Every step continues the chain.                                         *)
LEMMA ChainedStep == TypeInv /\ Chained /\ [Next]_vars => Chained'
<1> SUFFICES ASSUME TypeInv, Chained, [Next]_vars PROVE Chained'
  OBVIOUS
<1>1. CASE ledger' = ledger
  BY <1>1 DEF Chained
<1>2. ASSUME NEW user \in Users, NEW t \in TaskIds,
             ApproveTask(user, t) \/ UndoApproval(user, t)
      PROVE  Chained'
  <2>1. tasks[t] \in Task
    BY <1>2, TaskCodeFacts DEF ApproveTask, UndoApproval, TaskOps, TypeInv
  <2>2. PICK c \in Children : tasks[t].child_id = c
    BY <2>1 DEF Task
  <2>3. \E ty : AppendLedgerEntry(c, ty, tasks[t].reward_minutes, t)
    BY <1>2, <2>2 DEF ApproveTask, UndoApproval
  <2> QED
    BY <2>3, AppendChains DEF TypeInv
<1>3. CASE ProcessSession
  <2>1. PICK c \in Children : c = Head(batch)[1]
    BY <1>3, HeadOfBatch DEF ProcessSession
  <2>2. \/ \E m, s : AppendLedgerEntry(c, "debit", m, s)
        \/ ledger' = ledger
    BY <1>3, <2>1 DEF ProcessSession
  <2> QED
    BY <1>1, <2>2, AppendChains DEF TypeInv
<1>4. ASSUME NEW user \in Users, Request(user)
      PROVE  ledger' = ledger \/ \E t \in TaskIds : ApproveTask(user, t) \/ UndoApproval(user, t)
  <2>1. Refusal(user) => ledger' = ledger
    BY DEF Refusal, Refuse, tables
  <2> QED
    BY <1>4, <2>1 DEF Request, CreateTask, MarkTaskDone, RejectTask, ReportUsage,
                      ViewBalance, ViewLedger, tables
<1>5. Unauthenticated \/ Health \/ DuplicateSession \/ UNCHANGED vars => ledger' = ledger
  BY DEF Unauthenticated, Refuse, Health, DuplicateSession, vars, tables
<1> QED
  BY <1>1, <1>2, <1>3, <1>4, <1>5 DEF Next

(* No entry ever skips, repeats or rewrites a balance: the chain is whole  *)
(* in every reachable state, however long the ledger.                      *)
THEOREM LedgerChained == Spec => []Chained
<1>1. Init => Chained
  BY DEF Init, Chained
<1> QED
  BY TypeInit, TypeStep, ChainedStep, <1>1, PTL DEF Spec

-----------------------------------------------------------------------------
(***************************************************************************)
(* What no step does.                                                      *)
(***************************************************************************)

(* The row of a session is written once, whether it was processed or       *)
(* rejected: a retry cannot replace the original result.                   *)
THEOREM OriginalResultStands == Spec => OriginalResultKept
<1>1. ASSUME TypeInv, [Next]_vars, NEW c \in Children, NEW s \in Sessions, usage[c][s] # NoRow
      PROVE  usage'[c][s] = usage[c][s]
  <2>1. CASE usage' = usage
    BY <2>1
  <2>2. CASE ProcessSession
    <3>1. PICK d \in Children, r \in Sessions : d = Head(batch)[1] /\ r = Head(batch)[2]
      BY <1>1, <2>2, HeadOfBatch DEF ProcessSession
    <3>2. usage[d][r] = NoRow /\ \E row : usage' = [usage EXCEPT ![d][r] = row]
      BY <2>2, <3>1 DEF ProcessSession, Recorded
    <3> QED
      BY <1>1, <3>2 DEF TypeInv, TypeOK
  <2>3. ASSUME NEW user \in Users, Request(user)
        PROVE  usage' = usage
    <3>1. Refusal(user) => usage' = usage
      BY DEF Refusal, Refuse, tables
    <3> QED
      BY <2>3, <3>1 DEF Request, CreateTask, MarkTaskDone, ApproveTask, RejectTask,
                        UndoApproval, ReportUsage, ViewBalance, ViewLedger, tables
  <2>4. Unauthenticated \/ Health \/ DuplicateSession \/ UNCHANGED vars => usage' = usage
    BY DEF Unauthenticated, Refuse, Health, DuplicateSession, vars, tables
  <2> QED
    BY <1>1, <2>1, <2>2, <2>3, <2>4 DEF Next
<1>2. TypeInv /\ [Next]_vars =>
        [\A c \in Children, s \in Sessions :
           usage[c][s] # NoRow => usage'[c][s] = usage[c][s]]_vars
  BY <1>1
<1> QED
  BY TypeInit, TypeStep, <1>2, PTL DEF Spec, OriginalResultKept

(* What a turn of the loop takes off the batch is its first session.       *)
LEMMA OneLineLess ==
  ASSUME TypeInv, batch # <<>>, NEW child, NextSession(child)
  PROVE  ToSet(batch) \ ToSet(batch') \subseteq {Head(batch)}
<1>1. batch \in Seq(Children \X Sessions) /\ batch' = Tail(batch)
  BY DEF TypeInv, TypeOK, NextSession
<1>2. \A i \in DOMAIN batch : i = 1 \/ (i - 1 \in DOMAIN Tail(batch) /\ Tail(batch)[i - 1] = batch[i])
  BY <1>1
<1>3. Head(batch) = batch[1]
  BY <1>1
<1> QED
  BY <1>1, <1>2, <1>3 DEF ToSet

(* No session of an accepted batch is dropped: the loop goes to its end,   *)
(* past the duplicates, and what it has passed is in the table.            *)
THEOREM SessionsNeverDropped == Spec => NoSessionDropped
<1>1. ASSUME TypeInv, [Next]_vars, NEW line \in ToSet(batch) \ ToSet(batch')
      PROVE  usage'[line[1]][line[2]] # NoRow
  <2>1. batch # <<>> /\ batch' # batch
    BY <1>1 DEF ToSet
  <2>2. PICK child \in Children, s \in Sessions : child = Head(batch)[1] /\ s = Head(batch)[2]
    BY <1>1, <2>1, HeadOfBatch
  <2>3. DuplicateSession \/ ProcessSession
    <3>1. ~Idle /\ ~UNCHANGED vars
      BY <2>1 DEF Idle, vars
    <3>2. \A user \in Users : Refusal(user) => Idle
      BY DEF Refusal, Refuse
    <3>3. ASSUME NEW user \in Users, Request(user)
          PROVE  Idle
      <4>1. \A c, m, t : CreateTask(user, c, m, t) => Idle
        BY DEF CreateTask
      <4>2. \A t : (MarkTaskDone(user, t) \/ ApproveTask(user, t)
                   \/ RejectTask(user, t) \/ UndoApproval(user, t)) => Idle
        BY DEF MarkTaskDone, ApproveTask, RejectTask, UndoApproval
      <4>3. \A b : ReportUsage(user, b) => Idle
        BY DEF ReportUsage
      <4>4. \A c : ViewBalance(user, c) \/ ViewLedger(user, c) => Idle
        BY DEF ViewBalance, ViewLedger
      <4> QED
        BY <3>2, <3>3, <4>1, <4>2, <4>3, <4>4 DEF Request
    <3>4. Unauthenticated \/ Health => Idle
      BY DEF Unauthenticated, Refuse, Health
    <3> QED
      BY <1>1, <3>1, <3>3, <3>4 DEF Next
  <2>4. line = Head(batch)
    BY <1>1, <2>1, <2>3, OneLineLess DEF DuplicateSession, ProcessSession
  <2>5. CASE DuplicateSession
    BY <2>2, <2>4, <2>5 DEF DuplicateSession, Recorded, tables
  <2>6. CASE ProcessSession
    <3> DEFINE row == CoverSession(s, GetBalance(ledger[child]))
    <3>1. usage' = [usage EXCEPT ![child][s] = row]
      BY <2>2, <2>6 DEF ProcessSession
    <3>2. GetBalance(ledger[child]) \in Int /\ EndsAfterStart(s)
      BY <1>1, <2>1, <2>2, BalanceType, HeadOfBatch DEF TypeInv, TypeOK
    <3>3. row \in UsageSession
      BY <2>2, <3>2, CoverSessionRow
    <3> HIDE DEF row
    <3>4. row # NoRow
      BY <3>3 DEF UsageSession, NoRow
    <3>5. usage'[child][s] = row
      BY <1>1, <2>2, <3>1 DEF TypeInv, TypeOK
    <3>6. line[1] = child /\ line[2] = s
      BY <2>2, <2>4
    <3> QED
      BY <3>4, <3>5, <3>6
  <2> QED
    BY <2>3, <2>5, <2>6
<1>2. TypeInv /\ [Next]_vars =>
        [\A line \in ToSet(batch) \ ToSet(batch') : usage'[line[1]][line[2]] # NoRow]_vars
  BY <1>1
<1> QED
  BY TypeInit, TypeStep, <1>2, PTL DEF Spec, NoSessionDropped

(* A task belongs to the family of its child: create_task accepts no other *)
(* child, and neither column is ever updated.                              *)
AtHome ==
  \A t \in TaskIds :
    tasks[t] # NoTask => tasks[t].family_id = FamilyOf[tasks[t].child_id]

(* One task moves from status to status and keeps its other columns.       *)
LEMMA StatusSet ==
  ASSUME TypeInv, NEW op \in TaskOps, NEW user \in Users, NEW t \in TaskIds,
         TaskCode(op, user, tasks[t]) = 200, SetStatus(op, t)
  PROVE  /\ tasks[t] # NoTask
         /\ tasks'[t].family_id = tasks[t].family_id
         /\ tasks'[t].child_id = tasks[t].child_id
         /\ \A u \in TaskIds : u # t => tasks'[u] = tasks[u]
         /\ RoleOf[user] = ActorOf(op) /\ MayAct(op, user, tasks[t])
<1>1. /\ tasks[t] \in Task
      /\ RoleOf[user] = ActorOf(op) /\ MayAct(op, user, tasks[t])
  BY TaskCodeFacts DEF TypeInv
<1>2. tasks[t] # NoTask
  BY <1>1 DEF Task, NoTask, TaskStatus
<1> DEFINE new == NewStatus(op)
<1>3. tasks' = [tasks EXCEPT ![t].status = new]
  BY DEF SetStatus
<1> HIDE DEF new
<1> QED
  BY <1>1, <1>2, <1>3 DEF TypeInv, TypeOK, Task

(* Every step keeps tasks in their child's family.                         *)
LEMMA AtHomeStep == TypeInv /\ AtHome /\ [Next]_vars => AtHome'
<1> SUFFICES ASSUME TypeInv, AtHome, [Next]_vars PROVE AtHome'
  OBVIOUS
<1>1. CASE tasks' = tasks
  BY <1>1 DEF AtHome
<1>2. ASSUME NEW user \in Users, NEW child \in Anyone, NEW m \in Rewards,
             NEW t \in TaskIds, CreateTask(user, child, m, t)
      PROVE  AtHome'
  <2>1. FamilyOf[child] = FamilyOf[user]
    BY <1>2 DEF CreateTask, CreateCode
  <2> QED
    BY <1>2, <2>1 DEF CreateTask, AtHome, TypeInv, TypeOK
<1>3. ASSUME NEW op \in TaskOps, NEW user \in Users, NEW t \in TaskIds,
             TaskCode(op, user, tasks[t]) = 200, SetStatus(op, t)
      PROVE  AtHome'
  <2>1. /\ tasks[t] # NoTask
        /\ tasks'[t].family_id = tasks[t].family_id
        /\ tasks'[t].child_id = tasks[t].child_id
        /\ \A u \in TaskIds : u # t => tasks'[u] = tasks[u]
    BY <1>3, StatusSet
  <2> QED
    BY <2>1 DEF AtHome
<1>4. ASSUME NEW user \in Users, Request(user)
      PROVE  AtHome'
  <2>1. Refusal(user) => tasks' = tasks
    BY DEF Refusal, Refuse, tables
  <2>2. ASSUME NEW t \in TaskIds,
               \/ MarkTaskDone(user, t) \/ ApproveTask(user, t)
               \/ RejectTask(user, t) \/ UndoApproval(user, t)
        PROVE  AtHome'
    <3>1. \E op \in TaskOps : TaskCode(op, user, tasks[t]) = 200 /\ SetStatus(op, t)
      <4>1. MarkTaskDone(user, t) => TaskCode("done", user, tasks[t]) = 200 /\ SetStatus("done", t)
        BY DEF MarkTaskDone
      <4>2. ApproveTask(user, t) => TaskCode("approve", user, tasks[t]) = 200 /\ SetStatus("approve", t)
        BY DEF ApproveTask
      <4>3. RejectTask(user, t) => TaskCode("reject", user, tasks[t]) = 200 /\ SetStatus("reject", t)
        BY DEF RejectTask
      <4>4. UndoApproval(user, t) => TaskCode("undo", user, tasks[t]) = 200 /\ SetStatus("undo", t)
        BY DEF UndoApproval
      <4> QED
        BY <2>2, <4>1, <4>2, <4>3, <4>4 DEF TaskOps
    <3> QED
      BY <1>3, <3>1
  <2>3. ASSUME NEW b \in Batches, ReportUsage(user, b)
        PROVE  tasks' = tasks
    BY <2>3 DEF ReportUsage, tables
  <2>4. ASSUME NEW child \in Anyone, ViewBalance(user, child) \/ ViewLedger(user, child)
        PROVE  tasks' = tasks
    BY <2>4 DEF ViewBalance, ViewLedger, tables
  <2> QED
    BY <1>1, <1>2, <1>4, <2>1, <2>2, <2>3, <2>4 DEF Request
<1>5. Unauthenticated \/ Health \/ DuplicateSession \/ ProcessSession \/ UNCHANGED vars
        => tasks' = tasks
  BY DEF Unauthenticated, Refuse, Health, DuplicateSession, ProcessSession, vars, tables
<1> QED
  BY <1>1, <1>4, <1>5 DEF Next

(* What a step does to a task, and to a child's ledger and sessions.       *)
TaskAtHome(t) ==
  tasks'[t] # tasks[t] =>
    LET user == reply'.user
    IN  /\ tasks'[t].family_id = FamilyOf[user]
        /\ FamilyOf[tasks'[t].child_id] = FamilyOf[user]
        /\ RoleOf[user] = "child" => tasks'[t].child_id = user

ChildAtHome(c) ==
  /\ ledger'[c] # ledger[c] =>
       IF batch = <<>>
       THEN RoleOf[reply'.user] = "parent" /\ FamilyOf[reply'.user] = FamilyOf[c]
       ELSE Head(batch)[1] = c
  /\ usage'[c] # usage[c] => batch # <<>> /\ Head(batch)[1] = c

StepAtHome == (\A t \in TaskIds : TaskAtHome(t)) /\ (\A c \in Children : ChildAtHome(c))

(* A status change is by the task's child or by a parent of its family.    *)
LEMMA StatusAtHome ==
  ASSUME TypeInv, AtHome, NEW op \in TaskOps, NEW user \in Users, NEW t \in TaskIds,
         TaskCode(op, user, tasks[t]) = 200, SetStatus(op, t), reply'.user = user
  PROVE  /\ \A u \in TaskIds : TaskAtHome(u)
         /\ op # "done" => /\ RoleOf[user] = "parent"
                           /\ FamilyOf[tasks[t].child_id] = FamilyOf[user]
<1>1. /\ tasks[t] # NoTask
      /\ tasks'[t].family_id = tasks[t].family_id
      /\ tasks'[t].child_id = tasks[t].child_id
      /\ \A u \in TaskIds : u # t => tasks'[u] = tasks[u]
      /\ RoleOf[user] = ActorOf(op) /\ MayAct(op, user, tasks[t])
  BY StatusSet
<1>2. tasks[t].family_id = FamilyOf[tasks[t].child_id]
  BY <1>1 DEF AtHome
<1>3. CASE op = "done"
  BY <1>1, <1>2, <1>3 DEF MayAct, TaskAtHome
<1>4. CASE op # "done"
  <2>1. RoleOf[user] = "parent" /\ tasks[t].family_id = FamilyOf[user]
    BY <1>1, <1>4 DEF ActorOf, MayAct
  <2>2. FamilyOf[tasks[t].child_id] = FamilyOf[user] /\ RoleOf[user] # "child"
    BY <1>2, <2>1
  <2>3. TaskAtHome(t)
    BY <1>1, <2>1, <2>2 DEF TaskAtHome
  <2>4. \A u \in TaskIds : u # t => TaskAtHome(u)
    BY <1>1 DEF TaskAtHome
  <2> QED
    BY <2>1, <2>2, <2>3, <2>4
<1> QED
  BY <1>3, <1>4

(* No request changes a task, a balance or a session of another family,    *)
(* nor a child those of another child.                                     *)
THEOREM FamiliesIsolated == Spec => ActsWithinFamily
<1>1. ASSUME TypeInv, AtHome, Next
      PROVE  StepAtHome
  <2>1. CASE UNCHANGED tables
    BY <2>1 DEF StepAtHome, TaskAtHome, ChildAtHome, tables
  <2>2. ASSUME NEW user \in Users, NEW child \in Anyone, NEW m \in Rewards,
               NEW t \in TaskIds, CreateTask(user, child, m, t)
        PROVE  StepAtHome
    <3>1. /\ FamilyOf[child] = FamilyOf[user] /\ RoleOf[user] = "parent"
          /\ reply'.user = user /\ UNCHANGED <<ledger, usage>>
      BY <2>2 DEF CreateTask, CreateCode, Answer
    <3>2. /\ tasks'[t].family_id = FamilyOf[user] /\ tasks'[t].child_id = child
          /\ \A u \in TaskIds : u # t => tasks'[u] = tasks[u]
      BY <1>1, <2>2 DEF CreateTask, TypeInv, TypeOK
    <3> QED
      BY <3>1, <3>2 DEF StepAtHome, TaskAtHome, ChildAtHome
  <2>3. ASSUME NEW op \in TaskOps, NEW user \in Users, NEW t \in TaskIds,
               TaskCode(op, user, tasks[t]) = 200, SetStatus(op, t), reply'.user = user,
               UNCHANGED <<ledger, usage>>
        PROVE  StepAtHome
    BY <1>1, <2>3, StatusAtHome DEF StepAtHome, ChildAtHome
  <2>4. ASSUME NEW op \in {"approve", "undo"}, NEW user \in Users, NEW t \in TaskIds,
               TaskCode(op, user, tasks[t]) = 200, SetStatus(op, t), reply'.user = user,
               NEW c \in Children, tasks[t].child_id = c,
               \A d \in Children : d # c => ledger'[d] = ledger[d],
               usage' = usage, batch = <<>>
        PROVE  StepAtHome
    <3>1. /\ \A u \in TaskIds : TaskAtHome(u)
          /\ RoleOf[user] = "parent" /\ FamilyOf[c] = FamilyOf[user]
      BY <1>1, <2>4, StatusAtHome DEF TaskOps
    <3> QED
      BY <2>4, <3>1 DEF StepAtHome, ChildAtHome
  <2>5. ASSUME NEW user \in Users, NEW t \in TaskIds, MarkTaskDone(user, t)
        PROVE  StepAtHome
    BY <2>3, <2>5 DEF MarkTaskDone, Answer, TaskOps
  <2>6. ASSUME NEW user \in Users, NEW t \in TaskIds, RejectTask(user, t)
        PROVE  StepAtHome
    BY <2>3, <2>6 DEF RejectTask, Answer, TaskOps
  <2>7. ASSUME NEW user \in Users, NEW t \in TaskIds,
               ApproveTask(user, t) \/ UndoApproval(user, t)
        PROVE  StepAtHome
    <3>1. tasks[t] \in Task
      BY <1>1, <2>7, TaskCodeFacts DEF ApproveTask, UndoApproval, TaskOps, TypeInv
    <3>2. PICK c \in Children : tasks[t].child_id = c
      BY <3>1 DEF Task
    <3>3. /\ \E ty : AppendLedgerEntry(c, ty, tasks[t].reward_minutes, t)
          /\ reply'.user = user /\ usage' = usage /\ batch = <<>>
      BY <2>7, <3>2 DEF ApproveTask, UndoApproval, Answer, Report, Idle
    <3>4. \A d \in Children : d # c => ledger'[d] = ledger[d]
      BY <1>1, <3>3, Appended DEF TypeInv
    <3>5. \E op \in {"approve", "undo"} : TaskCode(op, user, tasks[t]) = 200 /\ SetStatus(op, t)
      BY <2>7 DEF ApproveTask, UndoApproval
    <3> QED
      BY <2>4, <3>2, <3>3, <3>4, <3>5
  <2>8. CASE ProcessSession
    <3>1. PICK c \in Children : c = Head(batch)[1]
      BY <1>1, <2>8, HeadOfBatch DEF ProcessSession
    <3>2. /\ batch # <<>> /\ tasks' = tasks
          /\ \E s, row : usage' = [usage EXCEPT ![c][s] = row]
          /\ \/ \E m, s : AppendLedgerEntry(c, "debit", m, s)
             \/ ledger' = ledger
      BY <2>8, <3>1 DEF ProcessSession
    <3>3. \A d \in Children : d # c => ledger'[d] = ledger[d] /\ usage'[d] = usage[d]
      <4>1. \A d \in Children : d # c => usage'[d] = usage[d]
        BY <1>1, <3>2 DEF TypeInv, TypeOK
      <4>2. \A d \in Children : d # c => ledger'[d] = ledger[d]
        BY <1>1, <3>2, Appended DEF TypeInv
      <4> QED
        BY <4>1, <4>2
    <3> QED
      BY <3>1, <3>2, <3>3 DEF StepAtHome, TaskAtHome, ChildAtHome
  <2>9. ASSUME NEW user \in Users, Request(user)
        PROVE  StepAtHome
    <3>1. Refusal(user) => UNCHANGED tables
      BY DEF Refusal, Refuse
    <3>2. \A b \in Batches : ReportUsage(user, b) => UNCHANGED tables
      BY DEF ReportUsage
    <3>3. \A child : ViewBalance(user, child) \/ ViewLedger(user, child) => UNCHANGED tables
      BY DEF ViewBalance, ViewLedger
    <3> QED
      BY <2>1, <2>2, <2>5, <2>6, <2>7, <2>9, <3>1, <3>2, <3>3 DEF Request
  <2>10. Unauthenticated \/ Health \/ DuplicateSession => UNCHANGED tables
    BY DEF Unauthenticated, Refuse, Health, DuplicateSession
  <2> QED
    BY <1>1, <2>1, <2>8, <2>9, <2>10 DEF Next
<1>2. TypeInv /\ AtHome /\ [Next]_vars => [StepAtHome]_vars
  BY <1>1
<1>3. Init => AtHome
  BY DEF Init, AtHome
<1>4. [][StepAtHome]_vars => ActsWithinFamily
  <2>1. [StepAtHome]_vars =>
          [/\ \A t \in TaskIds : tasks'[t] # tasks[t] =>
                LET user == reply'.user
                IN  /\ tasks'[t].family_id = FamilyOf[user]
                    /\ FamilyOf[tasks'[t].child_id] = FamilyOf[user]
                    /\ RoleOf[user] = "child" => tasks'[t].child_id = user
           /\ \A c \in Children :
                /\ ledger'[c] # ledger[c] =>
                     IF batch = <<>>
                     THEN RoleOf[reply'.user] = "parent" /\ FamilyOf[reply'.user] = FamilyOf[c]
                     ELSE Head(batch)[1] = c
                /\ usage'[c] # usage[c] => batch # <<>> /\ Head(batch)[1] = c]_vars
    BY DEF StepAtHome, TaskAtHome, ChildAtHome
  <2> QED
    BY <2>1, PTL DEF ActsWithinFamily
<1> QED
  BY TypeInit, TypeStep, AtHomeStep, <1>2, <1>3, <1>4, PTL DEF Spec

(* What a step may put into an answer.                                     *)
AnswerAtHome ==
  reply' # reply /\ reply'.op \in {"balance", "ledger", "undo"} /\ reply'.code = 200 =>
    \E c \in Children : /\ FamilyOf[c] = FamilyOf[reply'.user]
                        /\ RoleOf[reply'.user] = "child" => c = reply'.user
                        /\ reply'.balance = GetBalance(ledger'[c])

(* A view that is answered 200 is of a child of the viewer's family, and   *)
(* of that very child if a child asked.                                    *)
LEMMA ViewedAtHome ==
  ASSUME NEW user \in Users, NEW child, BalanceViewCode(user, child) = 200
  PROVE  /\ child \in Children
         /\ FamilyOf[child] = FamilyOf[user]
         /\ RoleOf[user] = "child" => child = user
<1>1. CASE RoleOf[user] = "child"
  BY <1>1 DEF BalanceViewCode, Children
<1>2. CASE RoleOf[user] # "child"
  BY <1>2 DEF BalanceViewCode
<1> QED
  BY <1>1, <1>2

(* No answer shows a user the balance of a child of another family, nor a  *)
(* child that of another child.                                            *)
THEOREM ViewsIsolated == Spec => ViewsWithinFamily
<1>1. ASSUME TypeInv, AtHome, Next
      PROVE  AnswerAtHome
  <2>1. CASE reply' = reply
    BY <2>1 DEF AnswerAtHome
  <2>2. CASE reply'.op \notin {"balance", "ledger", "undo"} \/ reply'.code # 200
    BY <2>2 DEF AnswerAtHome
  <2>3. ASSUME NEW op, NEW user, NEW code, Refuse(op, user, code)
        PROVE  AnswerAtHome
    <3>1. reply'.code = code /\ ~(200 >= 400)
      BY <2>3 DEF Refuse, Answer
    <3>2. reply'.code # 200
      BY <2>3, <3>1 DEF Refuse
    <3> QED
      BY <2>2, <3>2
  <2>4. ASSUME NEW user \in Users, NEW child \in Anyone,
               ViewBalance(user, child) \/ ViewLedger(user, child)
        PROVE  AnswerAtHome
    <3>1. BalanceViewCode(user, child) = 200
      <4>1. CASE ViewBalance(user, child)
        BY <4>1 DEF ViewBalance
      <4>2. CASE ViewLedger(user, child)
        BY <4>2 DEF ViewLedger, LedgerViewCode
      <4> QED
        BY <2>4, <4>1, <4>2
    <3>2. /\ child \in Children
          /\ FamilyOf[child] = FamilyOf[user]
          /\ RoleOf[user] = "child" => child = user
      BY <3>1, ViewedAtHome
    <3>3. /\ reply'.user = user
          /\ reply'.balance = GetBalance(ledger[child])
          /\ ledger' = ledger
      BY <2>4 DEF ViewBalance, ViewLedger, Report, tables
    <3> QED
      BY <3>2, <3>3 DEF AnswerAtHome
  <2>5. ASSUME NEW user \in Users, NEW t \in TaskIds, UndoApproval(user, t)
        PROVE  AnswerAtHome
    <3>1. TaskCode("undo", user, tasks[t]) = 200 /\ SetStatus("undo", t)
      BY <2>5 DEF UndoApproval
    <3>2. /\ reply'.user = user
          /\ reply'.balance = GetBalance(ledger'[tasks[t].child_id])
      BY <2>5 DEF UndoApproval, Report
    <3>3. RoleOf[user] = "parent" /\ FamilyOf[tasks[t].child_id] = FamilyOf[user]
      BY <1>1, <3>1, <3>2, StatusAtHome DEF TaskOps
    <3>4. tasks[t].child_id \in Children
      BY <1>1, <3>1, TaskCodeFacts DEF TypeInv, TaskOps, Task
    <3> QED
      BY <3>2, <3>3, <3>4 DEF AnswerAtHome
  <2>6. ASSUME NEW user \in Users, Request(user)
        PROVE  AnswerAtHome
    <3>1. Refusal(user) => AnswerAtHome
      BY <2>3 DEF Refusal
    <3>2. ASSUME NEW t \in TaskIds,
                 MarkTaskDone(user, t) \/ ApproveTask(user, t) \/ RejectTask(user, t)
          PROVE  AnswerAtHome
      BY <2>2, <3>2 DEF MarkTaskDone, ApproveTask, RejectTask, Answer
    <3>3. ASSUME NEW child \in Anyone, NEW m \in Rewards, NEW t \in TaskIds,
                 CreateTask(user, child, m, t)
          PROVE  AnswerAtHome
      BY <2>2, <3>3 DEF CreateTask, Answer
    <3>4. \A b \in Batches : ReportUsage(user, b) => AnswerAtHome
      BY <2>1 DEF ReportUsage
    <3> QED
      BY <2>4, <2>5, <2>6, <3>1, <3>2, <3>3, <3>4 DEF Request
  <2>7. \A child : NextSession(child) => AnswerAtHome
    BY <2>1, <2>2 DEF NextSession, Answer
  <2>8. CASE Unauthenticated
    BY <2>3, <2>8 DEF Unauthenticated
  <2>9. CASE Health
    BY <2>2, <2>9 DEF Health, Answer
  <2>10. CASE DuplicateSession \/ ProcessSession
    BY <2>7, <2>10 DEF DuplicateSession, ProcessSession
  <2> QED
    BY <1>1, <2>6, <2>8, <2>9, <2>10 DEF Next
<1>2. TypeInv /\ AtHome /\ [Next]_vars => [AnswerAtHome]_vars
  BY <1>1
<1>3. Init => AtHome
  BY DEF Init, AtHome
<1>4. [][AnswerAtHome]_vars => ViewsWithinFamily
  <2>1. [AnswerAtHome]_vars =>
          [LET user == reply'.user
           IN  reply' # reply /\ reply'.op \in {"balance", "ledger", "undo"} /\ reply'.code = 200 =>
                 \E c \in Children : /\ FamilyOf[c] = FamilyOf[user]
                                     /\ RoleOf[user] = "child" => c = user
                                     /\ reply'.balance = GetBalance(ledger'[c])]_vars
    BY DEF AnswerAtHome
  <2> QED
    BY <2>1, PTL DEF ViewsWithinFamily
<1> QED
  BY TypeInit, TypeStep, AtHomeStep, <1>2, <1>3, <1>4, PTL DEF Spec
=============================================================================
