----------------------------- MODULE RewardBank -----------------------------
(***************************************************************************)
(* RewardBank served by one handler at a time: the way the tests, the demo *)
(* and the simulators drive it through a TestClient, and what the server   *)
(* promises its clients.  An endpoint's whole handler is one action;       *)
(* POST /usage is the exception, its loop over the sessions of the batch   *)
(* takes one action per session because each is committed on its own.      *)
(***************************************************************************)
EXTENDS RewardBankData, FiniteSetsExt

CONSTANT Batches    \* the lists of sessions a POST /usage may carry

ASSUME BatchesAssumption == Batches \subseteq Seq(Sessions)

VARIABLES
  tasks,    \* the tasks table
  ledger,   \* the ledger table, the entries of each child in id order
  usage,    \* usage_sessions: for each child, the row of each session
  batch,    \* <<child, session>> pairs process_usage_batch has still to do
  reply     \* the last answer sent, with the balance and the audit in it

tables == <<tasks, ledger, usage>>
vars   == <<tasks, ledger, usage, batch, reply>>

Codes == {200, 201, 400, 401, 403, 404, 422, 500}

Ops == TaskOps \cup {"create", "usage", "balance", "ledger", "health", "none"}

Reply == [op : Ops,
          user : Users \cup {Stranger}, code : Codes,
          balance : Int, invariant_holds : BOOLEAN]

Init ==
  /\ tasks = [t \in TaskIds |-> NoTask]
  /\ ledger = [c \in Children |-> <<>>]
  /\ usage = [c \in Children |-> [s \in Sessions |-> NoRow]]
  /\ batch = <<>>
  /\ reply = [op |-> "none", user |-> Stranger, code |-> 200,
              balance |-> 0, invariant_holds |-> TRUE]

-----------------------------------------------------------------------------
Report(op, user, balance, invariant_holds) ==
  reply' = [op |-> op, user |-> user, code |-> 200,
            balance |-> balance, invariant_holds |-> invariant_holds]

Answer(op, user, code) ==
  reply' = [op |-> op, user |-> user, code |-> code,
            balance |-> 0, invariant_holds |-> TRUE]

(* The single handler is free: no batch is being processed.                *)
Idle == batch = <<>>

ProcessedOnly(child, s) ==               \* a bug: a rejection is tried again
  usage[child][s].status = "processed"

(* _find_existing_session: any row with the key, processed or rejected.     *)
Recorded(child, s) == usage[child][s] # NoRow

(* append_ledger_entry: read the balance, insert the entry, commit.  Its   *)
(* refusal of an amount that is not positive never happens: rewards and    *)
(* covered minutes are positive (LedgerEntry, TypeOK).                     *)
AppendLedgerEntry(child, entry_type, amount, source) ==
  ledger' = [ledger EXCEPT ![child] =
    Append(@, NewEntry(entry_type, amount, source, GetBalance(@)))]

SetStatus(op, t) == tasks' = [tasks EXCEPT ![t].status = NewStatus(op)]

CreateTask(user, child, reward, t) ==
  /\ Idle
  /\ CreateCode(user, child, reward) = 201
  /\ tasks[t] = NoTask
  /\ tasks' = [tasks EXCEPT ![t] =
       [child_id |-> child, family_id |-> FamilyOf[user],
        reward_minutes |-> reward, status |-> "pending"]]
  /\ Answer("create", user, 201)
  /\ UNCHANGED <<ledger, usage, batch>>

MarkTaskDone(user, t) ==
  /\ Idle
  /\ TaskCode("done", user, tasks[t]) = 200
  /\ SetStatus("done", t)
  /\ Answer("done", user, 200)
  /\ UNCHANGED <<ledger, usage, batch>>

ApproveTask(user, t) ==
  /\ Idle
  /\ TaskCode("approve", user, tasks[t]) = 200
  /\ SetStatus("approve", t)
  /\ AppendLedgerEntry(tasks[t].child_id, "credit", tasks[t].reward_minutes, t)
  /\ Answer("approve", user, 200)
  /\ UNCHANGED <<usage, batch>>

RejectTask(user, t) ==
  /\ Idle
  /\ TaskCode("reject", user, tasks[t]) = 200
  /\ SetStatus("reject", t)
  /\ Answer("reject", user, 200)
  /\ UNCHANGED <<ledger, usage, batch>>

(* The reversal is appended whatever the balance: it may become negative.  *)
UndoApproval(user, t) ==
  /\ Idle
  /\ TaskCode("undo", user, tasks[t]) = 200
  /\ SetStatus("undo", t)
  /\ AppendLedgerEntry(tasks[t].child_id, "reversal", tasks[t].reward_minutes, t)
  /\ Report("undo", user, GetBalance(ledger'[tasks[t].child_id]), TRUE)
  /\ UNCHANGED <<usage, batch>>

(* A request the handler turns down: only the answer.                      *)
Refuse(op, user, code) ==
  /\ Idle
  /\ code >= 400
  /\ Answer(op, user, code)
  /\ UNCHANGED <<tables, batch>>

-----------------------------------------------------------------------------
ReportUsage(user, sessions) ==
  /\ Idle
  /\ UsageCode(user, sessions) = 200
  /\ batch' = [i \in DOMAIN sessions |-> <<user, sessions[i]>>]
  /\ UNCHANGED <<tables, reply>>

StopsEarly(child) ==                     \* a bug: return inside the loop
  /\ batch' = <<>>
  /\ Answer("usage", child, 200)

(* The loop of process_usage_batch goes to the next session, or answers.   *)
NextSession(child) ==
  /\ batch' = Tail(batch)
  /\ IF Len(batch) = 1 THEN Answer("usage", child, 200) ELSE UNCHANGED reply

(* _process_single_session on a key the table already holds.               *)
DuplicateSession ==
  /\ batch # <<>>
  /\ LET child == Head(batch)[1]
         s     == Head(batch)[2]
     IN  /\ Recorded(child, s)
         /\ NextSession(child)
  /\ UNCHANGED tables

(* _process_single_session on a new key: the row, then its debit.          *)
ProcessSession ==
  /\ batch # <<>>
  /\ LET child == Head(batch)[1]
         s     == Head(batch)[2]
         row   == CoverSession(s, GetBalance(ledger[child]))
     IN  /\ ~Recorded(child, s)
         /\ usage' = [usage EXCEPT ![child][s] = row]
         /\ IF row.minutes_covered > 0
            THEN AppendLedgerEntry(child, "debit", row.minutes_covered, s)
            ELSE UNCHANGED ledger
         /\ NextSession(child)
  /\ UNCHANGED tasks

-----------------------------------------------------------------------------
ViewBalance(user, child) ==
  /\ Idle
  /\ BalanceViewCode(user, child) = 200
  /\ Report("balance", user, GetBalance(ledger[child]), TRUE)
  /\ UNCHANGED <<tables, batch>>

(* The audit: the last balance_after against the sum of all entries.       *)
ViewLedger(user, child) ==
  /\ Idle
  /\ LedgerViewCode(user, child) = 200
  /\ Report("ledger", user, GetBalance(ledger[child]),
            GetBalance(ledger[child]) = ComputeBalance(ledger[child]))
  /\ UNCHANGED <<tables, batch>>

-----------------------------------------------------------------------------
(* GET /health asks for no token and looks at no table.                    *)
Health ==
  /\ Idle
  /\ Answer("health", Stranger, 200)
  /\ UNCHANGED <<tables, batch>>

Anyone == Users \cup {Stranger}

Refusal(user) ==
  \/ \E child \in Anyone, m \in Rewards :
       Refuse("create", user, CreateCode(user, child, m))
  \/ \E op \in TaskOps, t \in TaskIds : Refuse(op, user, TaskCode(op, user, tasks[t]))
  \/ \E b \in Batches : Refuse("usage", user, UsageCode(user, b))
  \/ \E child \in Anyone : \/ Refuse("balance", user, BalanceViewCode(user, child))
                           \/ Refuse("ledger", user, LedgerViewCode(user, child))

Request(user) ==
  \/ \E child \in Anyone, m \in Rewards, t \in TaskIds : CreateTask(user, child, m, t)
  \/ \E t \in TaskIds : \/ MarkTaskDone(user, t)
                        \/ ApproveTask(user, t)
                        \/ RejectTask(user, t)
                        \/ UndoApproval(user, t)
  \/ \E b \in Batches : ReportUsage(user, b)
  \/ \E child \in Anyone : ViewBalance(user, child) \/ ViewLedger(user, child)
  \/ Refusal(user)

(* get_current_user finds no row for the token, or HTTPBearer no token: a  *)
(* stranger gets no further.                                               *)
Unauthenticated == \E code \in {401, NoHeaderCode} : Refuse("none", Stranger, code)

Next ==
  \/ \E user \in Users : Request(user)
  \/ Unauthenticated
  \/ Health
  \/ DuplicateSession
  \/ ProcessSession

Spec == Init /\ [][Next]_vars

-----------------------------------------------------------------------------
(***************************************************************************)
(* Properties.                                                             *)
(***************************************************************************)

(* Every variable has its type (the columns and CHECKs of the schema).     *)
TypeOK ==
  /\ tasks \in [TaskIds -> Task \cup {NoTask}]
  /\ ledger \in [Children -> Seq(LedgerEntry)]
  /\ usage \in [Children -> [Sessions -> UsageSession \cup {NoRow}]]
  /\ batch \in Seq(Children \X Sessions)
  /\ reply \in Reply

(* The positions of child's ledger entries of one type for one source.     *)
Entries(child, entry_type, source) == EntriesOf(ledger[child], entry_type, source)

(* The balance is provable: the balance_after of a child's last entry is   *)
(* the sum of the signed amounts of all of them (GET /ledger reports       *)
(* invariant_holds).                                                       *)
LedgerProvable ==
  \A c \in Children : GetBalance(ledger[c]) = ComputeBalance(ledger[c])

(* Tasks and ledger agree: a task has exactly one credit, for its child    *)
(* and its reward, from its approval on, and exactly one reversal of it    *)
(* when the approval has been undone; no other task has either.            *)
ApprovalsAudited ==
  \A c \in Children, t \in TaskIds :
    LET Owns(statuses) == tasks[t].status \in statuses /\ tasks[t].child_id = c
    IN  /\ (Entries(c, "credit", t) # {}) <=> Owns({"approved", "undone"})
        /\ (Entries(c, "reversal", t) # {}) <=> Owns({"undone"})
        /\ \A entry_type \in {"credit", "reversal"} :
             \A i, j \in Entries(c, entry_type, t) :
               i = j /\ ledger[c][i].amount = tasks[t].reward_minutes

(* Sessions and ledger agree: a processed session has exactly one debit,   *)
(* of the minutes it reports as covered; a rejected one has none.          *)
SessionsAudited ==
  \A c \in Children, s \in Sessions :
    /\ (Entries(c, "debit", s) # {}) <=> (usage[c][s].status = "processed")
    /\ \A i, j \in Entries(c, "debit", s) :
         i = j /\ ledger[c][i].amount = usage[c][s].minutes_covered

(* Using minutes never makes a debt: only a reversal takes the balance     *)
(* below zero, a debit stops at it.                                        *)
SpendingNeverOverdraws ==
  \A c \in Children : \A i \in DOMAIN ledger[c] :
    ledger[c][i].entry_type = "debit" => ledger[c][i].balance_after >= 0

(* A cut-off is reported exactly when the balance ran out mid-session: it  *)
(* lies strictly inside the session, its debit left nothing, and without   *)
(* one the whole session was paid for.                                     *)
CutOffExact ==
  \A c \in Children, s \in Sessions : \A i \in Entries(c, "debit", s) :
    LET row == usage[c][s]
    IN  IF row.balance_exhausted_at = NoTime
        THEN row.minutes_covered = DurationMinutes(s)
        ELSE /\ s.start < row.balance_exhausted_at
             /\ row.balance_exhausted_at < s.end
             /\ ledger[c][i].balance_after = 0

(* Only sessions that lie in time leave a row: one that ends before it     *)
(* starts, is no date, or cannot be compared is refused with its batch,    *)
(* wherever in the batch it stands.                                        *)
OnlyValidRecorded ==
  \A c \in Children, s \in Sessions :
    usage[c][s] # NoRow => EndsAfterStart(s) /\ s.spelled \in {"zulu", "offset"}

(* The balance is what the other two tables say it is: the rewards of the  *)
(* tasks standing approved less the minutes of the sessions covered.       *)
BalanceExplained ==
  \A c \in Children :
    LET Standing == {t \in TaskIds : tasks[t].status = "approved" /\ tasks[t].child_id = c}
        Covered  == {s \in Sessions : usage[c][s] # NoRow}
    IN  GetBalance(ledger[c]) = MapThenSumSet(LAMBDA t : tasks[t].reward_minutes, Standing)
                              - MapThenSumSet(LAMBDA s : usage[c][s].minutes_covered, Covered)

(* Families are isolated: what a request changes, a task or a balance,     *)
(* belongs to the family of the user who sent it; a child moves only its   *)
(* own tasks and only its own usage reports change its sessions.           *)
ActsWithinFamily ==
  [][/\ \A t \in TaskIds : tasks'[t] # tasks[t] =>
          LET user == reply'.user
          IN  /\ tasks'[t].family_id = FamilyOf[user]
              /\ FamilyOf[tasks'[t].child_id] = FamilyOf[user]
              /\ RoleOf[user] = "child" => tasks'[t].child_id = user
     /\ \A c \in Children :
          /\ ledger'[c] # ledger[c] =>
               IF batch = <<>>
               THEN RoleOf[reply'.user] = "parent" /\ FamilyOf[reply'.user] = FamilyOf[c]
               ELSE Head(batch)[1] = c
          /\ usage'[c] # usage[c] => batch # <<>> /\ Head(batch)[1] = c]_vars

(* Families are isolated in what they see, too: a balance that an answer   *)
(* carries is that of a child of the family of the user who asked, and of  *)
(* that very child if a child asked.                                       *)
ViewsWithinFamily ==
  [][LET user == reply'.user
     IN  reply' # reply /\ reply'.op \in {"balance", "ledger", "undo"} /\ reply'.code = 200 =>
           \E c \in Children : /\ FamilyOf[c] = FamilyOf[user]
                               /\ RoleOf[user] = "child" => c = user
                               /\ reply'.balance = GetBalance(ledger'[c])]_vars

(* A retry returns the original result: what was recorded for a session,   *)
(* rejections included, is never recorded anew.                            *)
OriginalResultKept ==
  [][\A c \in Children, s \in Sessions :
       usage[c][s] # NoRow => usage'[c][s] = usage[c][s]]_vars

(* No session of an accepted batch is dropped, whichever of the batch's    *)
(* other sessions are duplicates: it waits its turn until it is recorded.  *)
NoSessionDropped ==
  [][\A line \in ToSet(batch) \ ToSet(batch') : usage'[line[1]][line[2]] # NoRow]_vars
=============================================================================
