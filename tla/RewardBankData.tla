--------------------------- MODULE RewardBankData ---------------------------
(***************************************************************************)
(* The rows RewardBank stores and the pure calculations its services make  *)
(* on them: what an endpoint answers to whom, what a ledger entry does to  *)
(* the balance, how many minutes of a session the balance covers.  The     *)
(* serial server (RewardBank) and the threaded one (ThreadedServer) are    *)
(* both built from these definitions.                                      *)
(***************************************************************************)
EXTENDS Integers, Sequences, SequencesExt

(* How a report spells its two timestamps: with Z, with an offset, as text *)
(* that is no date, or one of them without a zone.  The first two parse to *)
(* the same instants.                                                      *)
Spellings == {"zulu", "offset", "malformed", "mixed"}

CONSTANTS
  Users,      \* the ids in the users table; no endpoint ever changes it
  Families,   \* the ids in the families table
  RoleOf,     \* users.role
  FamilyOf,   \* users.family_id
  Stranger,   \* a user id a request may name that is not in the table
  NoHeaderCode, \* what the installed FastAPI's HTTPBearer answers without a header
  TaskIds,    \* the uuids a task can be given
  Rewards,    \* the values of rewardMinutes a request may carry
  Sessions    \* the usage sessions a device may report

ASSUME UsersAssumption ==
  /\ RoleOf \in [Users -> {"parent", "child"}]
  /\ FamilyOf \in [Users -> Families]
  /\ Stranger \notin Users

ASSUME HeaderAssumption == NoHeaderCode \in {401, 403}

ASSUME InputsAssumption ==
  /\ Rewards \subseteq Int
  /\ Sessions \subseteq [app : STRING, start : Nat, end : Nat, spelled : Spellings]

Children == {u \in Users : RoleOf[u] = "child"}

(***************************************************************************)
(* Rows.  NoTask and NoRow stand for a SELECT that finds nothing.          *)
(***************************************************************************)
TaskStatus == {"pending", "done", "approved", "rejected", "undone"}

Task == [child_id : Children, family_id : Families,
         reward_minutes : Nat \ {0}, status : TaskStatus]

NoTask == [status |-> "absent"]

(* source is the id of the task, or the idempotency key's session, that    *)
(* the entry was written for; source_type follows from entry_type.         *)
LedgerEntry == [entry_type : {"credit", "debit", "reversal"},
                amount : Nat \ {0}, balance_after : Int,
                source : TaskIds \cup Sessions]

NoTime == -1

UsageSession == [status : {"processed", "rejected"}, minutes_covered : Nat,
                 balance_exhausted_at : Nat \cup {NoTime}]

NoRow == [status |-> "absent"]

(***************************************************************************)
(* Ledger service.                                                         *)
(***************************************************************************)
ReversalAdded(entry_type, amount) ==     \* a bug: only debits are subtracted
  IF entry_type = "debit" THEN -amount ELSE amount

SignedAmount(entry_type, amount) ==
  IF entry_type = "credit" THEN amount ELSE -amount

OldestBalance(entries) ==                \* a bug: ORDER BY id without DESC
  IF entries = <<>> THEN 0 ELSE entries[1].balance_after

GetBalance(entries) ==
  IF entries = <<>> THEN 0 ELSE entries[Len(entries)].balance_after

ComputeBalance(entries) ==
  FoldLeft(LAMBDA sum, e : sum + SignedAmount(e.entry_type, e.amount),
           0, entries)

(* The row append_ledger_entry inserts once it has read current_balance.   *)
NewEntry(entry_type, amount, source, current_balance) ==
  [entry_type |-> entry_type, amount |-> amount, source |-> source,
   balance_after |-> current_balance + SignedAmount(entry_type, amount)]

(* The positions of the entries of one type for one source.                *)
EntriesOf(entries, entry_type, source) ==
  {i \in DOMAIN entries : /\ entries[i].entry_type = entry_type
                          /\ entries[i].source = source}

(***************************************************************************)
(* Usage service.  Instants are seconds; durations are whole minutes,      *)
(* rounded up.                                                             *)
(***************************************************************************)
EndsAfterStart(s) == s.end > s.start

DurationMinutes(s) == (s.end - s.start + 59) \div 60

ExhaustedAt(s, minutes) == s.start + 60 * minutes

(* The two rows a session can get.                                         *)
ProcessedRow(s, minutes, cut) ==
  [status |-> "processed", minutes_covered |-> minutes,
   balance_exhausted_at |-> IF cut THEN ExhaustedAt(s, minutes) ELSE NoTime]

RejectedRow == [status |-> "rejected", minutes_covered |-> 0,
              balance_exhausted_at |-> NoTime]

Lesser(m, n) == IF m < n THEN m ELSE n

(* Bugs: a balance of zero is not rejected, a debt is not, the balance     *)
(* does not limit the coverage, every session is cut off.                  *)
ZeroProcessed(s, current_balance) ==
  IF current_balance < 0 THEN RejectedRow
  ELSE LET covered == Lesser(current_balance, DurationMinutes(s))
       IN  ProcessedRow(s, covered, covered < DurationMinutes(s))

DebtProcessed(s, current_balance) ==
  LET covered == Lesser(current_balance, DurationMinutes(s))
  IN  ProcessedRow(s, covered, covered < DurationMinutes(s))

FullyCovered(s, current_balance) ==
  IF current_balance <= 0 THEN RejectedRow ELSE ProcessedRow(s, DurationMinutes(s), FALSE)

AlwaysCut(s, current_balance) ==
  IF current_balance <= 0 THEN RejectedRow
  ELSE ProcessedRow(s, Lesser(current_balance, DurationMinutes(s)), TRUE)

(* The usage_sessions row written for s when current_balance is available. *)
CoverSession(s, current_balance) ==
  IF current_balance <= 0 THEN RejectedRow
  ELSE LET covered == Lesser(current_balance, DurationMinutes(s))
       IN  ProcessedRow(s, covered, covered < DurationMinutes(s))

(***************************************************************************)
(* What the endpoints answer.  Conditions are listed in the order in which *)
(* the code meets them: the role dependency, the request body, the service.*)
(***************************************************************************)
CreateCode(user, child, reward) ==
  IF RoleOf[user] # "parent" THEN 403
  ELSE IF reward <= 0 THEN 422
  ELSE IF child \in Children /\ FamilyOf[child] = FamilyOf[user] THEN 201
  ELSE 400

(* The four task transitions: who may ask, from which status, to which.    *)
TaskOps == {"done", "approve", "reject", "undo"}

ActorOf(op) == IF op = "done" THEN "child" ELSE "parent"

AllowedFrom(op) ==
  CASE op = "done" -> "pending"
    [] op = "undo" -> "approved"
    [] OTHER       -> "done"

NewStatus(op) ==
  CASE op = "done"    -> "done"
    [] op = "approve" -> "approved"
    [] op = "reject"  -> "rejected"
    [] OTHER          -> "undone"

AnyFamily(op, user, task) ==             \* a bug: no _verify_parent_family
  op = "done" => task.child_id = user

(* A child may move only its own task, a parent those of its family.       *)
MayAct(op, user, task) ==
  IF op = "done" THEN task.child_id = user ELSE task.family_id = FamilyOf[user]

AccessCode(op, user, task) ==
  IF RoleOf[user] # ActorOf(op) THEN 403
  ELSE IF task = NoTask THEN 404
  ELSE IF MayAct(op, user, task) THEN 200
  ELSE 403

AnyStatus(op, user, task) ==             \* a bug: allowed_from is not checked
  AccessCode(op, user, task)

TaskCode(op, user, task) ==
  IF AccessCode(op, user, task) = 200 /\ task.status # AllowedFrom(op)
  THEN 400
  ELSE AccessCode(op, user, task)

(* One turn of the validation loop of POST /usage: ValueError is caught,   *)
(* the TypeError of comparing a time with a zone and one without is not.   *)
SessionCode(s) ==
  CASE s.spelled = "malformed" -> 400
    [] s.spelled = "mixed"     -> 500
    [] OTHER                   -> IF EndsAfterStart(s) THEN 200 ELSE 400

FirstOnly(user, sessions) ==             \* a bug: break after the first session
  IF RoleOf[user] # "child" THEN 403
  ELSE IF sessions = <<>> THEN 400
  ELSE SessionCode(sessions[1])

(* POST /usage looks at every session of the batch before it processes     *)
(* one; the first that is not valid decides the answer.                    *)
UsageCode(user, sessions) ==
  LET Code(i) == SessionCode(sessions[i])
  IN  IF RoleOf[user] # "child" THEN 403
      ELSE IF sessions = <<>> THEN 400
      ELSE IF \A i \in DOMAIN sessions : Code(i) = 200 THEN 200
      ELSE IF \E i \in DOMAIN sessions : Code(i) = 500 /\ \A j \in 1..(i - 1) : Code(j) = 200
      THEN 500
      ELSE 400

AnyChild(user, child) ==                 \* a bug: a parent's child is not compared
  IF RoleOf[user] = "child" THEN (IF user = child THEN 200 ELSE 403)
  ELSE IF child \notin Children THEN 404
  ELSE 200

(* GET /children/{child_id}/balance, and /ledger, which is for parents.    *)
BalanceViewCode(user, child) ==
  IF RoleOf[user] = "child" THEN (IF user = child THEN 200 ELSE 403)
  ELSE IF child \notin Children THEN 404
  ELSE IF FamilyOf[child] = FamilyOf[user] THEN 200
  ELSE 403

LedgerViewCode(user, child) ==
  IF RoleOf[user] # "parent" THEN 403 ELSE BalanceViewCode(user, child)

-----------------------------------------------------------------------------
(* A database whose tables agree: every approval that stands or has been   *)
(* undone has its credit, every undoing its reversal, and every processed  *)
(* session its one debit.                                                  *)
Consistent(db) ==
  /\ db.tasks \in [TaskIds -> Task \cup {NoTask}]
  /\ db.ledger \in [Children -> Seq(LedgerEntry)]
  /\ db.usage \in [Children -> [Sessions -> UsageSession \cup {NoRow}]]
  /\ \A t \in TaskIds :
       LET Has(entry_type) == EntriesOf(db.ledger[db.tasks[t].child_id], entry_type, t) # {}
       IN  /\ db.tasks[t].status \in {"approved", "undone"} => Has("credit")
           /\ db.tasks[t].status = "undone" => Has("reversal")
  /\ \A c \in Children, s \in Sessions :
       LET Debits == EntriesOf(db.ledger[c], "debit", s)
       IN  /\ db.usage[c][s].status = "processed" => Debits # {}
           /\ \A i, j \in Debits :
                /\ i = j
                /\ db.usage[c][s].status = "processed"
                /\ db.ledger[c][i].amount = db.usage[c][s].minutes_covered
=============================================================================
