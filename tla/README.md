# RewardBank in TLA+

RewardBank (`src/`) is a FastAPI service in which children earn screen minutes
by doing tasks that their parents approve, and spend them on app sessions that
their devices report. Minutes live in an append-only ledger kept in an
in-memory SQLite database. This directory holds TLA+ models of the service,
TLC configurations that check them on small instances, and TLAPS proofs of what
holds for any number of users, tasks, sessions and ledger entries.

In one paragraph: handled **one request at a time**, the service keeps every
promise of its documents that we stated, and all of them that are safety
properties are proved. Handled **on a pool of threads**, as uvicorn serves it,
some promises survive (no session is debited twice, a refusal writes nothing, a
success is complete, a decision taken in quiet is final: proved for any number
of threads; every request is answered: checked) and seven do not; each of the
seven has a run that shows how. The two are tied together: for a client that waits for every answer,
as the demo, the simulators and the tests do, the threaded server **implements**
the serial one, and so has its invariants (both proved, for any such client).

## The system

| Component | Source | State | Operations |
|---|---|---|---|
| Ledger service | `app/services/ledger_service.py` | table `ledger`: per child, entries in id order with `amount` and `balance_after` | read the last `balance_after`; sum all signed amounts; append an entry (SELECT the balance, INSERT, commit) |
| Task service | `app/services/task_service.py` | table `tasks`: child, family, reward, status | create, mark done, approve (+ credit), reject, undo (+ reversal) |
| Usage service | `app/services/usage_service.py` | table `usage_sessions`: a row per idempotency key | process a batch: per session look the key up, cover it from the balance, insert the row, append the debit |
| Routes and request models | `app/routes/*.py`, `app/models.py` | none | decide 201/200/400/403/404/422 and call the services |
| Authentication | `app/auth.py` | table `users`, which nothing writes | token to user (401), role dependencies (403) |
| Database module | `app/db.py` | one connection per thread; schema, seed | `get_db`; `reset_db`, `init_db`, `close_db` at start-up and for scripts and tests |
| Application | `app/main.py` | none | start-up, `GET /health` |
| Simulators, demo, tests | `simulator/`, `demo.py`, `tests/` | ids of the tasks created | reset the database; send requests one after the other, to a live server or through a TestClient |

**How they interact.** A route authenticates, checks the role, and calls a
service with the connection of the thread it runs on. The task and usage
services call the ledger service after they have committed their own write:
an approval is two transactions, and so is a debited session. There is no
other communication: threads meet only in the database.

**What is hard.**

- The routes are `def`, so Starlette runs them on a pool of threads;
  `get_current_user` is `async` and runs on the event loop. Nothing in the code
  serialises two requests.
- Every check (status of a task, existing idempotency key, available balance)
  is a SELECT whose result is used after other statements, and other
  requests, have run.
- The connections share SQLite's cache (`cache=shared`). Shared-cache locks are
  per table and a conflict fails *at once* (`SQLITE_LOCKED`; the busy timeout
  does not apply). No service catches it, so the client gets a 500; Python's
  implicit `BEGIN` stays open on that thread's connection.
- Two multi-write operations may fail between their writes.
- A reward has no upper bound and SQLite's integers have one: the numbers fail
  at the second write of an approval, not at the first.
- A debt is possible (an approval is undone after its minutes were spent), so
  every calculation on the balance has a case below zero.

**What makes each component correct.** The ledger: the last `balance_after` is
the sum of the signed amounts, and each entry continues from the one before.
Tasks: one credit per approval and one reversal per undoing, of the right child
and reward, and only the family acts. Usage: one row and at most one debit per
session, debit and row agree, spending never makes a debt, the cut-off is where
the minutes ran out, a retry gets the original result. Routes: a refusal writes
nothing, a success is complete, every request is answered. The database module:
no dirty reads, no two writers, and no locks left behind.

## The modules

| Module | Models |
|---|---|
| `RewardBankData` | rows, the balance and coverage calculations, and what each endpoint answers to whom; shared by both servers |
| `RewardBank` | the serial server: one action per endpoint, one per session of a batch |
| `SharedCache` | SQLite's shared-cache locks and Python's implicit transactions (external: modelled from how `get_db` opens its connections) |
| `ThreadedServer` | the concurrent server: one action per SQL statement of each thread, on top of `SharedCache` |
| `OneAtATime` | the threaded server with a client that sends one request at a time and resets the database; the refinement of `RewardBank` |
| `MCRewardBank`, `MCThreadedServer`, `MCOneAtATime` | values for TLC; the last one holds the demo's and the simulators' scripts |
| `RewardBankDataProofs` | lemmas about the operators of `RewardBankData`, used for both servers |
| `RewardBankProofs`, `BalanceProofs` | theorems about `RewardBank`; the second those about sums, from the lemmas of `Sums` |
| `Sums` | what `ComputeBalance` returns for a ledger of any length and `MapThenSumSet` for a table of any size |
| `ThreadedServerProofs`, `ThreadedAuditProofs` | theorems about `ThreadedServer`: its types and locks and what answers mean; what an audit of its tables finds |
| `OneAtATimeProofs`, `RefinementProofs` | theorems about `OneAtATime`: what fails, and what stays open, for a client that waits; the server implements `RewardBank` for it and has its invariants |

Operators named as bugs (`OldestBalance`, `NoUniqueKey`, ...) are plausible
mistakes. No specification uses them; each has been substituted for the
definition it follows to see that a property notices it. `PROJECT.json` lists
which, with the source lines each definition translates.

### RewardBankData

`Task`, `LedgerEntry` and `UsageSession` are the columns that decide anything;
titles, descriptions, names and creation times are left out. A session is
`[app, start, end, spelled]` with instants in seconds. The child and the session
are the idempotency key, and since the code hashes the text of the timestamps,
how they are spelled is part of it: `zulu` and `offset` are the same instants
in two texts, `malformed` does not parse (400), `mixed` has a zone in one of the
two only, which Python refuses to compare (500). `DurationMinutes` rounds up as `_calculate_duration_minutes`
does; `CoverSession` is the middle of `_process_single_session` (reject at zero
or below, cover `min(balance, duration)`, cut off if that is less).
`CreateCode`, `TaskCode`, `UsageCode`, `BalanceViewCode` and `LedgerViewCode`
list the conditions in the order the code meets them: role, body, existence,
family, status.

### RewardBank

`tasks`, `ledger` and `usage` are the tables, `batch` the sessions a
`POST /usage` handler still has to process, `reply` the last answer, with the
balance and the audit result when it carries one. `CreateTask`, `MarkTaskDone`,
`ApproveTask`, `RejectTask`, `UndoApproval`, `ViewBalance` and `ViewLedger` are
whole handlers. `ReportUsage` starts a batch; `DuplicateSession` and
`ProcessSession` are one turn of its loop, separate because each session is
committed on its own. `Refuse` is any request that is turned down,
`Unauthenticated` one without a token or with nobody's, `Health` the endpoint
that needs none. `append_ledger_entry` refuses an amount that is not positive
(`app/services/ledger_service.py:62`); rewards and covered minutes are positive
(`TypeOK`), so that branch is never taken and has no action. Amounts are
unbounded integers in this module.

### SharedCache and ThreadedServer

The lock record holds who is inside a Python transaction (`begun`), who has a
SQLite transaction (`open`), the read locks, the one writer with its write
locks, and `pending`: a writer was refused because of a reader, and until that
is resolved nobody may start a transaction. A SELECT that finds a row holds its
read lock from `execute` to `fetchone` (`Execute`, then `Fetch`); a write holds
its lock to the commit. A refused write makes its connection the writer
nevertheless, because Python's `BEGIN` came first.

`job[w]` is the request thread `w` handles: the step it is at, the balance it
has read, the session row it has computed, what it has committed, its answer.
`Accept` is the arrival of a request, its authentication on the event loop and
the checks made before the handler's first statement (`DoorCode`): the token, the
role, the body, and that a child asks for its own balance. A request without a
bearer token is turned away by `HTTPBearer` before anything is read. Each later
action is one statement of the handler, with the Python code up to the next
statement; the SELECTs on `users` are statements like the others (`CheckChild`,
`CheckFamily`, `CheckAccess`), with their read lock on the connection of the
handler's thread, although nothing ever writes that table.
`LockedOut` is any statement refused by a lock: answer 500, leave the connection
as it is. `Overflow` is a number beyond `MaxInteger`: as a parameter of an
INSERT it raises after Python's `BEGIN`, which stays open; in a `SUM` it fails
the SELECT. `KeyTaken` is the `UNIQUE` violation of `usage_sessions`. `Expire` is
the pool's dropping an idle thread, whose connection closes.

Any idle thread may take a request. The pool prefers the one used last, so the
model has more behaviours than the pool; the seven counterexamples need only two
threads, both busy at the same time, which the pool runs as the model does.

### OneAtATime

The clients in the repository call `api()`, which returns when the answer is
there. `Send` takes the next line of a script when no request is being handled;
`Handle` is a step of the server, and records the answer when it is the last
one; `ResetDatabase` is `reset_db` and `init_db`, which leave `NewDatabase`. A script names tasks by the
order of their creation (`made`), as the scripts do with the ids they keep. A
line says which numbers the answer should show; a line of the free client has
several requests to choose from and says nothing. `line.covered` collects the
minutes covered in the results of a report, session by session, from the row
that was found or the one that was written, as the response does.

`Serial` is `RewardBank` under a refinement mapping. The serial server changes
the tables once per task or session; the threaded one commits a status or a
session row before its ledger entry. So what a handler has written is hidden
(`AbsTasks`, `AbsUsage`, `AbsLedger`) until its last commit (`Half`), and the
sessions it has still to do are `batch`. `reply` is assembled from the thread's
answer, so the refinement also says that status codes, balances and audits are
those of the serial server. A reset maps to an initial state of it.

## What is checked

| Run | Instance | Shows |
|---|---|---|
| `RewardBank` | the seeded family, a parent of another, 2 tasks, 4 sessions (one backwards, one that cannot be compared), batches of up to 3 with repetitions | the three tables agree with one another: `LedgerProvable`, `ApprovalsAudited`, `SessionsAudited`, `SpendingNeverOverdraws`, `CutOffExact`, `BalanceExplained`, `OriginalResultKept`; a batch is looked at to its end before any of it is processed (`OnlyValidRecorded`), and then none of it is left out (`NoSessionDropped`); nobody changes (`ActsWithinFamily`) or is shown (`ViewsWithinFamily`) what is another family's or, as a child, a sibling's |
| `Threads` | 3 threads, 3 requests out of 13, 2 starting databases | what survives concurrency: `Isolation`, `OneDebitPerSession`, `RefusalsWriteNothing`, `SuccessIsComplete`, `OnlyErrorsHoldLocks`, `ErrorFreeIsAudited` |
| `Answers` | 2 threads, 3 requests out of 7 kinds | `EveryRequestAnswered`: a refused statement fails instead of waiting, so no deadlock and no starvation. `SettledStays`: a task decided while nobody else was at work is not decided again, whatever comes later |
| `OneAtATime` | the demo, both simulators, with and without health probes, two free clients; 2 threads | `Implements`: the threaded server refines `RewardBank` for clients that wait. `AsScripted`: each answer has the scenario's numbers, every audit holds. `NothingLeftOpen`: a reset never meets an open transaction |
| `Overflows` | two free clients whose rewards overflow, each sending two or three requests of any kind after that; 2 threads | `FailuresTraced`: a handler fails only at a number that is too large, or behind the transaction that such a failure has left open on another thread's connection; locks and the `UNIQUE` key alone never fail a client that waits |

Seven runs end in a counterexample, each to one sentence of the documents:

| Run | Violates | What happens |
|---|---|---|
| `LostUpdate` | `LedgerProvable` (src/README.md:81) | two approvals read the same balance; the second entry's `balance_after` forgets the first reward, for good |
| `DoubleApprove` | `ApprovedOnce` (src/WRITEUP.md:22) | two approvals of one task both read `done`; the UPDATE does not repeat the check; two credits |
| `Overspend` | `NeverOverspent` (src/WRITEUP.md:29) | two sessions reported at once are both covered by the same minutes |
| `RetryFails` | `DuplicatesAnswered` (src/README.md:87) | a retry that overtakes the first copy's commit gets the `IntegrityError` as a 500 |
| `LostCredit` | `ApprovalCredits` (src/README.md:58) | the credit of an approval is refused by a lock after the status was committed |
| `FalseAlarm` | `AuditTruthful` (src/README.md:81) | an audit reads the last balance before and the sum after an approval commits: `invariantHolds` is false on a ledger that was sound throughout |
| `Outage` | `IdleServerServes` (src/README.md:124) | with no request in progress, a thread's connection is still the writer of an open transaction: other threads' writes are refused |

The `Outage` state does not heal by itself: the pool drops an idle thread only
when it starts another job, and while `pending` is set requests fail in
authentication, before they reach the pool.

`SettledStays` asks that the task was settled *while the server was quiet*, and
has to: a `done` that read `pending` before the approval puts the approved task
back to `done`, where it can be approved again. That is the race of
`DoubleApprove` with one more request.

src/WRITEUP.md:18 names a test, `test_parent_double_click_approve_idempotent`, that
is not in `tests/test_tasks.py`; the tests there send one request after the
other.

### Bounds and why they are enough

- *Sessions.* `Short` lasts 60 s and is charged one minute, `Long` 61 s and is
  charged two, `Bad` ends when it starts, `Mixed` cannot be compared. With rewards of two minutes
  every relation occurs: balance below, at and above the duration, zero and
  negative, cut off and not.
- *Rewards* `{0, 2}`: refused and granted. *Tasks*: two, so that a debt left
  by one undone approval meets the credit of another.
- *Families.* The seeded one, whose children are siblings, and a parent of another:
  a check of the family alone lets a sibling through, one of the role alone the
  foreign parent. `SYMMETRY` permutes the task ids and the two children; the
  run checks no liveness.
- *Batches* hold a session twice in a row (`<<Long, Short, Short>>`), in
  another order or again after an earlier batch, an invalid session behind a
  valid one, and nothing.
- The serial state space is finite without a bound on requests: a task id is
  used once, a session is recorded once, and statuses only move forward.
- *Threads.* `MaxRequests = 3` on three threads: races of two requests, and of
  two with a third that finds what they left behind. `SYMMETRY` permutes
  the threads; the run checks no liveness. `WithinBounds` caps the requests, and
  also admits no creation when the ids in `TaskIds` may run out.
- *Width.* SQLite's integers end at 2^63 - 1. `Threads` and `Answers` scale that
  to `MaxInteger = 4` and have rewards of 2 and, in `Threads`, 9: a reward too
  large for its own INSERT, a second credit that does not fit behind the first,
  and, after a lost update, entries that fit while their sum does not. `Overflows`
  scales it to 3, so that a second reward of 2 fails at its entry, after the
  status was committed, and one of 9 at its own INSERT; what follows such a
  failure is any request of the free client. Nothing depends on the scale except
  which sums are too large. The other runs set it out of reach.
- *Scripts.* The rewards, minutes and order of requests are those of the source,
  with `now` as minute 100. The free clients add what the scripts do not do:
  every request with and without the right to it, unknown and foreign ids, all
  kinds of sessions, before and after a reset. `MaxRequests` is out of reach.
- *Without a token.* `HTTPBearer` answers 403 or 401, which depends on the
  FastAPI installed (`tests/test_auth.py` accepts both): `NoHeaderCode`, 403 in
  the runs, either in the proofs. Wherever it is sent, such a request is the same.
- *Databases* are states the serial server reaches: empty; one task done and one
  approved with its credit; one pending and one approved; two tasks done. A concurrent race needs them as a start
  so that three requests are enough.
- Threaded runs stop after the last request, by `Expire` stuttering on an idle
  thread: no run switches deadlock checking off.

### Fairness

Only `ThreadedServer` needs any. It assumes weak fairness of each thread's next
statement: the operating system schedules runnable threads, and no statement
blocks. Nothing is assumed of clients, nor of the pool's dropping threads.

## What is proved

Everything below holds for every value of the constants that meets the
assumptions: `UsersAssumption` (roles and families are functions on users),
`HeaderAssumption` (a request without a token is answered 401 or 403),
`InputsAssumption` (rewards are integers, sessions records of natural instants),
`BatchesAssumption` (batches are sequences of sessions), and for the threaded
server `BoundsAssumption`, `MenuAssumption` and `DatabasesAssumption`. The last
two deserve a word. `MenuAssumption` says that a request has the fields the
routes and the request models give it, not that it is allowed or sensible: any
user, any child, any integer reward, any list of sessions.
`DatabasesAssumption` says that the tables agree at the start (`Consistent`);
`LeavesConsistent` proves that requests answered one after the other leave such
tables, so the threaded server may start from whatever the serial one left.
The client of `OneAtATime` has three more. `ScriptsAssumption`: scripts are
sequences of lines, and what they send is on the `Menu` (any set of well-formed
requests) whichever ids the tasks get. `MenuValuesAssumption`: rewards and lists
of sessions of the `Menu` are in `Rewards` and `Batches`, the names that
`RewardBank` has for them. `NewDatabaseAssumption`: the process starts with the
empty tables of `init_db`, because the database is in memory.

### The serial server

| Theorem | States |
|---|---|
| `TypeCorrect` | `Spec => []TypeOK` |
| `ApprovalsAlwaysAudited` | `Spec => []ApprovalsAudited` |
| `SessionsAlwaysAudited` | `Spec => []SessionsAudited` |
| `NeverOverdrawn` | `Spec => []SpendingNeverOverdraws` |
| `CutOffsExact` | `Spec => []CutOffExact` |
| `OnlyValidSessions` | `Spec => []OnlyValidRecorded` |
| `LedgerAlwaysProvable` | `Spec => []LedgerProvable` |
| `BalanceAlwaysExplained` | `Spec => []BalanceExplained` |
| `LedgerChained` | each `balance_after` is the preceding one plus the entry's signed amount |
| `AuditsHold` | `Spec => []AuditHolds`: `GET /ledger` never says `invariantHolds: false` |
| `LeavesConsistent` | `Spec => []Consistent(...)` of the three tables |
| `OriginalResultStands` | `Spec => OriginalResultKept` |
| `SessionsNeverDropped` | `Spec => NoSessionDropped` |
| `FamiliesIsolated` | `Spec => ActsWithinFamily` |
| `ViewsIsolated` | `Spec => ViewsWithinFamily` |

`TypeOK` is not inductive: `ProcessSession` would write a
non-positive duration for a session that ends before it starts. `TypeInv` adds
`BatchValid`, every session of a batch under way ends after it starts, which
holds because `report_usage_endpoint` looks at the whole batch before it
processes any of it. `Books` adds the four audits to `TypeInv`; they are
inductive together. `CoverSessionRow` collects what a covered session satisfies
(arithmetic over the rounded duration, `DurationBounds`); `Appended` and
`AppendedEntries` say that an append adds one position and disturbs no other
entry. With them the step splits by action: a status change without an
entry (`QuietTask`), an approval (`ApprovalBooked`: no entry existed, one does),
an undoing (`UndoBooked`), a session (`SessionBooked`), and steps that leave the
tables alone (`TablesKeepBooks`). `FamiliesIsolated` needs `AtHome`: a task is
of its child's family, because `create_task` accepts no other and neither column
is updated; without it an approval by a parent of the task's family could credit
a stranger. `ViewsIsolated` needs it too, because the answer to an undoing
carries the child's balance.

*Sums.* `ComputeBalance` and `MapThenSumSet` are folds, that is, recursive
functions given by CHOOSE. `Sums` proves that there is such a function on the
subsets of `1..n` for every `n` (`SumsExist`) and that any two agree
(`SumsAgree`), by induction on a *set* of numbers (`SetInduction`, from the
well-foundedness of `<` on `Nat`: the library's induction theorems need an
operator as a parameter, which the provers cannot instantiate). From that,
`BalanceOfAppend`: appending an entry adds its signed amount to the computed
balance. `LedgerProvable` is then inductive. For sums over a set of rows the
same is done by the size of the set (`TotalWith`, `TotalWithout`, `TotalSame`);
`BalanceInv` adds that only finitely many rows were ever written, without
which the sum would not be one.

### The threaded server

| Theorem | States |
|---|---|
| `TypesHold` | `Spec => []TypeOK` |
| `HandlersIsolated` | `Spec => []Isolation` |
| `ErrorsHoldLocks` | `Spec => []OnlyErrorsHoldLocks` |
| `NothingWrittenByRefusals` | `Spec => []RefusalsWriteNothing` |
| `SuccessesComplete` | `Spec => []SuccessIsComplete` |
| `SessionsDebitedOnce` | `Spec => []OneDebitPerSession` |
| `OnlyErrorsForget` | `Spec => []ErrorFreeIsAudited` |
| `DecisionsFinal` | `Spec => SettledStays` |

None of these is inductive alone, because what a thread may do next depends on
what it read or checked some statements ago, and other threads have run since.

- `TypeInv` says where each handler is and what it may still rely on there: a
  task it found is still there and has the child and reward it had, the child
  whose balance it shows is one its user may see, the row it computed is the row
  it recorded, each session it has passed is in the table.
  That survives the other threads because tables only grow: `Grows` says so of
  every step (`MoveKeepsTypes`), and it is all that a waiting handler needs
  (`OthersRun`).
- `LocksHeld`: a SELECT not yet fetched holds its read lock, a write not yet
  committed makes its connection the writer and keeps every reader off its
  table. Each statement is one of seven kinds (`MovesShape`) and each kind
  touches the locks in one way (`StatementsRespect`); isolation follows.
- `BegunByErrors`: outside a write and its commit a transaction is open only on
  a connection whose request was answered 500.
- `Promises`: once a handler has inserted its entry the entry is there, and it
  stays there until the answer and after it.
- `DebitsInv`: of the threads between a session's row and its debit there is
  one at most, and it finds no debit. `InsertSession` makes a thread that one
  (`PayersMove`), and it finds no row, hence no debit.
- `NothingForgotten`: a decided task or processed session has its entry, or a
  thread on its way to insert it, or some request has failed (`OwingMove`: the
  only way off that path is a failure).
- `Settled`: nobody who has rechecked the task is about to carry out an
  operation that its status does not allow. It holds when the server is quiet
  and is preserved from then on (`SettledStep`), so each part of `SettledStays`
  is an instance of it.

### The client that waits

| Theorem | States |
|---|---|
| `FailuresExplained` | `ClientSpec => FailuresTraced` |
| `ResetNeverRefused` | `ClientSpec /\ []Fits => []NothingLeftOpen` |
| `ServerImplements` | `ClientSpec /\ []Fits => Implements` |
| `BooksServed` | `ClientSpec /\ []Fits => []BooksBalance` |
| `LedgerAuditedAtRest` | `ClientSpec /\ []Fits => []AuditedAtRest` |

*The hypothesis.* `Fits` says that no statement meets a number beyond
`MaxInteger`. It is needed and not a matter of taste: an approval that takes the
balance beyond the width fails at its INSERT, after the status was committed
and inside a transaction that stays open, so the serial server's approval is not
what happened. The code checks no upper bound of a reward, so the
hypothesis cannot be derived. It is one about numbers only, and
`FailuresExplained`, which does not assume it, says that numbers are where all
failures of such a client begin: a handler that is answered 500 is at a number
beyond the width, or another connection is still inside a transaction, which
only an earlier failure can have left open.

*The inductive invariant*, `ClientInv`, has `TypeInv` of the threaded server and

- `Alone`: one handler runs at a time (`Send` waits for `Quiet`);
- `Sound`: what the one handler has read is still so and what it has written is
  what the serial server would write. A created row is the request's
  (`CreationFits`); a task that is about to be updated admits the operation and
  one that has been updated did (`TransitionFits`); no row has the session's
  key, and the row computed is the coverage from the current balance
  (`SessionFits`); the balance read is the current one, and after the INSERT the
  ledger ends with the entry computed from it (`BalanceFits`). A second
  client can make the last three false between two statements, which is what
  the counterexamples exploit.

`ClientInv` holds whatever the numbers are, because a failed handler is over.
About the locks there are two invariants. Under `Fits`, `LocksFollow`: a
connection is inside a transaction only between its write and its commit, or in
a SELECT not yet fetched, and no writer is pending. With `Alone` it gives that
nothing is ever refused (`NothingRefused`, `NothingFails`), which is why it is
inductive (`FollowStep`); and in a quiet state it says `NothingLeftOpen`
(`QuietNoLocks`). Without `Fits`, `LocksLeft`: the writer is inside a
transaction, nobody else keeps write locks or makes others wait, and outside a
transaction a connection reads only while it fetches (`LocksLeftStep`). So a
lock that refuses the only handler at work belongs to a transaction another
connection was left in; and the key is never taken, because the row was looked
for and nobody has written since (`SessionFits`).

*The refinement.* In a step of the handler the mapped variables either stay
(`GoesOnHidden`, `UpdateTaskHidden`, `InsertSessionHidden`, ...: between the first
write and the last commit, `HalfSteps`, the mapping takes the write back) or
change as one action of `RewardBank` does: a creation, a status change without
entry, a credit or reversal with its status (`CreditShown`), a session with or
without debit, a duplicate, a view, a refusal, a batch that begins. There is one
lemma for each; `HandleShown` puts them together, `SendShown` adds the answers
given before a handler starts, and `ResetShown` the reset, which maps to an
initial state. The two modules share `RewardBankData`, but `RewardBank` is
instantiated, so the first lemmas (`SameRows`, `SameLedger`, `SameCover`, ...)
say that its operators are the server's.

*The books.* `BalanceProofs` is instantiated under the same mapping, and the
inductive invariants of the serial server's theorems are carried over step by
step (`BankKept`), a reset included (`BankBeginsAnew`): so the tables the threaded
server has between two requests satisfy all of `RewardBank`'s invariants, and no
audit it answers fails. With two clients, `LostUpdate` and `FalseAlarm` refute
that.

**Only model-checked.** `EveryRequestAnswered` is liveness under fairness, out
of these provers' reach. `AsScripted` is about the
given scripts and their numbers, not about every value of a constant.

## What is not modelled

- The JSON form of requests, wording, titles, descriptions and creation times,
  and the scripts' printing.
- `set_db_uri`, which nothing calls. The database is in memory and nothing is
  persisted, so there is no crash recovery to model: a restart is a new
  database, which is what `ResetDatabase` leaves.
- Integer width in the serial server: it is a matter of single statements, and
  is modelled where there are statements.
- The test cases, apart from their fixture: they are sequences of requests of
  the kinds the free clients send.
- The refusal of a ledger amount that is not positive, which no caller can meet
  (see *RewardBank* above).
- uvicorn, Starlette and anyio, beyond threads that take requests and end.

## Plan

1. `RewardBankData`, `RewardBank`, its run, the type theorem and the
   audits. *Done.*
2. `SharedCache`, `ThreadedServer`, its runs and counterexamples. *Done.*
3. The refinement of `RewardBank` by `ThreadedServer` for clients that wait, with
   the scripts of the repository. *Done.*
4. The audit under concurrency, settled tasks, integer width, the spelling of
   sessions, the health endpoint, resets. *Done.*
5. Sums of any length, and with them the two theorems on the balance. *Done.*
6. Proofs about `ThreadedServer`: its types, `Isolation` from the lock
   operators, and every other invariant of its runs. *Done.*
7. For a client that waits: `NothingLeftOpen` from the locks of a single
   handler, the proof of the refinement, and through it the invariants of
   `RewardBank` for the threaded server. *Done.*
8. What views show and reports record, the SELECTs on `users` as statements,
   requests without a token, and failures of a client that waits traced to
   numbers. *Done.*
