----------------------------- MODULE OneAtATime -----------------------------
(***************************************************************************)
(* The threaded server with the clients this repository ships: the demo,   *)
(* the simulators and the tests send a request, wait for its answer and    *)
(* look at it before they send the next one.  Seen through such a client   *)
(* ThreadedServer, statement by statement, implements RewardBank.          *)
(***************************************************************************)
EXTENDS ThreadedServer

CONSTANTS
  Scripts,   \* the scripts: sequences of lines [send, shows]
  Batches    \* the lists of sessions in them

Resetting == [op |-> "reset"]

Lines == UNION {ToSet(lines) : lines \in Scripts}

(* What a script sends is on the Menu once its tasks have ids; a line may  *)
(* leave the choice among several requests.                                *)
ASSUME ScriptsAssumption ==
  /\ Scripts \subseteq Seq(Lines)
  /\ \A l \in Lines : \A q \in l.send \ {Resetting} :
       IF q.op \in TaskOps THEN \A t \in TaskIds : [q EXCEPT !.task = t] \in Menu
       ELSE q \in Menu

ASSUME BatchesAssumption == Batches \subseteq Seq(Sessions)

ASSUME MenuValuesAssumption ==
  \A q \in Menu : /\ q.op = "create" => q.reward \in Rewards
                  /\ q.op = "usage" => q.sessions \in Batches

(* init_db creates the tables, and a shared in-memory database is new with *)
(* the process.                                                            *)
NewDatabase == [tasks  |-> [t \in TaskIds |-> NoTask],
                ledger |-> [c \in Children |-> <<>>],
                usage  |-> [c \in Children |-> [s \in Sessions |-> NoRow]]]

ASSUME NewDatabaseAssumption == Databases \subseteq {NewDatabase}

VARIABLES
  script,    \* the lines the client has still to run
  line,      \* the request it sent last, the numbers it should show, and the
             \* minutes covered in the results of the sessions so far
  made,      \* the ids of the tasks it created, in order
  reply      \* the last answer, as RewardBank has it

clientVars == <<script, line, made, reply>>

NoReply == [op |-> "none", user |-> Stranger, code |-> 200,
            balance |-> 0, invariant_holds |-> TRUE]

Unsent == [request |-> NoRequest, shows |-> <<>>, covered |-> <<>>]

ClientInit ==
  /\ Init
  /\ script \in Scripts
  /\ line = Unsent
  /\ made = <<>>
  /\ reply = NoReply

-----------------------------------------------------------------------------
(* A script names a task by the position of its creation; a position that  *)
(* is not there stands for an id the server does not know.                 *)
Resolve(q) ==
  IF q.op \notin TaskOps THEN q
  ELSE [q EXCEPT !.task = IF @ \in DOMAIN made THEN made[@]
                          ELSE CHOOSE t \in TaskIds : tasks[t] = NoTask]

(* What the answer of w's request tells the client.                        *)
Body(w) ==
  CASE Op(w) = "balance" -> GetBalance(ledger[ChildOf(w)])
    [] Op(w) = "ledger"  -> job[w].read
    [] Op(w) = "undo"    -> EntryOf(w).balance_after
    [] OTHER             -> 0

Told(q, code, balance, invariant_holds) ==
  [op |-> IF code = 401 \/ q.op = "no_header" THEN "none" ELSE q.op,
   user |-> q.user, code |-> code, balance |-> balance, invariant_holds |-> invariant_holds]

(* Bound: there is an id for every position that a request names.          *)
Nameable(q) ==
  q.op \in TaskOps => q.task \in DOMAIN made \/ \E t \in TaskIds : tasks[t] = NoTask

(* api() sends the next line's request: no other one is being handled.     *)
Send(w) ==
  /\ Quiet
  /\ script # <<>>
  /\ \E q \in Head(script).send \ {Resetting} :
       /\ Nameable(q)
       /\ Accept(w, Resolve(q))
       /\ line' = [request |-> Resolve(q), shows |-> Head(script).shows, covered |-> <<>>]
       /\ reply' = IF job'[w].step # "idle" THEN reply
                   ELSE Told(Resolve(q), job'[w].code, 0, TRUE)
  /\ script' = Tail(script)
  /\ UNCHANGED made

(* The result of a session: the row found for it, or written for it.       *)
Result(w) ==
  IF job[w].step = "find" THEN usage[User(w)][Head(job[w].todo)] ELSE job[w].row

(* The server takes a step; the last one of a handler is its answer.       *)
Handle(w) ==
  /\ Step(w)
  /\ LET new == {t \in TaskIds : tasks[t] = NoTask /\ tasks'[t] # NoTask}
     IN  made' = IF new = {} THEN made ELSE Append(made, CHOOSE t \in new : TRUE)
  /\ reply' = IF job'[w].step # "idle" THEN reply
              ELSE Told(job[w].req, job'[w].code,
                        IF job'[w].code = 200 THEN Body(w) ELSE 0, job'[w].holds)
  /\ line' = IF job'[w].code = 500 \/ job'[w].todo = job[w].todo THEN line
             ELSE [line EXCEPT !.covered = Append(@, Result(w).minutes_covered)]
  /\ UNCHANGED script

(* reset_db drops the tables, which an open transaction of any connection  *)
(* would not let it do; init_db creates and seeds them.                    *)
ResetDatabase ==
  /\ Quiet
  /\ script # <<>> /\ Resetting \in Head(script).send
  /\ locks.open = {}
  /\ tasks' = NewDatabase.tasks
  /\ ledger' = NewDatabase.ledger
  /\ usage' = NewDatabase.usage
  /\ script' = Tail(script)
  /\ line' = Unsent
  /\ made' = <<>>
  /\ reply' = NoReply
  /\ UNCHANGED <<locks, job, accepted, failed>>

ClientNext ==
  \/ ResetDatabase
  \/ \E w \in Workers : Send(w) \/ Handle(w) \/ (Expire(w) /\ UNCHANGED clientVars)

ClientSpec == ClientInit /\ [][ClientNext]_<<vars, clientVars>>

-----------------------------------------------------------------------------
(***************************************************************************)
(* The refinement.  RewardBank makes a task's or a session's change in one *)
(* step, which is the handler's last commit of it: what the handler has    *)
(* written until then is not there yet.                                    *)
(***************************************************************************)
Current == CHOOSE w \in Workers : job[w].step # "idle"

Half == ~Quiet /\ job[Current].step \in
          {"commit_task", "commit_session", "get_balance", "insert_entry", "commit_entry"}

AbsTasks ==
  IF ~Half \/ Op(Current) = "usage" THEN tasks
  ELSE IF Op(Current) = "create" THEN [tasks EXCEPT ![Last(made)] = NoTask]
  ELSE [tasks EXCEPT ![job[Current].req.task].status = AllowedFrom(Op(Current))]

AbsUsage ==
  IF Half /\ Op(Current) = "usage"
  THEN [usage EXCEPT ![User(Current)][Head(job[Current].todo)] = NoRow]
  ELSE usage

AbsLedger ==
  IF Half /\ job[Current].step = "commit_entry"
  THEN [ledger EXCEPT ![ChildOf(Current)] = Front(@)]
  ELSE ledger

AbsBatch ==
  IF Quiet THEN <<>>
  ELSE [i \in DOMAIN job[Current].todo |-> <<User(Current), job[Current].todo[i]>>]

Serial == INSTANCE RewardBank
          WITH tasks <- AbsTasks, ledger <- AbsLedger, usage <- AbsUsage, batch <- AbsBatch

(* For a client that waits for each answer the server does what RewardBank *)
(* does and answers what RewardBank answers; a reset begins it anew.       *)
Implements == Serial!Init /\ [][Serial!Next \/ Serial!Init']_(Serial!vars)

-----------------------------------------------------------------------------
(* What the client prints of the answer: the balance, the minutes covered  *)
(* of each session reported, or that the request was carried out.          *)
Shown ==
  LET q == line.request
  IN  CASE q.op \in {"balance", "ledger", "undo"} -> <<reply.balance>>
        [] q.op = "usage" -> line.covered
        [] OTHER -> <<reply.code>>

(* The scripts go as their comments say: every answer has the numbers of   *)
(* the scenario in it, and every audit holds.                              *)
AsScripted ==
  Quiet /\ line.shows # <<>> =>
    /\ reply.code \in {200, 201}
    /\ reply.invariant_holds
    /\ Shown = line.shows

(* Between two requests no connection is inside a transaction: a reset of  *)
(* the database, by the demo or between two tests, is never refused.       *)
NothingLeftOpen == Quiet => locks = NoLocks

(* What goes wrong for a client that waits comes from a number: a handler  *)
(* that fails is at a statement whose number SQLite cannot store, or finds *)
(* the transaction that an earlier failure has left open on the connection *)
(* of another thread.  The UNIQUE key and locks alone never fail it.       *)
FailuresTraced ==
  [][\A w \in Workers :
       job[w].step # "idle" /\ job'[w].code = 500
         => TooLarge(w) \/ locks.begun \ {w} # {}]_<<vars, clientVars>>

(* The hypothesis of the refinement: no statement meets such a number.     *)
Fits == \A w \in Workers : ~TooLarge(w)
=============================================================================
