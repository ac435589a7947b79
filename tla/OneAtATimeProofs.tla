-------------------------- MODULE OneAtATimeProofs --------------------------
(***************************************************************************)
(* Theorems about OneAtATime, for a client that waits for each answer and  *)
(* sends whatever it likes: its requests fail for a number's sake only,    *)
(* and when none of them does they leave nothing open.  ClientInv is also  *)
(* what the refinement needs (RefinementProofs).                           *)
(***************************************************************************)
EXTENDS OneAtATime, ThreadedServerProofs

Active(w) == job[w].step # "idle"

(* One handler runs at a time.                                             *)
Alone == \A v, w \in Workers : Active(v) /\ Active(w) => v = w

(* Where no request fails, a connection is in a transaction only between a *)
(* write and its commit, or in a SELECT that is not fetched yet; nobody    *)
(* has been refused.                                                       *)
LocksFollow ==
  /\ ~locks.pending
  /\ locks.writer = Nobody => locks.writes = {}
  /\ \A k \in Workers :
       /\ k \in locks.begun \/ locks.writer = k => job[k].step \in DOMAIN CommitOf
       /\ k \in locks.open => job[k].fetching \/ job[k].step \in DOMAIN CommitOf
       /\ locks.reads[k] # {} => job[k].fetching

-----------------------------------------------------------------------------
(* What the one handler has found is still so, and what it has written is  *)
(* what RewardBank would write.                                            *)
CreationFits(w) ==
  Op(w) = "create" /\ job[w].step = "commit_task" =>
    /\ made # <<>>
    /\ tasks[Last(made)] =
         [child_id |-> job[w].req.child, family_id |-> FamilyOf[User(w)],
          reward_minutes |-> job[w].req.reward, status |-> "pending"]
    /\ CreateCode(User(w), job[w].req.child, job[w].req.reward) = 201

TransitionFits(w) ==
  Op(w) \in TaskOps =>
    /\ job[w].step = "update_task" => TaskCode(Op(w), User(w), TaskOf(w)) = 200
    /\ job[w].step \in {"commit_task", "get_balance", "insert_entry", "commit_entry"} =>
         /\ TaskOf(w).status = NewStatus(Op(w))
         /\ AccessCode(Op(w), User(w), TaskOf(w)) = 200

SessionFits(w) ==
  Op(w) = "usage" =>
    LET s == Head(job[w].todo)
    IN  /\ job[w].step \in {"cover", "insert_session"} => ~Recorded(User(w), s)
        /\ job[w].step \in {"insert_session", "commit_session", "get_balance", "insert_entry"}
             => job[w].row = CoverSession(s, GetBalance(ledger[User(w)]))
        /\ job[w].step = "commit_entry" => job[w].row = CoverSession(s, job[w].read)

BalanceFits(w) ==
  LET entries == ledger[ChildOf(w)]
  IN  /\ job[w].step \in {"insert_entry", "sum"} => job[w].read = GetBalance(entries)
      /\ job[w].step = "commit_entry" =>
           /\ entries # <<>>
           /\ entries = Append(Front(entries), EntryOf(w))
           /\ job[w].read = GetBalance(Front(entries))

Sound(w) ==
  Active(w) =>
    /\ Op(w) # "usage" => job[w].todo = <<>>
    /\ CreationFits(w) /\ TransitionFits(w) /\ SessionFits(w) /\ BalanceFits(w)

ClientInv ==
  /\ TypeInv
  /\ Alone
  /\ script \in Seq(Lines)
  /\ made \in Seq(TaskIds)
  /\ \A w \in Workers : Sound(w)

-----------------------------------------------------------------------------
(***************************************************************************)
(* Locks.                                                                  *)
(***************************************************************************)
(* The other handlers do not run, and hold no lock.                        *)
LEMMA OthersIdle ==
  ASSUME TypeInv, Alone, LocksFollow, NEW w \in Workers, Active(w),
         NEW v \in Workers, v # w
  PROVE  /\ job[v].step = "idle" /\ job[v].fetching = FALSE
         /\ v \notin locks.begun /\ v \notin locks.open
         /\ locks.reads[v] = {} /\ locks.writer # v
<1>1. job[v].step = "idle"
  BY DEF Alone, Active
<1>2. "idle" \notin DOMAIN ReadAt \cup DOMAIN CommitOf
  BY StepTables
<1>3. job[v].fetching = FALSE
  BY <1>1, <1>2, NotFetching
<1> QED
  BY <1>1, <1>2, <1>3 DEF LocksFollow

(* Nobody is in its way.                                                   *)
LEMMA NothingRefused ==
  ASSUME TypeInv, Alone, LocksFollow, NEW w \in Workers, Active(w)
  PROVE  /\ CanBegin(locks, w)
         /\ \A table \in Tables : CanRead(locks, w, table) /\ CanWrite(locks, w, table)
<1>1. locks \in Locks
  BY DEF TypeInv, TypeOK
<1>2. CanBegin(locks, w)
  BY DEF CanBegin, LocksFollow
<1>3. locks.writer \in {w, Nobody}
  <2>1. locks.writer \in Workers \cup {Nobody}
    BY <1>1 DEF Locks
  <2> QED
    BY <2>1, OthersIdle
<1>4. \A table \in Tables : CanRead(locks, w, table)
  BY <1>2, <1>3 DEF CanRead, LocksFollow
<1>5. \A table \in Tables : CanWrite(locks, w, table)
  BY <1>3, OthersIdle DEF CanWrite, MayBecomeWriter
<1> QED
  BY <1>2, <1>4, <1>5

(* No request of such a client fails.                                      *)
LEMMA NothingFails ==
  ASSUME TypeInv, Alone, LocksFollow, Fits, NEW w \in Workers, Sound(w)
  PROVE  ~LockedOut(w) /\ ~Overflow(w) /\ ~KeyTaken(w)
<1>1. ~Overflow(w)
  BY DEF Fits, Overflow
<1>2. CASE ~Active(w)
  <2>1. job[w].step = "idle"
    BY <1>2 DEF Active
  <2> QED
    BY <1>1, <2>1, StepTables DEF LockedOut, Refused, KeyTaken, Modify
<1>3. CASE Active(w)
  <2>1. ~LockedOut(w)
    BY <1>3, NothingRefused, StepTables DEF LockedOut, Refused
  <2>2. ~KeyTaken(w)
    <3> SUFFICES ASSUME KeyTaken(w) PROVE FALSE
      OBVIOUS
    <3>1. job[w].step = "insert_session" /\ Recorded(User(w), Head(job[w].todo))
      BY DEF KeyTaken, Modify
    <3>2. Op(w) = "usage"
      BY <3>1, AtStep
    <3> QED
      BY <1>3, <3>1, <3>2 DEF Sound, SessionFits
  <2> QED
    BY <1>1, <2>1, <2>2
<1> QED
  BY <1>2, <1>3

(* What a statement of k does to the fields of the lock record.            *)
LEMMA LockFields ==
  ASSUME NEW lk \in Locks, NEW k \in Workers, ~lk.pending,
         lk.writer = Nobody => lk.writes = {}
  PROVE  /\ LET r == Release(lk, k)
            IN  /\ r.begun = lk.begun \ {k} /\ r.open = lk.open \ {k}
                /\ r.reads[k] = {} /\ \A v \in Workers \ {k} : r.reads[v] = lk.reads[v]
                /\ r.writer # k /\ r.writer \in {lk.writer, Nobody}
                /\ ~r.pending /\ (r.writer = Nobody => r.writes = {})
         /\ \A table \in Tables :
              LET r == Read(lk, k, table)
              IN  /\ r.begun = lk.begun /\ r.open = lk.open \cup {k}
                  /\ \A v \in Workers \ {k} : r.reads[v] = lk.reads[v]
                  /\ r.writer = lk.writer /\ r.writes = lk.writes /\ r.pending = lk.pending
         /\ \A table \in Tables :
              LET r == Write(lk, k, table)
              IN  /\ r.begun = lk.begun \cup {k} /\ r.open = lk.open \cup {k}
                  /\ r.reads = lk.reads /\ r.writer = k /\ r.pending = lk.pending
<1>1. \A table \in Tables :
        LET r == Read(lk, k, table)
        IN  /\ r.begun = lk.begun /\ r.open = lk.open \cup {k}
            /\ \A v \in Workers \ {k} : r.reads[v] = lk.reads[v]
            /\ r.writer = lk.writer /\ r.writes = lk.writes /\ r.pending = lk.pending
  BY DEF Read, Locks
<1>2. \A table \in Tables :
        LET r == Write(lk, k, table)
        IN  /\ r.begun = lk.begun \cup {k} /\ r.open = lk.open \cup {k}
            /\ r.reads = lk.reads /\ r.writer = k /\ r.pending = lk.pending
  BY DEF Write, Locks
<1>3. LET r == Release(lk, k)
      IN  /\ r.begun = lk.begun \ {k} /\ r.open = lk.open \ {k}
          /\ r.reads[k] = {} /\ \A v \in Workers \ {k} : r.reads[v] = lk.reads[v]
          /\ r.writer # k /\ r.writer \in {lk.writer, Nobody}
          /\ ~r.pending /\ (r.writer = Nobody => r.writes = {})
  BY NobodyAssumption DEF Release, Locks
<1> QED
  BY <1>1, <1>2, <1>3

(* Locks are taken and given up with the statements that need them.        *)
LEMMA LocksFollowStep ==
  ASSUME TypeInv, Alone, LocksFollow, Fits, NEW w \in Workers, Moves(w), Sound(w)
  PROVE  LocksFollow'
<1>1. locks \in Locks /\ Others(w)
  BY MovesKept DEF TypeInv, TypeOK, Kept, JobTyped
<1>2. ~Fails(w)
  BY NothingFails DEF Fails
<1>3. \A v \in Workers \ {w} : job'[v] = job[v]
  BY <1>1 DEF Others
<1>4. ASSUME NEW lk \in Locks, ~lk.pending, lk.writer = Nobody => lk.writes = {},
             locks' = Release(lk, w),
             \A v \in Workers \ {w} : /\ v \in lk.begun => v \in locks.begun
                                      /\ v \in lk.open => v \in locks.open
                                      /\ lk.reads[v] = locks.reads[v],
             lk.writer = locks.writer
      PROVE  LocksFollow'
  <2>1. /\ locks'.begun = lk.begun \ {w} /\ locks'.open = lk.open \ {w}
        /\ locks'.reads[w] = {} /\ \A v \in Workers \ {w} : locks'.reads[v] = lk.reads[v]
        /\ locks'.writer # w /\ locks'.writer \in {lk.writer, Nobody}
        /\ ~locks'.pending /\ (locks'.writer = Nobody => locks'.writes = {})
    BY <1>4, LockFields
  <2>2. ASSUME NEW k \in Workers
        PROVE  /\ k \in locks'.begun \/ locks'.writer = k => job'[k].step \in DOMAIN CommitOf
               /\ k \in locks'.open => job'[k].fetching \/ job'[k].step \in DOMAIN CommitOf
               /\ locks'.reads[k] # {} => job'[k].fetching
    <3>1. CASE k = w
      BY <2>1, <3>1
    <3>2. CASE k # w
      BY <1>3, <1>4, <2>1, <3>2, NobodyAssumption DEF LocksFollow
    <3> QED
      BY <3>1, <3>2
  <2> QED
    BY <2>1, <2>2 DEF LocksFollow
<1>5. ASSUME job[w].step \in DOMAIN ReadAt, locks' = EndStatement(locks, w)
      PROVE  LocksFollow'
  <2>1. w \notin locks.begun
    BY <1>5, StepTables DEF LocksFollow
  <2>2. locks' = Release(locks, w)
    BY <1>5, <2>1 DEF EndStatement
  <2> QED
    BY <1>1, <1>4, <2>2 DEF LocksFollow
<1>6. ASSUME NEW table \in Tables, job[w].step \in DOMAIN ReadAt,
             locks' = EndStatement(Read(locks, w, table), w)
      PROVE  LocksFollow'
  <2> DEFINE lk == Read(locks, w, table)
  <2>1. lk \in Locks
    BY <1>1, LockTypes
  <2>2. /\ lk.begun = locks.begun /\ lk.open = locks.open \cup {w}
        /\ \A v \in Workers \ {w} : lk.reads[v] = locks.reads[v]
        /\ lk.writer = locks.writer /\ lk.writes = locks.writes /\ lk.pending = locks.pending
    BY <1>1, LockFields DEF LocksFollow
  <2>3. w \notin lk.begun
    BY <1>6, <2>2, StepTables DEF LocksFollow
  <2>4. locks' = EndStatement(lk, w)
    BY <1>6
  <2> HIDE DEF lk
  <2>5. locks' = Release(lk, w)
    BY <2>3, <2>4 DEF EndStatement
  <2>6. ~lk.pending /\ (lk.writer = Nobody => lk.writes = {})
    BY <2>2 DEF LocksFollow
  <2>7. \A v \in Workers \ {w} : /\ v \in lk.begun => v \in locks.begun
                                 /\ v \in lk.open => v \in locks.open
                                 /\ lk.reads[v] = locks.reads[v]
    BY <2>2
  <2> QED
    BY <1>4, <2>1, <2>2, <2>5, <2>6, <2>7
<1>7. ASSUME Execute(w) PROVE LocksFollow'
  <2>1. /\ job'[w].fetching = TRUE /\ job'[w].step = job[w].step
        /\ job[w].step \in DOMAIN ReadAt /\ ReadAt[job[w].step] \in Tables
        /\ locks' = Read(locks, w, ReadAt[job[w].step])
    BY <1>7, ExecuteKept, StepTables DEF Execute
  <2>2. /\ locks'.begun = locks.begun /\ locks'.open = locks.open \cup {w}
        /\ \A v \in Workers \ {w} : locks'.reads[v] = locks.reads[v]
        /\ locks'.writer = locks.writer /\ locks'.writes = locks.writes
        /\ locks'.pending = locks.pending
    BY <1>1, <2>1, LockFields DEF LocksFollow
  <2> QED
    BY <1>3, <2>1, <2>2 DEF LocksFollow
<1>8. ASSUME Writes(w) PROVE LocksFollow'
  <2>1. PICK step \in DOMAIN WriteAt : Modify(w, step)
    BY <1>8 DEF Writes
  <2>2. locks' = Write(locks, w, WriteAt[step]) /\ WriteAt[step] \in Tables
    BY <2>1, StepTables DEF Modify
  <2>3. /\ locks'.begun = locks.begun \cup {w} /\ locks'.open = locks.open \cup {w}
        /\ locks'.reads = locks.reads /\ locks'.writer = w /\ locks'.pending = locks.pending
    BY <1>1, <2>2, LockFields DEF LocksFollow
  <2>4. job'[w].step \in DOMAIN CommitOf
    BY <1>8 DEF Writes
  <2>5. locks.reads[w] = {}
    <3>1. job[w].fetching = FALSE
      BY <2>1, NotFetching, StepTables DEF Modify
    <3> QED
      BY <3>1 DEF LocksFollow
  <2> QED
    BY <1>3, <2>3, <2>4, <2>5, NobodyAssumption DEF LocksFollow
<1>9. ASSUME locks' = Release(locks, w) PROVE LocksFollow'
  BY <1>1, <1>4, <1>9 DEF LocksFollow
<1>10. ASSUME Rests(w) PROVE LocksFollow'
  <2>1. locks' = locks /\ job[w].step \notin DOMAIN ReadAt \cup DOMAIN CommitOf
    BY <1>10, StepTables DEF Rests
  <2>2. job[w].fetching = FALSE
    BY <2>1, NotFetching
  <2> QED
    BY <1>3, <2>1, <2>2 DEF LocksFollow
<1>11. Fetches(w) => job[w].step \in DOMAIN ReadAt
  BY DEF Fetches, Fetch
<1>12. Shape(w)
  BY MovesShape
<1>13. \/ Execute(w)
       \/ Fetches(w) /\ locks' = EndStatement(locks, w)
       \/ \E table \in Tables : Fetches(w) /\ locks' = EndStatement(Read(locks, w, table), w)
       \/ Writes(w) \/ Rests(w)
       \/ locks' = Release(locks, w)
  BY <1>2, <1>12, ShapeLocks
<1> QED
  BY <1>5, <1>6, <1>7, <1>8, <1>9, <1>10, <1>11, <1>13

-----------------------------------------------------------------------------
(***************************************************************************)
(* Steps of the client.                                                    *)
(***************************************************************************)
(* What a job has read stays in it for as long as its handler runs on.     *)
Keeps(w) ==
  /\ job'[w].req = job[w].req /\ job'[w].todo = job[w].todo
  /\ job'[w].row = job[w].row /\ job'[w].read = job[w].read

(* A statement of a handler keeps its request, sessions, rows and results. *)
LEMMA JobKeeps ==
  ASSUME TypeInv, NEW w \in Workers
  PROVE  /\ \A step : Goto(w, step) => Keeps(w) /\ job'[w].step = step
         /\ \A what, step : Wrote(w, what, step) => Keeps(w) /\ job'[w].step = step
         /\ Execute(w) => Keeps(w) /\ job'[w].step = job[w].step
<1>1. job \in [Workers -> Job] /\ job[w] \in Job
  BY DEF TypeInv, TypeOK
<1>2. ASSUME NEW step, Goto(w, step)
      PROVE  Keeps(w) /\ job'[w].step = step
  BY <1>1, <1>2 DEF Goto, Keeps, Job
<1>3. ASSUME NEW step, NEW what, Wrote(w, what, step)
      PROVE  Keeps(w) /\ job'[w].step = step
  BY <1>1, <1>3 DEF Wrote, Keeps, Job
<1>4. ASSUME Execute(w)
      PROVE  Keeps(w) /\ job'[w].step = job[w].step
  BY <1>1, <1>4 DEF Execute, Keeps, Job
<1> QED
  BY <1>2, <1>3, <1>4

(* Only a handler that runs takes a step.                                  *)
LEMMA StepActive ==
  ASSUME NEW w \in Workers, Step(w)
  PROVE  Active(w)
<1>1. "idle" \notin DOMAIN ReadAt \cup DOMAIN WriteAt
  BY StepTables
<1>2. Execute(w) \/ LockedOut(w) \/ Overflow(w) => job[w].step # "idle"
  BY <1>1 DEF Execute, LockedOut, Refused, Overflow
<1>3. InsertTask(w) \/ UpdateTask(w) \/ InsertEntry(w) \/ InsertSession(w)
        \/ KeyTaken(w) \/ Health(w) => job[w].step # "idle"
  BY DEF InsertTask, UpdateTask, InsertEntry, InsertSession, KeyTaken, Health, Modify
<1>4. CommitTask(w) \/ CommitEntry(w) \/ CommitSession(w) => job[w].step # "idle"
  BY DEF CommitTask, CommitEntry, CommitSession, Commit
<1>5. CheckChild(w) \/ GetTask(w) \/ CheckFamily(w) \/ Recheck(w) \/ CheckAccess(w)
        \/ ReadBalance(w) \/ FindExisting(w) \/ Cover(w) \/ ViewBalance(w)
        \/ ReadHistory(w) \/ ReadLast(w) \/ Audit(w) => job[w].step # "idle"
  BY DEF CheckChild, GetTask, CheckFamily, Recheck, CheckAccess, ReadBalance, FindExisting, Cover,
         ViewBalance, ReadHistory, ReadLast, Audit, Fetch
<1> QED
  BY <1>2, <1>3, <1>4, <1>5 DEF Step, Active

(* The client sends what is on the Menu.                                   *)
LEMMA ResolvedOnMenu ==
  ASSUME script \in Seq(Lines), script # <<>>, made \in Seq(TaskIds),
         NEW q \in Head(script).send \ {Resetting}, Nameable(q)
  PROVE  Resolve(q) \in Menu
<1>1. Head(script) \in Lines
  OBVIOUS
<1>2. CASE q.op \notin TaskOps
  BY <1>1, <1>2, ScriptsAssumption DEF Resolve
<1>3. CASE q.op \in TaskOps
  <2> DEFINE t == IF q.task \in DOMAIN made THEN made[q.task]
                  ELSE CHOOSE u \in TaskIds : tasks[u] = NoTask
  <2>1. t \in TaskIds
    BY <1>3 DEF Nameable
  <2>2. Resolve(q) = [q EXCEPT !.task = t]
    BY <1>3 DEF Resolve
  <2> HIDE DEF t
  <2> QED
    BY <1>1, <1>3, <2>1, <2>2, ScriptsAssumption
<1> QED
  BY <1>2, <1>3

(* What w's request is about, when the tables it looks at are the same.    *)
LEMMA SameViews ==
  ASSUME NEW w \in Workers, job'[w].req = job[w].req
  PROVE  /\ Op(w)' = Op(w) /\ User(w)' = User(w)
         /\ tasks' = tasks => TaskOf(w)' = TaskOf(w) /\ ChildOf(w)' = ChildOf(w)
         /\ tasks' = tasks /\ Keeps(w) => EntryOf(w)' = EntryOf(w)
<1>1. Op(w)' = Op(w) /\ User(w)' = User(w)
  BY DEF Op, User
<1>2. tasks' = tasks => TaskOf(w)' = TaskOf(w)
  BY DEF TaskOf
<1>3. tasks' = tasks => ChildOf(w)' = ChildOf(w)
  BY <1>1, <1>2 DEF ChildOf
<1>4. tasks' = tasks /\ Keeps(w) => EntryOf(w)' = EntryOf(w)
  BY <1>1, <1>2 DEF EntryOf, Keeps
<1> QED
  BY <1>1, <1>2, <1>3, <1>4

(* A step that creates no task leaves the client the ids it has.           *)
LEMMA MadeStays ==
  ASSUME NEW w \in Workers, Handle(w),
         \A t \in TaskIds : tasks[t] = NoTask => tasks'[t] = NoTask
  PROVE  made' = made
BY DEF Handle

(* A step that creates one gives it its id.                                *)
LEMMA MadeGrows ==
  ASSUME NEW w \in Workers, Handle(w), tasks \in [TaskIds -> Task \cup {NoTask}],
         NEW t \in TaskIds, NEW row, row # NoTask,
         tasks[t] = NoTask, tasks' = [tasks EXCEPT ![t] = row]
  PROVE  made' = Append(made, t)
<1> DEFINE new == {u \in TaskIds : tasks[u] = NoTask /\ tasks'[u] # NoTask}
<1>1. new = {t}
  OBVIOUS
<1>2. made' = IF new = {} THEN made ELSE Append(made, CHOOSE u \in new : TRUE)
  BY DEF Handle
<1> HIDE DEF new
<1>3. (CHOOSE u \in new : TRUE) = t
  BY <1>1
<1> QED
  BY <1>1, <1>2, <1>3

(* Where the handler goes tells what must be so of it then.                *)
LEMMA SoundAfter ==
  ASSUME NEW w \in Workers, job'[w].req = job[w].req,
         Op(w) # "usage" => job'[w].todo = <<>>
  PROVE  /\ job'[w].step \in {"idle", "insert_task", "check_family", "recheck", "find",
                                "history", "view", "last"} => Sound(w)'
         /\ job'[w].step = "commit_task" /\ Op(w) \in {"create"} \cup TaskOps
              /\ CreationFits(w)' /\ TransitionFits(w)' => Sound(w)'
         /\ job'[w].step = "update_task" /\ TransitionFits(w)' => Sound(w)'
         /\ job'[w].step \in {"cover", "insert_session", "commit_session"} /\ Op(w) = "usage"
              /\ SessionFits(w)' => Sound(w)'
         /\ job'[w].step = "get_balance" /\ TransitionFits(w)' /\ SessionFits(w)' => Sound(w)'
         /\ job'[w].step \in {"insert_entry", "commit_entry"}
              /\ TransitionFits(w)' /\ SessionFits(w)' /\ BalanceFits(w)' => Sound(w)'
         /\ job'[w].step = "sum" /\ BalanceFits(w)' => Sound(w)'
<1>0. Op(w)' = Op(w)
  BY DEF Op
<1>1. job'[w].step # "commit_task" => CreationFits(w)'
  BY DEF CreationFits
<1>2. job'[w].step \notin {"update_task", "commit_task", "get_balance", "insert_entry", "commit_entry"}
        => TransitionFits(w)'
  BY DEF TransitionFits
<1>3. job'[w].step \notin {"cover", "insert_session", "commit_session", "get_balance",
                           "insert_entry", "commit_entry"} => SessionFits(w)'
  BY DEF SessionFits
<1>4. job'[w].step \notin {"insert_entry", "sum", "commit_entry"} => BalanceFits(w)'
  BY DEF BalanceFits
<1>5. Op(w) = "usage" => TransitionFits(w)'
  BY <1>0 DEF TransitionFits, TaskOps
<1> QED
  BY <1>0, <1>1, <1>2, <1>3, <1>4, <1>5 DEF Sound, Active

-----------------------------------------------------------------------------
(***************************************************************************)
(* Every statement keeps the handler sound.                                *)
(***************************************************************************)
(* What the handler's job and the client's list say, together.             *)
LEMMA SoundNow ==
  ASSUME ClientInv, NEW w \in Workers, Active(w)
  PROVE  /\ Op(w) # "usage" => job[w].todo = <<>>
         /\ CreationFits(w) /\ TransitionFits(w) /\ SessionFits(w) /\ BalanceFits(w)
         /\ TypeInv /\ job \in [Workers -> Job] /\ job[w] \in Job /\ TablesTyped
         /\ made \in Seq(TaskIds)
<1>1. TypeInv /\ Sound(w) /\ made \in Seq(TaskIds)
  BY DEF ClientInv
<1>2. job \in [Workers -> Job] /\ job[w] \in Job /\ TablesTyped
  BY <1>1, AtStep DEF TypeInv, TypeOK, Active
<1> QED
  BY <1>1, <1>2 DEF Sound

(* execute() of a SELECT.                                                  *)
LEMMA ExecuteSound ==
  ASSUME ClientInv, NEW w \in Workers, Handle(w), Active(w), Execute(w)
  PROVE  Sound(w)'
<1>1. Keeps(w) /\ job'[w].step = job[w].step
  BY SoundNow, JobKeeps
<1>2. UNCHANGED <<tasks, ledger, usage>>
  BY DEF Execute, tables
<1>3. made' = made
  BY <1>2, MadeStays
<1>4. /\ Op(w)' = Op(w) /\ User(w)' = User(w) /\ TaskOf(w)' = TaskOf(w)
      /\ ChildOf(w)' = ChildOf(w) /\ EntryOf(w)' = EntryOf(w)
  BY <1>1, <1>2, SameViews DEF Keeps
<1>5. CreationFits(w)'
  BY <1>1, <1>2, <1>3, <1>4, SoundNow DEF CreationFits, Keeps
<1>6. TransitionFits(w)'
  BY <1>1, <1>4, SoundNow DEF TransitionFits
<1>7. SessionFits(w)'
  BY <1>1, <1>2, <1>4, SoundNow DEF SessionFits, Recorded, Keeps
<1>8. BalanceFits(w)'
  BY <1>1, <1>2, <1>4, SoundNow DEF BalanceFits, Keeps
<1>9. Op(w) # "usage" => job'[w].todo = <<>>
  BY <1>1, SoundNow DEF Keeps
<1> QED
  BY <1>4, <1>5, <1>6, <1>7, <1>8, <1>9 DEF Sound

(* The handler answers: nothing is left to be so.                          *)
LEMMA AnswerSound ==
  ASSUME TypeInv, NEW w \in Workers, NEW code \in Codes, Answer(w, code)
  PROVE  Sound(w)'
<1>1. job'[w].step = "idle"
  BY AnswerJob DEF TypeInv, TypeOK
<1> QED
  BY <1>1 DEF Sound, Active

(* It goes to a step of which nothing is said yet.                         *)
LEMMA GotoSound ==
  ASSUME ClientInv, NEW w \in Workers, Active(w),
         NEW step \in {"insert_task", "check_family", "recheck", "history", "view", "last"},
         Goto(w, step)
  PROVE  Sound(w)'
<1>1. Keeps(w) /\ job'[w].step = step
  BY SoundNow, JobKeeps
<1> QED
  BY <1>1, SoundNow, SoundAfter DEF Keeps

(* The checks before a change write nothing: the step is all they move.    *)
LEMMA CheckSound ==
  ASSUME ClientInv, NEW w \in Workers, Active(w),
         \/ CheckChild(w) \/ GetTask(w) \/ CheckFamily(w)
         \/ CheckAccess(w) \/ ReadHistory(w)
  PROVE  Sound(w)'
<1>1. CheckChild(w) => Goto(w, "insert_task") \/ \E code \in Codes : Answer(w, code)
  BY CodesType DEF CheckChild
<1>2. GetTask(w) \/ CheckFamily(w) =>
        \/ Goto(w, "check_family") \/ Goto(w, "recheck")
        \/ \E code \in Codes : Answer(w, code)
  BY CodesType DEF GetTask, CheckFamily, Codes
<1>3. ReadHistory(w) => Goto(w, "last")
  BY DEF ReadHistory
<1>4. CheckAccess(w) =>
        \/ Goto(w, "history") \/ Goto(w, "view")
        \/ \E code \in Codes : Answer(w, code)
  BY CodesType DEF CheckAccess, Codes
<1> QED
  BY <1>1, <1>2, <1>3, <1>4, GotoSound, AnswerSound, SoundNow

(* The second look at the task finds it as the transition needs it.        *)
LEMMA RecheckSound ==
  ASSUME ClientInv, NEW w \in Workers, Active(w), Recheck(w)
  PROVE  Sound(w)'
<1> DEFINE code == TaskCode(Op(w), User(w), TaskOf(w))
<1>1. tasks' = tasks /\ job[w].step = "recheck"
  BY DEF Recheck, Fetch, tables
<1>2. CASE code # 200
  BY <1>2, CodesType, AnswerSound, SoundNow DEF Recheck, Codes
<1>3. CASE code = 200
  <2>1. Goto(w, "update_task")
    BY <1>3 DEF Recheck
  <2>2. Keeps(w) /\ job'[w].step = "update_task"
    BY <2>1, SoundNow, JobKeeps
  <2>3. Op(w)' = Op(w) /\ User(w)' = User(w) /\ TaskOf(w)' = TaskOf(w)
    BY <1>1, <2>2, SameViews DEF Keeps
  <2>4. TransitionFits(w)'
    BY <1>3, <2>2, <2>3 DEF TransitionFits
  <2> QED
    BY <2>2, <2>4, SoundNow, SoundAfter DEF Keeps
<1> QED
  BY <1>2, <1>3

(* The row of a new task.                                                  *)
LEMMA InsertTaskSound ==
  ASSUME ClientInv, NEW w \in Workers, Active(w), Handle(w), InsertTask(w)
  PROVE  Sound(w)'
<1> DEFINE row == [child_id |-> job[w].req.child, family_id |-> FamilyOf[User(w)],
                   reward_minutes |-> job[w].req.reward, status |-> "pending"]
<1>1. job[w].step = "insert_task" /\ Wrote(w, "task", "commit_task")
  BY DEF InsertTask, Modify
<1>2. PICK t \in TaskIds : tasks[t] = NoTask /\ tasks' = [tasks EXCEPT ![t] = row]
  BY DEF InsertTask
<1>3. Keeps(w) /\ job'[w].step = "commit_task"
  BY <1>1, SoundNow, JobKeeps
<1>4. row # NoTask
  BY DEF NoTask
<1>5. made' = Append(made, t) /\ tasks'[t] = row
  <2>1. tasks \in [TaskIds -> Task \cup {NoTask}]
    BY SoundNow DEF TablesTyped
  <2> HIDE DEF row
  <2> QED
    BY <1>2, <1>4, <2>1, MadeGrows
<1>6. made' # <<>> /\ Last(made') = t
  BY <1>5, SoundNow DEF Last
<1>7. Op(w) = "create" /\ CreateCode(User(w), job[w].req.child, job[w].req.reward) = 201
  BY <1>1, AtStep, SoundNow DEF TaskFound, Op, User
<1>8. Op(w)' = Op(w) /\ User(w)' = User(w)
  BY <1>3, SameViews DEF Keeps
<1>9. CreationFits(w)'
  BY <1>3, <1>5, <1>6, <1>7, <1>8 DEF CreationFits, Keeps
<1>10. TransitionFits(w)'
  BY <1>7, <1>8 DEF TransitionFits, TaskOps
<1> QED
  BY <1>3, <1>7, <1>9, <1>10, SoundNow, SoundAfter DEF Keeps

(* The UPDATE leaves the task as the transition promises, and its owners   *)
(* who they were.                                                          *)
LEMMA UpdateTaskSound ==
  ASSUME ClientInv, NEW w \in Workers, Active(w), UpdateTask(w)
  PROVE  Sound(w)'
<1> DEFINE t == job[w].req.task
           row == [tasks[t] EXCEPT !.status = NewStatus(Op(w))]
<1>1. job[w].step = "update_task" /\ Wrote(w, "task", "commit_task")
  BY DEF UpdateTask, Modify
<1>2. Op(w) \in TaskOps
  BY <1>1, SoundNow, AtStep
<1>3. t \in TaskIds /\ tasks[t] \in Task
  BY <1>1, <1>2, SoundNow, TaskNamed DEF TaskOf
<1>4. AccessCode(Op(w), User(w), tasks[t]) = 200
  <2>1. TaskCode(Op(w), User(w), tasks[t]) = 200
    BY <1>1, <1>2, SoundNow DEF TransitionFits, TaskOf
  <2> QED
    BY <2>1 DEF TaskCode
<1>5. /\ row # NoTask /\ row.status = NewStatus(Op(w))
      /\ row.child_id = tasks[t].child_id /\ row.family_id = tasks[t].family_id
  BY <1>3 DEF Task, NoTask
<1>6. tasks' = [tasks EXCEPT ![t] = row]
  BY DEF UpdateTask
<1> HIDE DEF row
<1>7. tasks'[t] = row
  BY <1>3, <1>6, SoundNow DEF TablesTyped
<1>8. AccessCode(Op(w), User(w), row) = 200
  BY <1>4, <1>5 DEF AccessCode, MayAct
<1>9. Keeps(w) /\ job'[w].step = "commit_task"
  BY <1>1, SoundNow, JobKeeps
<1>10. Op(w)' = Op(w) /\ User(w)' = User(w) /\ TaskOf(w)' = row
  BY <1>7, <1>9, SameViews DEF Keeps, TaskOf
<1>11. TransitionFits(w)'
  BY <1>5, <1>8, <1>9, <1>10 DEF TransitionFits
<1>12. CreationFits(w)'
  BY <1>2, <1>10 DEF CreationFits, TaskOps
<1> QED
  BY <1>2, <1>9, <1>11, <1>12, SoundNow, SoundAfter DEF Keeps

(* What a transition has found stays so until its handler ends.            *)
LEMMA TransitionStays ==
  ASSUME ClientInv, NEW w \in Workers, Active(w), tasks' = tasks, Keeps(w),
         Op(w) \in TaskOps =>
           job[w].step \in {"commit_task", "get_balance", "insert_entry", "commit_entry"},
         job'[w].step # "update_task"
  PROVE  TransitionFits(w)'
<1>1. Op(w)' = Op(w) /\ User(w)' = User(w) /\ TaskOf(w)' = TaskOf(w)
  BY SameViews DEF Keeps
<1> QED
  BY <1>1, SoundNow DEF TransitionFits

(* The commit of a task ends the handler, or its ledger entry is due.      *)
LEMMA CommitTaskSound ==
  ASSUME ClientInv, NEW w \in Workers, Active(w), CommitTask(w)
  PROVE  Sound(w)'
<1>1. tasks' = tasks /\ job[w].step = "commit_task"
  BY DEF CommitTask, Commit, tables
<1>2. CASE Op(w) \notin {"approve", "undo"}
  <2>1. Answer(w, 200) \/ Answer(w, 201)
    BY <1>2 DEF CommitTask
  <2> QED
    BY <2>1, AnswerSound, SoundNow DEF Codes
<1>3. CASE Op(w) \in {"approve", "undo"}
  <2>1. Goto(w, "get_balance")
    BY <1>3 DEF CommitTask
  <2>2. Keeps(w) /\ job'[w].step = "get_balance"
    BY <2>1, SoundNow, JobKeeps
  <2>3. TransitionFits(w)'
    BY <1>1, <2>2, TransitionStays
  <2>4. SessionFits(w)'
    BY <1>3, <2>2, SameViews DEF SessionFits, Keeps
  <2> QED
    BY <2>2, <2>3, <2>4, SoundNow, SoundAfter DEF Keeps
<1> QED
  BY <1>2, <1>3

(* append_ledger_entry has read the last balance, and nobody else writes.  *)
LEMMA ReadBalanceSound ==
  ASSUME ClientInv, NEW w \in Workers, Active(w), ReadBalance(w)
  PROVE  Sound(w)'
<1> DEFINE b == GetBalance(ledger[ChildOf(w)])
<1>1. /\ UNCHANGED <<tasks, ledger, usage>> /\ job[w].step = "get_balance"
      /\ job' = [job EXCEPT ![w].step = "insert_entry", ![w].fetching = FALSE, ![w].read = b]
  BY DEF ReadBalance, Fetch, tables
<1>2. /\ job'[w].step = "insert_entry" /\ job'[w].read = b
      /\ job'[w].req = job[w].req /\ job'[w].todo = job[w].todo /\ job'[w].row = job[w].row
  BY <1>1, SoundNow DEF Job
<1>3. /\ Op(w)' = Op(w) /\ User(w)' = User(w) /\ TaskOf(w)' = TaskOf(w) /\ ChildOf(w)' = ChildOf(w)
  BY <1>1, <1>2, SameViews
<1>4. TransitionFits(w)'
  BY <1>1, <1>2, <1>3, SoundNow DEF TransitionFits
<1>5. SessionFits(w)'
  BY <1>1, <1>2, <1>3, SoundNow DEF SessionFits
<1>6. BalanceFits(w)'
  BY <1>1, <1>2, <1>3 DEF BalanceFits
<1> QED
  BY <1>2, <1>4, <1>5, <1>6, SoundNow, SoundAfter

(* The entries before the last.                                            *)
LEMMA FrontOfAppend ==
  ASSUME NEW T, NEW s \in Seq(T), NEW e \in T
  PROVE  Front(Append(s, e)) = s /\ Append(s, e) # <<>>
<1> DEFINE a == Append(s, e)
<1>1. a \in Seq(T) /\ Len(a) = Len(s) + 1 /\ \A i \in 1..Len(s) : a[i] = s[i]
  OBVIOUS
<1>2. Front(a) = SubSeq(a, 1, Len(s))
  BY <1>1 DEF Front
<1> HIDE DEF a
<1>3. Front(a) \in Seq(T) /\ Len(Front(a)) = Len(s) /\ \A i \in 1..Len(s) : Front(a)[i] = s[i]
  BY <1>1, <1>2
<1>4. Front(a) = s
  BY <1>3
<1>5. a # <<>>
  BY <1>1
<1> QED
  BY <1>4, <1>5 DEF a

(* The entry goes after those its balance was read from.                   *)
LEMMA InsertEntrySound ==
  ASSUME ClientInv, NEW w \in Workers, Active(w), InsertEntry(w)
  PROVE  Sound(w)'
<1> DEFINE c == ChildOf(w)
           e == EntryOf(w)
<1>1. /\ job[w].step = "insert_entry" /\ Wrote(w, "entry", "commit_entry")
      /\ ledger' = [ledger EXCEPT ![c] = Append(@, e)]
      /\ tasks' = tasks /\ usage' = usage
  BY DEF InsertEntry, Modify
<1>2. c \in Children /\ e \in LedgerEntry /\ Op(w) \in {"approve", "undo", "usage"}
  BY <1>1, SoundNow, EntryType
<1>3. ledger[c] \in Seq(LedgerEntry) /\ ledger'[c] = Append(ledger[c], e)
  <2> HIDE DEF c, e
  <2> QED
    BY <1>1, <1>2, SoundNow DEF TablesTyped
<1>4. Keeps(w) /\ job'[w].step = "commit_entry"
  BY <1>1, SoundNow, JobKeeps
<1>5. Op(w)' = Op(w) /\ User(w)' = User(w) /\ ChildOf(w)' = c /\ EntryOf(w)' = e
  BY <1>1, <1>4, SameViews DEF Keeps
<1>6. TransitionFits(w)'
  BY <1>1, <1>4, TransitionStays
<1>7. job[w].read = GetBalance(ledger[c])
  BY <1>1, SoundNow DEF BalanceFits
<1>8. BalanceFits(w)'
  <2>1. Front(ledger'[c]) = ledger[c] /\ ledger'[c] # <<>>
    BY <1>2, <1>3, FrontOfAppend
  <2> HIDE DEF c, e
  <2> QED
    BY <1>3, <1>4, <1>5, <1>7, <2>1 DEF BalanceFits, Keeps
<1>9. SessionFits(w)'
  <2> SUFFICES ASSUME Op(w) = "usage"
               PROVE  job[w].row = CoverSession(Head(job[w].todo), job[w].read)
    BY <1>4, <1>5 DEF SessionFits, Keeps
  <2>1. c = User(w)
    BY DEF ChildOf, TaskOps
  <2> QED
    BY <1>1, <1>7, <2>1, SoundNow DEF SessionFits
<1> QED
  BY <1>4, <1>6, <1>8, <1>9, SoundNow, SoundAfter DEF Keeps

(* The loop goes on to a session it knows nothing about, or ends.          *)
LEMMA NextSessionSound ==
  ASSUME ClientInv, NEW w \in Workers, Active(w), Op(w) = "usage", NextSession(w)
  PROVE  Sound(w)'
<1>1. job[w].todo # <<>>
  BY SoundNow, AtStep DEF BatchFits, Active, Op
<1>2. job'[w].req = job[w].req /\ job'[w].step \in {"idle", "find"}
  BY <1>1, SoundNow, NextSessionJob
<1> QED
  BY <1>2, SoundAfter

(* The commit of an entry ends the handler or its session.                 *)
LEMMA CommitEntrySound ==
  ASSUME ClientInv, NEW w \in Workers, Active(w), CommitEntry(w)
  PROVE  Sound(w)'
<1>1. CASE Op(w) = "usage"
  BY <1>1, NextSessionSound DEF CommitEntry
<1>2. CASE Op(w) # "usage"
  BY <1>2, SoundNow, AnswerSound DEF CommitEntry, Codes
<1> QED
  BY <1>1, <1>2

(* _find_existing_session has looked, and nobody records the session since.*)
LEMMA FindExistingSound ==
  ASSUME ClientInv, NEW w \in Workers, Active(w), FindExisting(w)
  PROVE  Sound(w)'
<1>1. job[w].step = "find" /\ usage' = usage
  BY DEF FindExisting, Fetch, tables
<1>2. Op(w) = "usage"
  BY <1>1, SoundNow, AtStep
<1>3. CASE Recorded(User(w), Head(job[w].todo))
  BY <1>2, <1>3, NextSessionSound DEF FindExisting
<1>4. CASE ~Recorded(User(w), Head(job[w].todo))
  <2>1. Goto(w, "cover")
    BY <1>4 DEF FindExisting
  <2>2. Keeps(w) /\ job'[w].step = "cover"
    BY <2>1, SoundNow, JobKeeps
  <2>3. SessionFits(w)'
    BY <1>1, <1>4, <2>2, SameViews DEF SessionFits, Recorded, Keeps
  <2> QED
    BY <1>2, <2>2, <2>3, SoundAfter DEF Keeps
<1> QED
  BY <1>3, <1>4

(* The row covers the session from the balance there is.                   *)
LEMMA CoverSound ==
  ASSUME ClientInv, NEW w \in Workers, Active(w), Cover(w)
  PROVE  Sound(w)'
<1> DEFINE row == CoverSession(Head(job[w].todo), GetBalance(ledger[User(w)]))
<1>1. /\ job[w].step = "cover" /\ UNCHANGED <<ledger, usage>>
      /\ job' = [job EXCEPT ![w].step = "insert_session", ![w].fetching = FALSE, ![w].row = row]
  BY DEF Cover, Fetch, tables
<1>2. Op(w) = "usage"
  BY <1>1, SoundNow, AtStep
<1>3. /\ job'[w].step = "insert_session" /\ job'[w].row = row
      /\ job'[w].req = job[w].req /\ job'[w].todo = job[w].todo
  BY <1>1, SoundNow DEF Job
<1>4. ~Recorded(User(w), Head(job[w].todo))
  BY <1>1, <1>2, SoundNow DEF SessionFits
<1>5. User(w)' = User(w)
  BY <1>3, SameViews
<1>6. SessionFits(w)'
  BY <1>1, <1>3, <1>4, <1>5 DEF SessionFits, Recorded
<1> QED
  BY <1>2, <1>3, <1>6, SoundAfter

(* The row is inserted; the balance is the one it was computed from.       *)
LEMMA InsertSessionSound ==
  ASSUME ClientInv, NEW w \in Workers, Active(w), InsertSession(w)
  PROVE  Sound(w)'
<1>1. job[w].step = "insert_session" /\ Wrote(w, "session", "commit_session") /\ ledger' = ledger
  BY DEF InsertSession, Modify
<1>2. Op(w) = "usage"
  BY <1>1, SoundNow, AtStep
<1>3. Keeps(w) /\ job'[w].step = "commit_session"
  BY <1>1, SoundNow, JobKeeps
<1>4. job[w].row = CoverSession(Head(job[w].todo), GetBalance(ledger[User(w)]))
  BY <1>1, <1>2, SoundNow DEF SessionFits
<1>5. User(w)' = User(w)
  BY <1>3, SameViews DEF Keeps
<1>6. SessionFits(w)'
  BY <1>1, <1>3, <1>4, <1>5 DEF SessionFits, Keeps
<1> QED
  BY <1>2, <1>3, <1>6, SoundAfter DEF Keeps

(* The commit of a session leaves its row to be debited, or is its end.    *)
LEMMA CommitSessionSound ==
  ASSUME ClientInv, NEW w \in Workers, Active(w), CommitSession(w)
  PROVE  Sound(w)'
<1>1. job[w].step = "commit_session" /\ UNCHANGED <<tasks, ledger, usage>>
  BY DEF CommitSession, Commit, tables
<1>2. Op(w) = "usage"
  BY <1>1, SoundNow, AtStep
<1>3. CASE NextSession(w)
  BY <1>2, <1>3, NextSessionSound
<1>4. CASE Goto(w, "get_balance")
  <2>1. Keeps(w) /\ job'[w].step = "get_balance"
    BY <1>4, SoundNow, JobKeeps
  <2>2. job[w].row = CoverSession(Head(job[w].todo), GetBalance(ledger[User(w)]))
    BY <1>1, <1>2, SoundNow DEF SessionFits
  <2>3. Op(w)' = Op(w) /\ User(w)' = User(w)
    BY <2>1, SameViews DEF Keeps
  <2>4. SessionFits(w)'
    BY <1>1, <2>1, <2>2, <2>3 DEF SessionFits, Keeps
  <2>5. TransitionFits(w)'
    BY <1>2, <2>3 DEF TransitionFits, TaskOps
  <2> QED
    BY <1>2, <2>1, <2>4, <2>5, SoundAfter DEF Keeps
<1> QED
  BY <1>3, <1>4 DEF CommitSession

(* GET /ledger has read the last balance before it sums the entries.       *)
LEMMA ReadLastSound ==
  ASSUME ClientInv, NEW w \in Workers, Active(w), ReadLast(w)
  PROVE  Sound(w)'
<1> DEFINE b == GetBalance(ledger[ChildOf(w)])
<1>1. /\ UNCHANGED <<tasks, ledger>> /\ job[w].step = "last"
      /\ job' = [job EXCEPT ![w].step = "sum", ![w].fetching = FALSE, ![w].read = b]
  BY DEF ReadLast, Fetch, tables
<1>2. /\ job'[w].step = "sum" /\ job'[w].read = b
      /\ job'[w].req = job[w].req /\ job'[w].todo = job[w].todo
  BY <1>1, SoundNow DEF Job
<1>3. ChildOf(w)' = ChildOf(w)
  BY <1>1, <1>2, SameViews
<1>4. BalanceFits(w)'
  BY <1>1, <1>2, <1>3 DEF BalanceFits
<1> QED
  BY <1>2, <1>4, SoundNow, SoundAfter

(* GET /balance, /ledger and /health answer.                               *)
LEMMA ViewSound ==
  ASSUME ClientInv, NEW w \in Workers, Active(w), ViewBalance(w) \/ Audit(w) \/ Health(w)
  PROVE  Sound(w)'
<1>1. CASE Audit(w)
  <2>1. job'[w].step = "idle"
    BY <1>1, SoundNow DEF Audit, Answered
  <2> QED
    BY <2>1 DEF Sound, Active
<1>2. CASE ViewBalance(w) \/ Health(w)
  BY <1>2, SoundNow, AnswerSound DEF ViewBalance, Health, Codes
<1> QED
  BY <1>1, <1>2

(* A step of the handler keeps what is known of it.                        *)
LEMMA HandleSound ==
  ASSUME ClientInv, NEW w \in Workers, Handle(w)
  PROVE  Sound(w)'
<1>1. Step(w)
  BY DEF Handle
<1>2. Active(w)
  BY <1>1, StepActive
<1>3. LockedOut(w) \/ Overflow(w) \/ KeyTaken(w) => Sound(w)'
  <2>1. LockedOut(w) \/ Overflow(w) \/ KeyTaken(w) => Answer(w, 500)
    BY DEF LockedOut, Overflow, KeyTaken, Fail
  <2> QED
    BY <2>1, AnswerSound DEF ClientInv, Codes
<1>4. Execute(w) => Sound(w)'
  BY <1>2, ExecuteSound
<1>5. CheckChild(w) \/ GetTask(w) \/ CheckFamily(w) \/ CheckAccess(w) \/ ReadHistory(w)
        => Sound(w)'
  BY <1>2, CheckSound
<1>6. Recheck(w) \/ UpdateTask(w) \/ CommitTask(w) => Sound(w)'
  BY <1>2, RecheckSound, UpdateTaskSound, CommitTaskSound
<1>7. InsertTask(w) => Sound(w)'
  BY <1>2, InsertTaskSound
<1>8. ReadBalance(w) \/ InsertEntry(w) \/ CommitEntry(w) => Sound(w)'
  BY <1>2, ReadBalanceSound, InsertEntrySound, CommitEntrySound
<1>9. FindExisting(w) \/ Cover(w) \/ InsertSession(w) \/ CommitSession(w) => Sound(w)'
  BY <1>2, FindExistingSound, CoverSound, InsertSessionSound, CommitSessionSound
<1>10. ReadLast(w) \/ ViewBalance(w) \/ Audit(w) \/ Health(w) => Sound(w)'
  BY <1>2, ReadLastSound, ViewSound
<1> QED
  BY <1>1, <1>3, <1>4, <1>5, <1>6, <1>7, <1>8, <1>9, <1>10 DEF Step

-----------------------------------------------------------------------------
(***************************************************************************)
(* The client's invariant.                                                 *)
(***************************************************************************)
(* A step of one handler while the others are idle.                        *)
LEMMA AloneStep ==
  ASSUME TypeInv, NEW w \in Workers, Moves(w),
         \A v \in Workers \ {w} : ~Active(v)
  PROVE  Alone' /\ \A v \in Workers \ {w} : job'[v] = job[v] /\ Sound(v)'
<1>1. \A v \in Workers \ {w} : job'[v] = job[v]
  BY MovesKept DEF Kept, JobTyped, Others
<1>2. \A v \in Workers \ {w} : job'[v].step = "idle"
  BY <1>1 DEF Active
<1>3. Alone'
  BY <1>2 DEF Alone, Active
<1>4. \A v \in Workers \ {w} : Sound(v)'
  BY <1>2 DEF Sound, Active
<1> QED
  BY <1>1, <1>3, <1>4

(* The server takes a step.                                                *)
LEMMA HandleKeeps ==
  ASSUME ClientInv, NEW w \in Workers, Handle(w)
  PROVE  ClientInv' /\ Grows
<1>1. Moves(w) /\ Active(w) /\ TypeInv /\ Alone /\ Sound(w)
  BY StepActive DEF Handle, Moves, ClientInv
<1>2. TypeInv' /\ Grows
  BY <1>1, MoveKeepsTypes
<1>3. \A v \in Workers \ {w} : ~Active(v)
  BY <1>1 DEF Alone
<1>4. Alone' /\ \A v \in Workers \ {w} : Sound(v)'
  BY <1>1, <1>3, AloneStep
<1>6. Sound(w)'
  BY HandleSound
<1>7. script' \in Seq(Lines)
  BY DEF Handle, ClientInv
<1>8. made' \in Seq(TaskIds)
  <2> DEFINE new == {t \in TaskIds : tasks[t] = NoTask /\ tasks'[t] # NoTask}
  <2>1. made' = IF new = {} THEN made ELSE Append(made, CHOOSE t \in new : TRUE)
    BY DEF Handle
  <2>2. new # {} => (CHOOSE t \in new : TRUE) \in TaskIds
    OBVIOUS
  <2>3. made \in Seq(TaskIds)
    BY DEF ClientInv
  <2> HIDE DEF new
  <2> QED
    BY <2>1, <2>2, <2>3
<1> QED
  BY <1>2, <1>4, <1>6, <1>7, <1>8 DEF ClientInv

(* The client sends a request.                                             *)
LEMMA SendsWhat ==
  ASSUME ClientInv, NEW w \in Workers, Send(w)
  PROVE  \E q \in Menu : /\ Accept(w, q)
                         /\ reply' = IF job'[w].step # "idle" THEN reply
                                     ELSE Told(q, job'[w].code, 0, TRUE)
<1>1. PICK q \in Head(script).send \ {Resetting} :
        /\ Nameable(q) /\ Accept(w, Resolve(q))
        /\ reply' = IF job'[w].step # "idle" THEN reply
                    ELSE Told(Resolve(q), job'[w].code, 0, TRUE)
  BY DEF Send
<1>2. script \in Seq(Lines) /\ script # <<>> /\ made \in Seq(TaskIds)
  BY DEF Send, ClientInv
<1>3. Resolve(q) \in Menu
  BY <1>1, <1>2, ResolvedOnMenu
<1> QED
  BY <1>1, <1>3

(* A handler starts with what its request says, and nothing written.       *)
LEMMA AcceptSound ==
  ASSUME TypeInv, NEW w \in Workers, NEW q \in Menu, Accept(w, q)
  PROVE  Sound(w)'
<1> DEFINE code == IF locks.pending /\ q.op \notin {"health", "no_header"} THEN 500
                   ELSE DoorCode(q)
<1>1. job' = [job EXCEPT ![w] = IF code = 200 THEN Started(q) ELSE Answered(q, code)]
  BY DEF Accept
<1> HIDE DEF code
<1>2. job'[w] = IF code = 200 THEN Started(q) ELSE Answered(q, code)
  BY <1>1 DEF TypeInv, TypeOK
<1>3. CASE code # 200
  BY <1>2, <1>3 DEF Sound, Active, Answered
<1>4. CASE code = 200
  <2>1. /\ job'[w].req = q /\ job'[w].step = FirstStep(q)
        /\ q.op # "usage" => job'[w].todo = <<>>
    BY <1>2, <1>4 DEF Started, Answered
  <2>2. DoorCode(q) = 200
    BY <1>4 DEF code
  <2>3. q.op \in {"create", "usage", "balance", "ledger", "health"} \cup TaskOps
    BY <2>2, AdmittedForm
  <2>4. job'[w].step \in {"check_child", "get_task", "find", "check_access", "view", "respond"}
    BY <2>1, <2>3 DEF FirstStep, TaskOps
  <2>5. CreationFits(w)' /\ TransitionFits(w)' /\ SessionFits(w)' /\ BalanceFits(w)'
    BY <2>4 DEF CreationFits, TransitionFits, SessionFits, BalanceFits
  <2>6. Op(w)' = q.op
    BY <2>1 DEF Op
  <2> QED
    BY <2>1, <2>5, <2>6 DEF Sound
<1> QED
  BY <1>3, <1>4

(* api() sends to a server at rest: one handler is at work then.           *)
LEMMA SendKeeps ==
  ASSUME ClientInv, NEW w \in Workers, Send(w)
  PROVE  ClientInv'
<1>1. PICK q \in Menu : Accept(w, q)
  BY SendsWhat
<1>2. Moves(w) /\ TypeInv /\ Sound(w)
  BY <1>1 DEF Moves, ClientInv
<1>3. TypeInv'
  BY <1>2, MoveKeepsTypes
<1>4. \A v \in Workers : ~Active(v)
  BY DEF Send, Quiet, Active
<1>5. Alone' /\ \A v \in Workers \ {w} : Sound(v)'
  BY <1>2, <1>4, AloneStep
<1>7. Sound(w)'
  BY <1>1, <1>2, AcceptSound
<1>8. script' \in Seq(Lines) /\ made' \in Seq(TaskIds)
  BY DEF Send, ClientInv
<1> QED
  BY <1>3, <1>5, <1>7, <1>8 DEF ClientInv

(* What a handler has found does not depend on the locks.                  *)
LEMMA SoundStays ==
  ASSUME UNCHANGED <<job, tasks, ledger, usage, made>>, NEW v \in Workers, Sound(v)
  PROVE  Sound(v)'
<1>1. Op(v)' = Op(v) /\ User(v)' = User(v) /\ TaskOf(v)' = TaskOf(v)
  BY DEF Op, User, TaskOf
<1>2. ChildOf(v)' = ChildOf(v)
  BY <1>1 DEF ChildOf
<1>3. EntryOf(v)' = EntryOf(v)
  BY <1>1 DEF EntryOf
<1>4. CreationFits(v) => CreationFits(v)'
  BY <1>1 DEF CreationFits
<1>5. TransitionFits(v) => TransitionFits(v)'
  BY <1>1 DEF TransitionFits
<1>6. SessionFits(v) => SessionFits(v)'
  BY <1>1 DEF SessionFits, Recorded
<1>7. BalanceFits(v) => BalanceFits(v)'
  BY <1>2, <1>3 DEF BalanceFits
<1> QED
  BY <1>1, <1>4, <1>5, <1>6, <1>7 DEF Sound, Active

(* The pool drops a thread.                                                *)
LEMMA ExpireKeeps ==
  ASSUME ClientInv, NEW w \in Workers, Expire(w), UNCHANGED clientVars
  PROVE  ClientInv'
<1>1. Moves(w) /\ TypeInv /\ Sound(w)
  BY DEF Moves, ClientInv
<1>2. TypeInv'
  BY <1>1, MoveKeepsTypes
<1>4. UNCHANGED <<job, tasks, ledger, usage, script, made>>
  BY DEF Expire, tables, clientVars
<1>5. Alone'
  BY <1>4 DEF Alone, Active, ClientInv
<1>6. \A v \in Workers : Sound(v)'
  BY <1>4, SoundStays DEF ClientInv
<1>7. script' \in Seq(Lines) /\ made' \in Seq(TaskIds)
  BY <1>4 DEF ClientInv
<1> QED
  BY <1>2, <1>5, <1>6, <1>7 DEF ClientInv

(* The tables of a new database have their types.                          *)
LEMMA NewTyped ==
  /\ NewDatabase.tasks \in [TaskIds -> Task \cup {NoTask}]
  /\ NewDatabase.ledger \in [Children -> Seq(LedgerEntry)]
  /\ NewDatabase.usage \in [Children -> [Sessions -> UsageSession \cup {NoRow}]]
BY DEF NewDatabase

(* The client drops the tables and begins anew.                            *)
LEMMA ResetKeeps ==
  ASSUME ClientInv, ResetDatabase
  PROVE  ClientInv'
<1>1. Quiet /\ UNCHANGED <<locks, job, accepted, failed>>
  BY DEF ResetDatabase
<1>2. \A v \in Workers : job'[v].step = "idle"
  BY <1>1 DEF Quiet
<1>3. TypeInv'
  <2>1. TablesTyped'
    BY NewTyped DEF ResetDatabase, TablesTyped
  <2>2. \A v \in Workers : Running(v)'
    BY <1>1, <1>2 DEF ClientInv, TypeInv, Running
  <2> QED
    BY <1>1, <2>1, <2>2 DEF ClientInv, TypeInv, TypeOK, TablesTyped
<1>5. Alone' /\ \A v \in Workers : Sound(v)'
  BY <1>2 DEF Alone, Active, Sound
<1>6. script' \in Seq(Lines) /\ made' \in Seq(TaskIds)
  BY DEF ResetDatabase, ClientInv
<1> QED
  BY <1>3, <1>5, <1>6 DEF ClientInv

(* ClientInv is inductive.                                                 *)
LEMMA ClientStep ==
  ASSUME ClientInv, [ClientNext]_<<vars, clientVars>>
  PROVE  ClientInv'
<1>1. CASE ClientNext
  BY <1>1, ResetKeeps, SendKeeps, HandleKeeps, ExpireKeeps DEF ClientNext
<1>2. CASE UNCHANGED <<vars, clientVars>>
  <2>1. UNCHANGED <<tasks, ledger, usage, locks, job, accepted, failed, script, made>>
    BY <1>2 DEF vars, clientVars
  <2>2. TypeInv'
    BY <2>1 DEF ClientInv, TypeInv, TypeOK, Running, Admitted, TaskFound, BatchFits, Recorded
  <2>3. Alone'
    BY <2>1 DEF ClientInv, Alone, Active
  <2>4. \A v \in Workers : Sound(v)'
    BY <2>1, SoundStays DEF ClientInv
  <2>5. script' \in Seq(Lines) /\ made' \in Seq(TaskIds)
    BY <2>1 DEF ClientInv
  <2> QED
    BY <2>2, <2>3, <2>4, <2>5 DEF ClientInv
<1> QED
  BY <1>1, <1>2

(* The client starts with a server at rest.                                *)
LEMMA ClientBegins == ClientInit => ClientInv /\ LocksFollow
<1> SUFFICES ASSUME ClientInit PROVE ClientInv /\ LocksFollow
  OBVIOUS
<1>1. Init /\ script \in Seq(Lines) /\ made \in Seq(TaskIds)
  BY ScriptsAssumption DEF ClientInit
<1>2. TypeInv
  BY <1>1, TypeInit
<1>3. \A v \in Workers : job[v].step = "idle"
  BY <1>1 DEF Init, Answered
<1>4. Alone /\ \A v \in Workers : Sound(v)
  BY <1>3 DEF Alone, Active, Sound
<1>5. LocksFollow
  BY <1>1, NobodyAssumption DEF Init, NoLocks, LocksFollow
<1> QED
  BY <1>1, <1>2, <1>4, <1>5 DEF ClientInv

(* Where no number is too large the locks follow the handlers.             *)
LEMMA FollowStep ==
  ASSUME ClientInv, LocksFollow, Fits, [ClientNext]_<<vars, clientVars>>
  PROVE  LocksFollow'
<1>1. ASSUME NEW w \in Workers, Moves(w)
      PROVE  LocksFollow'
  BY <1>1, LocksFollowStep DEF ClientInv
<1>2. ASSUME NEW w \in Workers, Send(w) \/ Handle(w) \/ Expire(w)
      PROVE  Moves(w)
  BY <1>2, SendsWhat DEF Handle, Moves
<1>3. ResetDatabase => LocksFollow'
  BY DEF ResetDatabase, LocksFollow
<1>4. UNCHANGED <<vars, clientVars>> => LocksFollow'
  BY DEF vars, LocksFollow
<1> QED
  BY <1>1, <1>2, <1>3, <1>4 DEF ClientNext

(* With no handler running no lock is held: the lock record is the one the *)
(* server starts with.                                                     *)
LEMMA QuietNoLocks ==
  ASSUME ClientInv, LocksFollow, Quiet
  PROVE  locks = NoLocks
<1>1. locks \in Locks
  BY DEF ClientInv, TypeInv, TypeOK
<1>2. \A k \in Workers : job[k].step = "idle" /\ job[k].fetching = FALSE
  BY StepTables, NotFetching DEF Quiet, ClientInv
<1>3. \A k \in Workers : /\ k \notin locks.begun /\ k \notin locks.open
                         /\ locks.reads[k] = {} /\ locks.writer # k
  BY <1>1, <1>2, StepTables DEF LocksFollow
<1>4. locks.begun = {} /\ locks.open = {} /\ locks.writer = Nobody
  BY <1>1, <1>3 DEF Locks
<1>5. locks.reads = [k \in Workers |-> {}]
  BY <1>1, <1>3 DEF Locks
<1>6. locks.writes = {} /\ locks.pending = FALSE
  BY <1>1, <1>4 DEF LocksFollow, Locks
<1> QED
  BY <1>1, <1>4, <1>5, <1>6 DEF NoLocks, Locks

(* For a client that waits for each answer, no connection is inside a      *)
(* transaction between two requests: reset_db is never refused.            *)
THEOREM ResetNeverRefused == ClientSpec /\ []Fits => []NothingLeftOpen
<1>1. ClientInv /\ [ClientNext]_<<vars, clientVars>> => ClientInv'
  BY ClientStep
<1>2. ClientInv /\ LocksFollow /\ Fits /\ [ClientNext]_<<vars, clientVars>> => LocksFollow'
  BY FollowStep
<1>3. ClientInv /\ LocksFollow => NothingLeftOpen
  BY QuietNoLocks DEF NothingLeftOpen
<1> QED
  BY ClientBegins, <1>1, <1>2, <1>3, PTL DEF ClientSpec

-----------------------------------------------------------------------------
(***************************************************************************)
(* What fails, whatever the numbers are.                                   *)
(***************************************************************************)
(* The writer is inside a transaction, only it keeps write locks, and only *)
(* for it are new transactions kept waiting.                               *)
Orderly(lk) ==
  /\ lk.writer = Nobody => lk.writes = {}
  /\ lk.writer # Nobody => lk.writer \in lk.begun
  /\ lk.pending => lk.writer # Nobody /\ lk.writer \in lk.open

(* Outside a transaction a connection reads only while it fetches.         *)
LocksLeft ==
  /\ Orderly(locks)
  /\ \A k \in Workers : locks.reads[k] # {} => job[k].fetching \/ k \in locks.begun

(* What the statements of k do to the order and to the read locks.         *)
LEMMA OrderKept ==
  ASSUME NEW lk \in Locks, Orderly(lk), NEW k \in Workers
  PROVE  /\ LET r == Release(lk, k)
            IN  Orderly(r) /\ r.reads[k] = {} /\ \A v \in Workers \ {k} :
                  r.reads[v] = lk.reads[v] /\ (v \in lk.begun => v \in r.begun)
         /\ \A table \in Tables :
              LET r == Read(lk, k, table)
              IN  Orderly(r) /\ r.begun = lk.begun /\ \A v \in Workers \ {k} :
                    r.reads[v] = lk.reads[v]
         /\ \A r \in {Write(lk, k, table) : table \in Tables}
                  \cup {WriteRefused(lk, k), [lk EXCEPT !.begun = @ \cup {k}]} :
              Orderly(r) /\ r.begun = lk.begun \cup {k} /\ r.reads = lk.reads
         /\ LET r == ReadRefused(lk, k)
            IN  Orderly(r) /\ r.begun = lk.begun /\ r.reads = lk.reads
<1>1. LET r == Release(lk, k)
      IN  Orderly(r) /\ r.reads[k] = {} /\ \A v \in Workers \ {k} :
            r.reads[v] = lk.reads[v] /\ (v \in lk.begun => v \in r.begun)
  <2> DEFINE r == Release(lk, k)
  <2>1. /\ r.begun = lk.begun \ {k} /\ r.open = lk.open \ {k}
        /\ r.writer = (IF lk.writer = k THEN Nobody ELSE lk.writer)
        /\ r.writes = (IF lk.writer = k THEN {} ELSE lk.writes)
        /\ r.pending => lk.pending /\ lk.writer # k
        /\ r.reads[k] = {} /\ \A v \in Workers \ {k} : r.reads[v] = lk.reads[v]
    BY DEF Release, Locks
  <2> HIDE DEF r
  <2>2. Orderly(r)
    BY <2>1, NobodyAssumption DEF Orderly
  <2>3. \A v \in Workers \ {k} : v \in lk.begun => v \in r.begun
    BY <2>1
  <2> QED
    BY <2>1, <2>2, <2>3 DEF r
<1>2. ASSUME NEW table \in Tables
      PROVE  LET r == Read(lk, k, table)
             IN  Orderly(r) /\ r.begun = lk.begun /\ \A v \in Workers \ {k} :
                   r.reads[v] = lk.reads[v]
  BY DEF Read, Orderly, Locks
<1>3. ASSUME NEW table \in Tables
      PROVE  LET r == Write(lk, k, table)
             IN  Orderly(r) /\ r.begun = lk.begun \cup {k} /\ r.reads = lk.reads
  BY NobodyAssumption DEF Write, Orderly, Locks
<1>4. LET r == WriteRefused(lk, k)
      IN  Orderly(r) /\ r.begun = lk.begun \cup {k} /\ r.reads = lk.reads
  BY NobodyAssumption DEF WriteRefused, MayBecomeWriter, Orderly, Locks
<1>5. LET r == [lk EXCEPT !.begun = @ \cup {k}]
      IN  Orderly(r) /\ r.begun = lk.begun \cup {k} /\ r.reads = lk.reads
  BY DEF Orderly, Locks
<1>6. LET r == ReadRefused(lk, k)
      IN  Orderly(r) /\ r.begun = lk.begun /\ r.reads = lk.reads
  BY DEF ReadRefused, Orderly, Locks
<1>7. \A r \in {Write(lk, k, table) : table \in Tables}
              \cup {WriteRefused(lk, k), [lk EXCEPT !.begun = @ \cup {k}]} :
        Orderly(r) /\ r.begun = lk.begun \cup {k} /\ r.reads = lk.reads
  BY <1>3, <1>4, <1>5
<1> QED
  BY <1>1, <1>2, <1>6, <1>7

(* Every step leaves the locks so, those that fail among them.             *)
LEMMA LocksLeftStep ==
  ASSUME TypeInv, LocksLeft, NEW w \in Workers, Moves(w)
  PROVE  LocksLeft'
<1>1. locks \in Locks /\ \A v \in Workers \ {w} : job'[v] = job[v]
  BY MovesKept DEF TypeInv, TypeOK, Kept, JobTyped, Others
<1>2. ASSUME Orderly(locks'), locks'.reads[w] # {} => job'[w].fetching \/ w \in locks'.begun,
             \A v \in Workers \ {w} : /\ locks'.reads[v] = locks.reads[v]
                                      /\ v \in locks.begun => v \in locks'.begun
      PROVE  LocksLeft'
  <2>1. ASSUME NEW k \in Workers, locks'.reads[k] # {}
        PROVE  job'[k].fetching \/ k \in locks'.begun
    <3>1. CASE k = w
      BY <1>2, <2>1, <3>1
    <3>2. CASE k # w
      BY <1>1, <1>2, <2>1, <3>2 DEF LocksLeft
    <3> QED
      BY <3>1, <3>2
  <2> QED
    BY <1>2, <2>1 DEF LocksLeft
<1>3. ASSUME NEW lk \in Locks, Orderly(lk), locks' = Release(lk, w),
             \A v \in Workers \ {w} : /\ lk.reads[v] = locks.reads[v]
                                      /\ v \in locks.begun => v \in lk.begun
      PROVE  LocksLeft'
  <2>1. /\ Orderly(locks') /\ locks'.reads[w] = {}
        /\ \A v \in Workers \ {w} : /\ locks'.reads[v] = lk.reads[v]
                                    /\ v \in lk.begun => v \in locks'.begun
    BY <1>3, OrderKept
  <2>2. \A v \in Workers \ {w} : /\ locks'.reads[v] = locks.reads[v]
                                 /\ v \in locks.begun => v \in locks'.begun
    BY <1>3, <2>1
  <2> QED
    BY <1>2, <2>1, <2>2
<1>4. ASSUME NEW lk \in Locks, Orderly(lk), locks' = EndStatement(lk, w), lk.begun = locks.begun,
             \A v \in Workers \ {w} : lk.reads[v] = locks.reads[v]
      PROVE  LocksLeft'
  <2>1. CASE w \in lk.begun
    <3>1. locks' = lk
      BY <1>4, <2>1 DEF EndStatement
    <3> QED
      BY <1>2, <1>4, <2>1, <3>1
  <2>2. CASE w \notin lk.begun
    <3>1. locks' = Release(lk, w)
      BY <1>4, <2>2 DEF EndStatement
    <3> QED
      BY <1>3, <1>4, <3>1
  <2> QED
    BY <2>1, <2>2
<1>5. ASSUME NEW table \in Tables, locks' = EndStatement(Read(locks, w, table), w)
      PROVE  LocksLeft'
  <2> DEFINE lk == Read(locks, w, table)
  <2>1. lk \in Locks
    BY <1>1, LockTypes
  <2>2. Orderly(lk) /\ lk.begun = locks.begun
          /\ \A v \in Workers \ {w} : lk.reads[v] = locks.reads[v]
    BY <1>1, OrderKept DEF LocksLeft
  <2>3. locks' = EndStatement(lk, w)
    BY <1>5
  <2> HIDE DEF lk
  <2> QED
    BY <1>4, <2>1, <2>2, <2>3
<1>6. ASSUME Orderly(locks'), locks'.begun = locks.begun \cup {w}, locks'.reads = locks.reads
      PROVE  LocksLeft'
  BY <1>2, <1>6
<1>7. ASSUME Execute(w) PROVE LocksLeft'
  <2>1. /\ job'[w].fetching = TRUE /\ ReadAt[job[w].step] \in Tables
        /\ locks' = Read(locks, w, ReadAt[job[w].step])
    BY <1>7, ExecuteKept, StepTables DEF Execute
  <2>2. /\ Orderly(locks') /\ locks'.begun = locks.begun
        /\ \A v \in Workers \ {w} : locks'.reads[v] = locks.reads[v]
    BY <1>1, <2>1, OrderKept DEF LocksLeft
  <2> QED
    BY <1>2, <2>1, <2>2
<1>8. ASSUME job[w].fetching = FALSE, Orderly(locks'), locks'.begun = locks.begun,
             locks'.reads = locks.reads
      PROVE  LocksLeft'
  <2>1. locks.reads[w] # {} => w \in locks.begun
    BY <1>8 DEF LocksLeft
  <2> QED
    BY <1>2, <1>8, <2>1
<1>9. Fails(w) => job[w].fetching = FALSE
  <2>1. LockedOut(w) \/ Overflow(w) => ~job[w].fetching
    BY DEF LockedOut, Refused, Overflow
  <2>2. KeyTaken(w) => job[w].step \notin DOMAIN ReadAt
    BY StepTables DEF KeyTaken, Modify
  <2>3. job[w].fetching \in BOOLEAN
    <3>1. job[w] \in Job
      BY DEF TypeInv, TypeOK
    <3> QED
      BY <3>1 DEF Job
  <2> QED
    BY <2>1, <2>2, <2>3, NotFetching DEF Fails
<1>10. Rests(w) => job[w].fetching = FALSE
  <2>1. Rests(w) => job[w].step \notin DOMAIN ReadAt
    BY StepTables DEF Rests
  <2> QED
    BY <2>1, NotFetching
<1>11. ASSUME Fails(w), locks' \in {locks, ReadRefused(locks, w), WriteRefused(locks, w),
                                   [locks EXCEPT !.begun = @ \cup {w}]}
       PROVE  LocksLeft'
  <2>1. CASE locks' \in {locks, ReadRefused(locks, w)}
    <3>1. Orderly(locks') /\ locks'.begun = locks.begun /\ locks'.reads = locks.reads
      BY <1>1, <2>1, OrderKept DEF LocksLeft
    <3> QED
      BY <1>8, <1>9, <1>11, <3>1
  <2>2. CASE locks' \in {WriteRefused(locks, w), [locks EXCEPT !.begun = @ \cup {w}]}
    <3>1. /\ Orderly(locks') /\ locks'.begun = locks.begun \cup {w}
          /\ locks'.reads = locks.reads
      BY <1>1, <2>2, OrderKept DEF LocksLeft
    <3> QED
      BY <1>6, <3>1
  <2> QED
    BY <1>11, <2>1, <2>2
<1>12. ASSUME NEW step \in DOMAIN WriteAt, locks' = Write(locks, w, WriteAt[step])
       PROVE  LocksLeft'
  <2>1. WriteAt[step] \in Tables
    BY StepTables
  <2>2. /\ Orderly(locks') /\ locks'.begun = locks.begun \cup {w}
        /\ locks'.reads = locks.reads
    BY <1>1, <1>12, <2>1, OrderKept DEF LocksLeft
  <2> QED
    BY <1>6, <2>2
<1>13. locks' = Release(locks, w) => LocksLeft'
  BY <1>1, <1>3 DEF LocksLeft
<1>14. locks' = EndStatement(locks, w) => LocksLeft'
  BY <1>1, <1>4 DEF LocksLeft
<1>15. Rests(w) /\ locks' = locks => LocksLeft'
  BY <1>8, <1>10 DEF LocksLeft
<1>16. Shape(w)
  BY MovesShape
<1> QED
  BY <1>5, <1>7, <1>11, <1>12, <1>13, <1>14, <1>15, <1>16, ShapeLocks

(* The same for the client's steps.                                        *)
LEMMA LocksLeftAlways ==
  ASSUME ClientInv, LocksLeft, [ClientNext]_<<vars, clientVars>>
  PROVE  LocksLeft'
<1>1. ASSUME NEW w \in Workers, Send(w) \/ Handle(w) \/ Expire(w)
      PROVE  LocksLeft'
  <2>1. Moves(w)
    BY <1>1, SendsWhat DEF Handle, Moves
  <2> QED
    BY <2>1, LocksLeftStep DEF ClientInv
<1>2. ResetDatabase => LocksLeft'
  BY DEF ResetDatabase, LocksLeft
<1>3. UNCHANGED <<vars, clientVars>> => LocksLeft'
  BY DEF vars, LocksLeft
<1> QED
  BY <1>1, <1>2, <1>3 DEF ClientNext

(* A handler that is alone fails at a number, or where an earlier failure  *)
(* has left another connection inside a transaction.                       *)
LEMMA FailsAt ==
  ASSUME ClientInv, LocksLeft, NEW w \in Workers, Active(w), Failing(w),
         locks.begun \ {w} = {}
  PROVE  TooLarge(w)
<1>1. locks \in Locks /\ TypeInv /\ Sound(w)
  BY DEF ClientInv, TypeInv, TypeOK
<1>2. ASSUME NEW v \in Workers, v # w
      PROVE  v \notin locks.begun /\ locks.reads[v] = {} /\ locks.writer # v
  <2>1. job[v].step = "idle"
    BY <1>2 DEF ClientInv, Alone, Active
  <2>2. job[v].fetching = FALSE
    BY <1>1, <2>1, StepTables, NotFetching
  <2>3. v \notin locks.begun
    BY <1>2
  <2>4. locks.writer # v
    BY <2>3, NobodyAssumption DEF LocksLeft, Orderly
  <2> QED
    BY <2>2, <2>3, <2>4 DEF LocksLeft
<1>3. locks.writer \in {w, Nobody}
  <2>1. locks.writer \in Workers \cup {Nobody}
    BY <1>1 DEF Locks
  <2> QED
    BY <1>2, <2>1
<1>4. CanBegin(locks, w)
  BY <1>3 DEF LocksLeft, Orderly, CanBegin
<1>5. \A table \in Tables : CanRead(locks, w, table)
  BY <1>3, <1>4 DEF CanRead, LocksLeft, Orderly
<1>6. \A table \in Tables : CanWrite(locks, w, table)
  BY <1>2, <1>3 DEF CanWrite, MayBecomeWriter
<1>7. ~LockedOut(w)
  BY <1>5, <1>6, StepTables DEF LockedOut, Refused
<1>8. ~KeyTaken(w)
  <2> SUFFICES ASSUME KeyTaken(w) PROVE FALSE
    OBVIOUS
  <2>1. job[w].step = "insert_session" /\ Recorded(User(w), Head(job[w].todo))
    BY DEF KeyTaken, Modify
  <2>2. Op(w) = "usage"
    BY <1>1, <2>1, AtStep
  <2> QED
    BY <1>1, <2>1, <2>2 DEF Sound, SessionFits
<1> QED
  BY <1>7, <1>8 DEF Failing, Overflow

(* The request that w handles is answered 500.                             *)
Answers500(w) == Active(w) /\ job'[w].code = 500

(* Nothing but a failing statement answers 500.                            *)
LEMMA OnlyFailuresAnswer500 ==
  ASSUME TypeInv, NEW w \in Workers, Step(w), Answers500(w)
  PROVE  Failing(w)
<1> SUFFICES ASSUME ~Failing(w) PROVE FALSE
  OBVIOUS
<1>1. job[w].step # "idle"
  BY StepActive DEF Active
<1>2. job'[w].step = "idle"
  <2>1. Running(w)'
    BY MovesKept DEF Moves, Kept
  <2> QED
    BY <2>1 DEF Running, Admitted, Answers500
<1>3. ASSUME NEW code \in Codes, Answer(w, code) PROVE code = 500
  <2>1. job'[w].code = code
    BY <1>3, GoesTo
  <2> QED
    BY <2>1 DEF Answers500
<1>4. ~Execute(w)
  BY <1>1, <1>2, ExecuteKept
<1>5. ~InsertTask(w) /\ ~UpdateTask(w) /\ ~InsertSession(w) /\ ~InsertEntry(w)
  <2>1. InsertTask(w) \/ UpdateTask(w) => job'[w].step = "commit_task"
    BY JobKeeps DEF InsertTask, UpdateTask
  <2> QED
    BY <1>2, <2>1, InsertSessionKept, InsertEntryKept
<1>6. ~ReadBalance(w) /\ ~Cover(w)
  BY <1>2, ReadBalanceKept, CoverKept
<1>7. ASSUME NEW step \in Steps \ {"idle"} PROVE ~Goto(w, step)
  <2>1. Goto(w, step) => job'[w].step = step
    BY <1>7, GoesTo
  <2> QED
    BY <1>2, <1>7, <2>1
<1>8. ~CheckChild(w) /\ ~GetTask(w) /\ ~CheckFamily(w) /\ ~Recheck(w) /\ ~CheckAccess(w)
  <2> DEFINE Onward == {"insert_task", "check_family", "recheck", "update_task", "history", "view"}
  <2>1. Onward \subseteq Steps \ {"idle"}
    BY StepTables DEF Steps
  <2>2. \A code \in {200, 201, 400, 403, 404, 422} : ~Answer(w, code)
    BY <1>3 DEF Codes
  <2>3. CheckChild(w) => \E code \in {400, 403, 404, 422} : Goto(w, "insert_task") \/ Answer(w, code)
    <3>1. CreateCode(job[w].req.user, job[w].req.child, job[w].req.reward) \in {201, 400, 403, 404, 422}
      BY DEF CreateCode
    <3> QED
      BY <3>1 DEF CheckChild
  <2>4. GetTask(w) \/ CheckFamily(w) =>
          \E code \in {403, 404} : \/ Goto(w, "check_family") \/ Goto(w, "recheck")
                                   \/ Answer(w, code)
    BY CodesType DEF GetTask, CheckFamily
  <2>5. Recheck(w) => \E code \in {400, 403, 404} : Goto(w, "update_task") \/ Answer(w, code)
    BY CodesType DEF Recheck
  <2>6. CheckAccess(w) =>
          \E code \in {403, 404} : \/ Goto(w, "history") \/ Goto(w, "view")
                                   \/ Answer(w, code)
    BY CodesType DEF CheckAccess
  <2> QED
    BY <1>7, <2>1, <2>2, <2>3, <2>4, <2>5, <2>6
<1>9. ~Answer(w, 200) /\ ~Answer(w, 201)
  BY <1>3 DEF Codes
<1>10. ~(Op(w) = "usage" /\ NextSession(w))
  <2>1. job[w].code = 0
    BY <1>1, AtStep DEF Admitted
  <2>2. Op(w) = "usage" /\ NextSession(w) => job'[w].code \in {200, job[w].code}
    BY <1>1, GoesTo
  <2> QED
    BY <2>1, <2>2 DEF Answers500
<1>11. ~CommitTask(w) /\ ~CommitEntry(w) /\ ~CommitSession(w) /\ ~FindExisting(w)
  <2>1. "get_balance" \in Steps \ {"idle"} /\ "cover" \in Steps \ {"idle"}
    BY StepTables DEF Steps
  <2>2. CommitTask(w) => Goto(w, "get_balance") \/ Answer(w, 200) \/ Answer(w, 201)
    BY DEF CommitTask
  <2>3. CommitEntry(w) => (Op(w) = "usage" /\ NextSession(w)) \/ Answer(w, 200)
    BY DEF CommitEntry
  <2>4. FindExisting(w) \/ CommitSession(w) => Op(w) = "usage"
    BY AtStep DEF FindExisting, Fetch, CommitSession, Commit
  <2>5. FindExisting(w) \/ CommitSession(w) =>
          Goto(w, "cover") \/ Goto(w, "get_balance") \/ NextSession(w)
    BY DEF FindExisting, CommitSession
  <2> QED
    BY <1>7, <1>9, <1>10, <2>1, <2>2, <2>3, <2>4, <2>5
<1>12. ~ViewBalance(w) /\ ~Health(w) /\ ~Audit(w)
  BY <1>9, AnswersWith DEF ViewBalance, Health, Answers500
<1>13. ~ReadHistory(w) /\ ~ReadLast(w)
  <2>1. ReadHistory(w) => Goto(w, "last")
    BY DEF ReadHistory
  <2>2. "last" \in Steps \ {"idle"}
    BY StepTables DEF Steps
  <2>3. ReadLast(w) => job'[w].step = "sum"
    <3>1. job \in [Workers -> Job] /\ job[w] \in Job
      BY DEF TypeInv, TypeOK
    <3> QED
      BY <3>1 DEF ReadLast, Job
  <2> QED
    BY <1>2, <1>7, <2>1, <2>2, <2>3
<1> QED
  BY <1>4, <1>5, <1>6, <1>8, <1>11, <1>12, <1>13 DEF Step, Failing

(* Why it does.                                                            *)
Traced(w) == TooLarge(w) \/ locks.begun \ {w} # {}

LEMMA FailureTraced ==
  ASSUME ClientInv, LocksLeft, ClientNext, NEW w \in Workers, Answers500(w)
  PROVE  Traced(w)
<1>1. TypeInv /\ Active(w) /\ job'[w].code = 500
  BY DEF ClientInv, Answers500
<1>2. job[w].code = 0
  BY <1>1, AtStep DEF Admitted, Active
<1>3. ~ResetDatabase /\ \A v \in Workers : ~Send(v) /\ ~Expire(v)
  <2>1. ~Quiet
    BY <1>1 DEF Quiet, Active
  <2>2. job' # job
    BY <1>1, <1>2
  <2> QED
    BY <2>1, <2>2 DEF ResetDatabase, Send, Expire
<1>4. PICK v \in Workers : Handle(v)
  BY <1>3 DEF ClientNext
<1>5. Step(v) /\ v = w
  BY <1>1, <1>4, StepActive DEF Handle, ClientInv, Alone
<1>6. Failing(w)
  BY <1>1, <1>5, OnlyFailuresAnswer500
<1> QED
  BY <1>1, <1>6, FailsAt DEF Traced

(* For a client that waits for each answer, whatever the tables and the    *)
(* numbers, a request fails only at a statement whose number SQLite cannot *)
(* store, or where such a failure has left another connection inside its   *)
(* transaction: never because of the UNIQUE key or of locks alone.         *)
THEOREM FailuresExplained == ClientSpec => FailuresTraced
<1>1. ClientInit => ClientInv /\ LocksLeft
  <2>1. ClientInit => LocksLeft
    BY DEF ClientInit, Init, NoLocks, LocksLeft, Orderly
  <2> QED
    BY <2>1, ClientBegins
<1>2. ClientInv /\ [ClientNext]_<<vars, clientVars>> => ClientInv'
  BY ClientStep
<1>3. ClientInv /\ LocksLeft /\ [ClientNext]_<<vars, clientVars>> => LocksLeft'
  BY LocksLeftAlways
<1>4. ClientInv /\ LocksLeft /\ [ClientNext]_<<vars, clientVars>> =>
        [\A w \in Workers : job[w].step # "idle" /\ job'[w].code = 500
            => TooLarge(w) \/ locks.begun \ {w} # {}]_<<vars, clientVars>>
  BY FailureTraced DEF Answers500, Active, Traced
<1> QED
  BY <1>1, <1>2, <1>3, <1>4, PTL DEF ClientSpec, FailuresTraced
=============================================================================
