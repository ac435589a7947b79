-------------------------- MODULE MCThreadedServer --------------------------
(***************************************************************************)
(* Small instances of ThreadedServer: a parent and a child, two threads.   *)
(***************************************************************************)
EXTENDS ThreadedServer

CONSTANTS alice, bob, smith, t1, t2, t3

MCRole   == alice :> "parent" @@ bob :> "child"
MCFamily == alice :> smith @@ bob :> smith

Session(app, start, end, spelled) ==
  [app |-> app, start |-> start, end |-> end, spelled |-> spelled]

Short == Session("youtube", 0, 60, "zulu")
Long  == Session("roblox", 60, 121, "zulu")
MCSessions == {Short, Long}

(* What a parent and a child may ask for.                                  *)
Approve(t) == [op |-> "approve", user |-> alice, task |-> t]
Reject(t)  == [op |-> "reject", user |-> alice, task |-> t]
Undo(t)    == [op |-> "undo", user |-> alice, task |-> t]
Done(t)    == [op |-> "done", user |-> bob, task |-> t]
Create     == [op |-> "create", user |-> alice, child |-> bob, reward |-> 2]
Misplaced  == [op |-> "create", user |-> alice, child |-> Stranger, reward |-> 2]
Enormous   == [op |-> "create", user |-> alice, child |-> bob, reward |-> 9]
Usage(b)   == [op |-> "usage", user |-> bob, sessions |-> b]
Balance    == [op |-> "balance", user |-> bob, child |-> bob]
Ledger     == [op |-> "ledger", user |-> alice, child |-> bob]
Probe      == [op |-> "health", user |-> Stranger]
NoHeader   == [op |-> "no_header", user |-> Stranger]

(* Databases left by requests answered one after the other: nothing yet;   *)
(* one task done and one approved; one pending and one approved; both done.*)
TaskRow(status) ==
  [child_id |-> bob, family_id |-> smith, reward_minutes |-> 2, status |-> status]

Database(first, second, entries) ==
  [tasks  |-> [t \in TaskIds |-> CASE t = t1 -> first [] t = t2 -> second [] OTHER -> NoTask],
   ledger |-> [c \in Children |-> entries],
   usage  |-> [c \in Children |-> [s \in Sessions |-> NoRow]]]

Empty    == Database(NoTask, NoTask, <<>>)
Earned   == Database(TaskRow("done"), TaskRow("approved"),
                     <<NewEntry("credit", 2, t2, 0)>>)
Open     == Database(TaskRow("pending"), TaskRow("approved"),
                     <<NewEntry("credit", 2, t2, 0)>>)
BothDone == Database(TaskRow("done"), TaskRow("done"), <<>>)

SomeDatabases    == {Empty, Earned}
OpenDatabase     == {Open}
EarnedDatabase   == {Earned}
BothDoneDatabase == {BothDone}

TaskMenu  == {Create, Misplaced, Enormous, Done(t1), Approve(t1), Reject(t1), Undo(t2)}
UsageMenu == {Usage(<<Short, Long>>), Usage(<<Long>>)}
ViewMenu  == {Balance, Ledger, Probe, NoHeader}
AnyKind   == {Create, Done(t1), Approve(t1), Reject(t1), Undo(t2), Usage(<<Short, Long>>), Ledger}
FullMenu  == TaskMenu \cup UsageMenu \cup ViewMenu

ApprovalMenu   == {Approve(t1), Approve(t2)}
DoubleClick    == {Approve(t1)}
TwoApps        == {Usage(<<Short>>), Usage(<<Long>>)}
Retry          == {Usage(<<Long>>)}
ApproveAndUse  == {Approve(t1), Usage(<<Long>>)}
ApproveAndAudit == {Approve(t1), Ledger}
ApproveAndView == {Approve(t1), Balance}

Threads == Permutations(Workers)
=============================================================================
