---------------------------- MODULE MCOneAtATime ----------------------------
(***************************************************************************)
(* The scripts of the repository, with their rewards and minutes, and a    *)
(* client that may send anything.                                          *)
(***************************************************************************)
EXTENDS OneAtATime, MCThreadedServer

CONSTANT charlie

SeededRole   == MCRole @@ charlie :> "child"
SeededFamily == MCFamily @@ charlie :> smith

OneDatabase == {NewDatabase}

(* A line that sends one request, and one that sends any of several.       *)
Line(request, shows) == [send |-> {request}, shows |-> shows]
AnyOf(requests)      == [send |-> requests, shows |-> <<>>]

Reset           == Line(Resetting, <<>>)
CreateFor(m)    == Line([op |-> "create", user |-> alice, child |-> bob, reward |-> m], <<201>>)
MarkDone(n)     == Line(Done(n), <<200>>)
Approved(n)     == Line(Approve(n), <<200>>)
Rejected(n)     == Line(Reject(n), <<200>>)
Undone(n, left) == Line(Undo(n), <<left>>)

SeesBalance(m)  == Line([op |-> "balance", user |-> alice, child |-> bob], <<m>>)
SeesLedger(m)   == Line(Ledger, <<m>>)
Sees(m)         == <<SeesBalance(m), SeesLedger(m)>>
Earns(n, m)     == <<CreateFor(m), MarkDone(n), Approved(n)>>

(* isoformat() spells the offset; now is minute 100.                       *)
Used(app, from, to)      == Session(app, 60 * (100 + from), 60 * (100 + to), "offset")
Reports(sessions, shows) == Line(Usage(sessions), shows)

-----------------------------------------------------------------------------
DemoSpends ==
  <<Reset>> \o Sees(0) \o Earns(1, 30) \o Sees(30)
  \o <<Reports(<<Used("youtube", -40, 0)>>, <<30>>),
       Reports(<<Used("tiktok", 1, 11)>>, <<0>>)>>
  \o Sees(0)

DemoCorrects ==
  Earns(2, 50) \o Sees(50)
  \o <<Reports(<<Used("minecraft", 15, 35)>>, <<20>>)>> \o Sees(30)
  \o <<Undone(2, -20)>> \o Sees(-20) \o <<SeesLedger(-20)>>

Demo == DemoSpends \o DemoCorrects

NormalDay ==
  <<CreateFor(30), CreateFor(20), CreateFor(15), MarkDone(1), MarkDone(2), MarkDone(3),
    Approved(1), Approved(2), Rejected(3), SeesBalance(50),
    Reports(<<Used("youtube", -25, -10), Used("minecraft", -10, -5), Used("roblox", -5, 0)>>,
            <<15, 5, 5>>)>>
  \o Sees(25)

TabletUsed == Used("youtube-tablet", -50, -30)
PcUsed     == Used("minecraft-pc", -30, -10)
PhoneUsed  == Used("roblox-phone", -10, 0)

WorstCaseUndone ==
  Earns(1, 60) \o Sees(60)
  \o <<Reports(<<TabletUsed>>, <<20>>), Reports(<<PcUsed>>, <<20>>),
       Reports(<<PhoneUsed>>, <<10>>)>> \o Sees(10)
  \o <<Undone(1, -50)>> \o Sees(-50)
  \o <<Reports(<<Used("netflix-tablet", -90, -75)>>, <<0>>)>> \o Sees(-50)
  \o <<Reports(<<PcUsed>>, <<20>>)>> \o Sees(-50)

WorstCaseCorrected ==
  Earns(2, 80) \o Sees(30)
  \o <<Reports(<<Used("spotify", 1, 16), Used("twitch", 16, 26)>>, <<15, 10>>),
       SeesBalance(5), Reports(<<PhoneUsed>>, <<10>>),
       SeesLedger(5), SeesBalance(5), SeesLedger(5)>>

WorstCase == WorstCaseUndone \o WorstCaseCorrected

(* _get_client asks a live server for its health before every request.     *)
Live(lines) == FoldLeft(LAMBDA sent, l : sent \o <<Line(Probe, <<200>>), l>>, <<>>, lines)

-----------------------------------------------------------------------------
(* Anything, with and without the right to it, before and after a reset as *)
(* the tests have one before each of them.                                 *)
Malformed == Session("tiktok", 0, 60, "malformed")
Mixed     == Session("tiktok", 0, 60, "mixed")
Offset    == Session("youtube", 0, 60, "offset")
Backwards == Session("tiktok", 60, 60, "zulu")

TaskRequests ==
  {Create, Misplaced, [Create EXCEPT !.user = bob], [Create EXCEPT !.reward = 0],
   [Done(1) EXCEPT !.user = charlie], [Undo(1) EXCEPT !.user = bob]}
  \cup UNION {{Done(n), Approve(n), Reject(n), Undo(n)} : n \in 1..2}

UsageRequests ==
  {[Usage(<<Short>>) EXCEPT !.user = alice]}
  \cup {Usage(b) : b \in {<<>>, <<Short>>, <<Long, Short, Short>>, <<Offset>>, <<Backwards>>,
                        <<Short, Mixed, Malformed>>, <<Short, Malformed, Mixed>>}}

ViewRequests ==
  {Balance, Ledger, Probe, NoHeader, [Balance EXCEPT !.user = Stranger], [Balance EXCEPT !.child = charlie],
   [Ledger EXCEPT !.user = bob], [Ledger EXCEPT !.child = Stranger]}

Anything == TaskRequests \cup UsageRequests \cup ViewRequests

FreeClient ==
  <<CreateFor(2), MarkDone(1), AnyOf(Anything), AnyOf(Anything),
    Reset, CreateFor(2), AnyOf(Anything)>>

FreeSpender ==
  Earns(1, 2) \o <<Reports(<<Short>>, <<1>>), AnyOf(Anything), AnyOf(Anything)>>

(* Two rewards of 2 are too much for a width of 3, one of 9 for itself.    *)
OverflowClient ==
  Earns(1, 2) \o <<CreateFor(2), MarkDone(2), Line(Approve(2), <<>>)>>
  \o <<AnyOf(Anything), AnyOf(Anything), AnyOf(Anything)>>

EnormousReward == <<CreateFor(9), AnyOf(Anything), AnyOf(Anything)>>

OverflowScripts == {OverflowClient, EnormousReward}

-----------------------------------------------------------------------------
AllScripts == {Demo, NormalDay, Live(NormalDay), WorstCase, Live(WorstCase), FreeClient, FreeSpender}

Requests == UNION {UNION {l.send : l \in ToSet(lines)} : lines \in AllScripts \cup OverflowScripts}
            \ {Resetting}

ScriptMenu ==
  {q \in Requests : q.op \notin TaskOps}
  \cup {[q EXCEPT !.task = t] : q \in {r \in Requests : r.op \in TaskOps}, t \in TaskIds}

ScriptRewards  == {q.reward : q \in {r \in Requests : r.op = "create"}}
ScriptBatches  == {q.sessions : q \in {r \in Requests : r.op = "usage"}}
ScriptSessions == UNION {ToSet(b) : b \in ScriptBatches}
=============================================================================
