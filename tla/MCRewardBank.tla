---------------------------- MODULE MCRewardBank ----------------------------
(***************************************************************************)
(* A small instance of RewardBank: a family, and a stranger to it.         *)
(***************************************************************************)
EXTENDS RewardBank

CONSTANTS alice, bob, charlie, zoe, smith, jones

(* The users of seed_data and the parent of another household, which the   *)
(* schema allows: to bob, charlie is a sibling and zoe has no rights.      *)
TwoRole == alice :> "parent" @@ bob :> "child" @@ charlie :> "child" @@ zoe :> "parent"
TwoFamily == alice :> smith @@ bob :> smith @@ charlie :> smith @@ zoe :> jones

(* 61 seconds are charged as two minutes, 60 as one.                       *)
Session(app, start, end, spelled) ==
  [app |-> app, start |-> start, end |-> end, spelled |-> spelled]

Short == Session("youtube", 0, 60, "zulu")
Long  == Session("roblox", 60, 121, "zulu")
Bad   == Session("roblox", 60, 60, "zulu")
Mixed == Session("roblox", 60, 121, "mixed")

FourSessions == {Short, Long, Bad, Mixed}
SomeBatches  == {<<>>, <<Short>>, <<Long, Short, Short>>, <<Short, Bad>>, <<Short, Mixed>>}

(* Task ids are interchangeable, and so are the two children.              *)
Names == Permutations(TaskIds) \cup Permutations({bob, charlie})
=============================================================================
