------------------------------- MODULE MCPicks -------------------------------
(***************************************************************************)
(* The two modules about what a pick returns, for one run of TLC: the      *)
(* scheduler's entries beside the manager's records, and the auths that    *)
(* sessions are bound to.  They share no variable and no property speaks   *)
(* of both, so it is enough to let one of them, the part, take steps in a  *)
(* behaviour, while the other stays as it began.  Of the scheduler either  *)
(* calls overtake each other beside one pick, or picks beside one call.    *)
(***************************************************************************)
EXTENDS MCSchedulerSync, SessionAffinity

VARIABLE part

picksVars == <<part, vars, affinityVars>>

CallsUnderWay == {c \in Callers : ~Idle(c)}
PicksUnderWay == {p \in Pickers : pick[p].pc # "idle"}

PicksInit == part \in {"calls", "picks", "affinity"} /\ Init /\ AffinityInit

PicksNext ==
    /\ UNCHANGED part
    /\ \/ part = "calls" /\ Next /\ Cardinality(PicksUnderWay') <= 1 /\ UNCHANGED affinityVars
       \/ part = "picks" /\ Next /\ Cardinality(CallsUnderWay') <= 1 /\ UNCHANGED affinityVars
       \/ part = "affinity" /\ AffinityNext /\ UNCHANGED vars

PicksSpec == PicksInit /\ [][PicksNext]_picksVars

Exchangeable == Symmetric \cup Permutations(Requests)

\* The keys of the first turn of a conversation and of the later ones.
FirstTurnsChecked == [k \in Keys |-> IF k = "later" THEN "first" ELSE NoKey]
==============================================================================
