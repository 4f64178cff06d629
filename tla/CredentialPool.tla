---------------------------- MODULE CredentialPool ----------------------------
(***************************************************************************)
(* What the manager and the scheduler together promise a request that asks *)
(* for an auth, without saying how: no copies, no calls under way, no      *)
(* rebuilds.  SchedulerSync implements it.                                 *)
(*   - The pool knows the auths it was given; it learns of one only by     *)
(*     being given it, and it may forget one nobody relies on.             *)
(*   - A pick succeeds only if the pool knows an auth.                     *)
(*   - A pick fails only if there is no auth that was ready, beyond doubt, *)
(*     ever since the pick began.                                          *)
(***************************************************************************)
CONSTANTS Auths, Pickers

VARIABLES
    known,       \* the auths the pool may offer, now or later
    phase,       \* what each request is at
    sure         \* the auths each request may count on

poolVars == <<known, phase, sure>>

PoolTypeOK ==
    /\ known \in SUBSET Auths
    /\ phase \in [Pickers -> {"idle", "picking", "failed"}]
    /\ sure \in [Pickers -> SUBSET known]

PoolInit ==
    /\ known = {}
    /\ phase = [p \in Pickers |-> "idle"]
    /\ sure = [p \in Pickers |-> {}]

\* As it goes, the pool may forget auths nobody counts on.
Forgetting ==
    /\ known' \in SUBSET known
    /\ \A p \in Pickers : sure'[p] \subseteq known'

\* Register or Update gives the pool an auth, in whatever state.
Give(a) ==
    /\ known' \subseteq known \cup {a} /\ a \in known'
    /\ sure' \in {sure, [p \in Pickers |-> sure[p] \ {a}]}
    /\ \A p \in Pickers : sure'[p] \subseteq known'
    /\ UNCHANGED phase

\* A result, a removal or a failed refresh makes an auth doubtful.
Doubt(a) ==
    /\ sure' = [p \in Pickers |-> sure[p] \ {a}]
    /\ UNCHANGED phase

Begin(p) ==
    /\ phase[p] = "idle"
    /\ phase' = [phase EXCEPT ![p] = "picking"]
    /\ \E ready \in SUBSET known : sure' = [sure EXCEPT ![p] = ready]

\* The request has its auth.
Found(p) ==
    /\ phase[p] = "picking" /\ known # {}
    /\ phase' = [phase EXCEPT ![p] = "idle"]
    /\ sure' = [sure EXCEPT ![p] = {}]

NoneReady(p) ==
    /\ phase[p] = "picking" /\ sure[p] = {}
    /\ phase' = [phase EXCEPT ![p] = "failed"]
    /\ UNCHANGED sure

Told(p) ==
    /\ phase[p] = "failed"
    /\ phase' = [phase EXCEPT ![p] = "idle"]
    /\ sure' = [sure EXCEPT ![p] = {}]

PoolNext ==
    \/ \E a \in Auths : Give(a)
    \/ /\ Forgetting
       /\ \/ \E a \in Auths : Doubt(a)
          \/ UNCHANGED <<phase, sure>>
          \/ \E p \in Pickers : Begin(p) \/ Found(p) \/ NoneReady(p) \/ Told(p)

PoolSpec == PoolInit /\ [][PoolNext]_poolVars
==============================================================================
