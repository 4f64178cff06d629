-------------------------- MODULE MCAvailabilityParts --------------------------
(***************************************************************************)
(* An editor holds a whole auth, which squares the states.  So a behaviour *)
(* has either results for the models of families, or editors and results   *)
(* for the model of none, and part says which.  Beside an editor a         *)
(* cooldown lasts one tick, and only a refresh finds the auth unauthorized.*)
(***************************************************************************)
EXTENDS MCAuthAvailability

VARIABLE part

partsVars == <<part, vars>>

PartsInit == Init /\ part \in {"families", "edits"}

BesideEdits ==
    /\ Succeed(x1) \/ Fail(x1)
    /\ auth'.states[x1].nextRetry <= 1
    /\ auth'.err = "unauthorized" => auth.err = "unauthorized"

PartsNext ==
    /\ UNCHANGED part
    /\ \/ part = "families" /\ \E m \in Models \ {x1} : Succeed(m) \/ Fail(m)
       \/ part = "families" /\ Reconcile
       \/ part = "edits" /\ BesideEdits
       \/ part = "edits" /\ \E e \in Editors : BeginEdit(e) \/ EndEdit(e) \/ RefreshFailed(e)
       \/ StoreConfig \/ ClearDisabled \/ ResetQuota \/ Tick

PartsSpec == PartsInit /\ [][PartsNext]_partsVars
===============================================================================
