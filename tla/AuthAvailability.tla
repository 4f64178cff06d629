--------------------------- MODULE AuthAvailability ---------------------------
(***************************************************************************)
(* One auth of the manager while the results of requests come in, time     *)
(* passes, the operator changes the configuration and edits the auth, and  *)
(* refreshes end.                                                          *)
(*                                                                         *)
(* Each action is one critical section of Manager.mu.  Requests that run   *)
(* at the same time report in any order, so any result may come at any     *)
(* time: MarkResult does not ask whether the auth was set aside meanwhile. *)
(* An editor reads the auth in one critical section and writes it back in  *)
(* a later one.                                                            *)
(***************************************************************************)
EXTENDS AuthState

CONSTANTS
    Editors,     \* callers that read the auth and write it back
    Modelless    \* TRUE if some requests report a result without a model

ASSUME ModellessAssumption == Modelless \in BOOLEAN

VARIABLES
    auth,        \* Manager.auths[id]
    off,         \* cooldownDisabledForAuth: the operator disabled cooling
    clearing,    \* SetConfig stored a configuration and has not yet cleared
    held         \* what an editor is about to write

vars == <<auth, off, clearing, held>>

\* An edit: its kind, whether it disables the auth, and the auth it read.
Edit == [kind: {"refresh", "status", "file"}, disable: BOOLEAN, read: Auth]
NoEdit == [kind |-> "none"]

TypeOK ==
    /\ auth \in Auth
    /\ off \in BOOLEAN /\ clearing \in BOOLEAN
    /\ held \in [Editors -> Edit \cup {NoEdit}]

Init ==
    /\ auth = FromFile(FALSE)
    /\ off \in BOOLEAN /\ clearing = FALSE
    /\ held = [e \in Editors |-> NoEdit]

-----------------------------------------------------------------------------
(* The results of requests.                                                *)

\* The server's wait, which matters for a rate limit only.
Waits(kind) == IF kind = "rateLimit" THEN RetryAfters ELSE {0}

\* MarkResult with Success.
Succeed(m) ==
    /\ auth' = AfterSuccess(auth, m)
    /\ UNCHANGED <<off, clearing, held>>

\* MarkResult without Success.
Fail(m) ==
    /\ \E kind \in Failures : \E r \in Waits(kind) :
            auth' = AfterFailure(auth, m, kind, r, off)
    /\ UNCHANGED <<off, clearing, held>>

SucceedAuth ==
    /\ Modelless
    /\ auth' = AfterAuthSuccess(auth)
    /\ UNCHANGED <<off, clearing, held>>

FailAuth ==
    /\ Modelless
    /\ \E kind \in Failures : \E r \in Waits(kind) :
            auth' = AfterAuthFailure(auth, kind, r, off)
    /\ UNCHANGED <<off, clearing, held>>

-----------------------------------------------------------------------------
(* The operator and the registry.                                          *)

\* SetConfig: the new configuration is seen by every result from here on ...
StoreConfig ==
    /\ ~clearing
    /\ off' \in BOOLEAN /\ clearing' = TRUE
    /\ UNCHANGED <<auth, held>>

\* ... and the cooldowns it forbids are taken off afterwards.
ClearDisabled ==
    /\ clearing /\ clearing' = FALSE
    /\ auth' = IF off \/ ~Enabled(auth) THEN ClearCooldown(auth) ELSE auth
    /\ UNCHANGED <<off, held>>

ResetQuota ==
    /\ auth' = Reset(auth)
    /\ UNCHANGED <<off, clearing, held>>

\* The registry's models were read before the lock was taken.
Reconcile ==
    /\ \E supported \in SUBSET Models : auth' = Reconciled(auth, supported)
    /\ UNCHANGED <<off, clearing, held>>

-----------------------------------------------------------------------------
(* Callers that write back what they read.                                 *)

BeginEdit(e) ==
    /\ held[e] = NoEdit
    /\ \E kind \in {"refresh", "status", "file"}, x \in BOOLEAN :
        /\ x => kind # "refresh"
        /\ held' = [held EXCEPT ![e] = [kind |-> kind, disable |-> x, read |-> auth]]
    /\ UNCHANGED <<auth, off, clearing>>

\* The auth an edit passes to Update: refreshAuth its clone without the error,
\* PatchAuthFileStatus its clone with another status, and the service the auth
\* of the file, with the model states it read if neither is disabled.
Written(edit) ==
    LET file == FromFile(edit.disable)
    IN  CASE edit.kind = "refresh" -> [edit.read EXCEPT !.err = "none"]
          [] edit.kind = "status" ->
                [edit.read EXCEPT !.disabled = edit.disable,
                                  !.status = IF edit.disable THEN "disabled" ELSE "active"]
          [] OTHER -> IF Enabled(edit.read) /\ Enabled(file)
                      THEN [file EXCEPT !.states = edit.read.states] ELSE file

EndEdit(e) ==
    /\ held[e] # NoEdit
    /\ auth' = Updated(auth, Written(held[e]), off)
    /\ held' = [held EXCEPT ![e] = NoEdit]
    /\ UNCHANGED <<off, clearing>>

\* Refresh failed: refreshAuth marks the auth the manager has now.
RefreshFailed(e) ==
    /\ held[e] # NoEdit /\ held[e].kind = "refresh"
    /\ \E unauthorized \in BOOLEAN : auth' = RefreshFailure(auth, unauthorized)
    /\ held' = [held EXCEPT ![e] = NoEdit]
    /\ UNCHANGED <<off, clearing>>

-----------------------------------------------------------------------------
AgedEdit(edit) == IF edit = NoEdit THEN NoEdit ELSE [edit EXCEPT !.read = Ticked(@)]

\* Time passes for the stored times, the ones editors hold included.
Tick ==
    /\ auth' = Ticked(auth)
    /\ held' = [e \in Editors |-> AgedEdit(held[e])]
    /\ UNCHANGED <<off, clearing>>

Next ==
    \/ \E m \in Models : Succeed(m) \/ Fail(m)
    \/ SucceedAuth \/ FailAuth
    \/ StoreConfig \/ ClearDisabled \/ ResetQuota \/ Reconcile
    \/ \E e \in Editors : BeginEdit(e) \/ EndEdit(e) \/ RefreshFailed(e)
    \/ Tick

Spec == Init /\ [][Next]_vars

-----------------------------------------------------------------------------
(* Properties.                                                             *)

Family(m) == FamilyOf[m] # NoFamily
Related(m, n) == m = n \/ (Family(m) /\ FamilyOf[m] = FamilyOf[n])

\* A family that hit its quota is not used before the quota's recovery time,
\* whatever its models report, and whoever writes the auth back, in between.
FamilyQuotaRespected ==
    \A m \in Models :
        Family(m) /\ auth.states[FamilyOf[m]].quota.recover > 0 => Blocked(auth, m)

\* While every result names its model, an auth that calls itself unavailable
\* until a time has no model that could be used before it: the question asked
\* without a model (isAuthBlockedForModel) never holds back a usable auth.
AggregateSound ==
    ~Modelless /\ auth.unavailable /\ auth.nextRetry > 0 =>
        /\ Known(auth) # {}
        /\ \A k \in Known(auth) :
            LET s == auth.states[k] IN
            StateBlocked(s) /\ (s.status # "invalid" => s.nextRetry >= auth.nextRetry)

\* Once the operator disabled cooling and SetConfig has returned, no quota
\* wait is left or comes back, not even with an edit begun before.
NoQuotaWhenOff ==
    off /\ ~clearing =>
        /\ auth.quota.recover = NoTime
        /\ \A k \in Keys : auth.states[k].quota.recover = NoTime

\* A success, also a late one of a request sent before the 403, lets no model
\* of an invalid family through.
SuccessKeepsIsolation ==
    [][\A n \in Models :
        Family(n) /\ auth.states[FamilyOf[n]].status = "invalid" /\ ~Blocked(auth', n)
            => ~\E m \in Models : Succeed(m)]_vars

\* The failure of a model sets no model of another family aside.
FailureStaysInFamily ==
    [][\A n \in Models :
        ~Blocked(auth, n) /\ Blocked(auth', n)
            => ~\E m \in Models : ~Related(m, n) /\ Fail(m)]_vars

\* While cooling is on, the failure of a model never lets a family through
\* that was set aside: an error overtaken by a 429 or 403 changes nothing.
FailureKeepsFamilyAside ==
    [][\A n \in Models :
        Family(n) /\ StateBlocked(auth.states[FamilyOf[n]]) /\ ~Blocked(auth', n) /\ ~off
            => ~\E m \in Models : Fail(m)]_vars

-----------------------------------------------------------------------------
(* The inductive invariant.  A family state is written with one time for   *)
(* its recovery and its next retry, and nothing moves one without the      *)
(* other; the same must hold of what editors are going to write.           *)

Sound(s) == s.quota.recover > 0 => s.unavailable /\ s.nextRetry >= s.quota.recover

FamiliesSound(a) == \A f \in Families : Sound(a.states[f])

IInv ==
    /\ TypeOK
    /\ FamiliesSound(auth)
    /\ \A e \in Editors : held[e] # NoEdit => FamiliesSound(held[e].read)

-----------------------------------------------------------------------------
(* What the documentation says and the code does not do.                   *)

\* types.go: a model that hit its quota is not available before NextRecoverAt.
QuotaRespected ==
    \A m \in Models : auth.states[m].quota.recover > 0 => Blocked(auth, m)
==============================================================================
