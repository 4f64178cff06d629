---------------------------- MODULE SchedulerSync ----------------------------
(***************************************************************************)
(* How the scheduler's copies of the auths follow the manager's auths, for *)
(* one provider and one model (sdk/cliproxy/auth/conductor.go and          *)
(* scheduler.go).                                                          *)
(*                                                                         *)
(* The manager changes its auths under Manager.mu and tells the scheduler  *)
(* after it unlocked: the call is under way for a while, and others        *)
(* overtake it.  MarkResult, ResetQuota and the rest pass a clone, but     *)
(* Register and Update pass the record they stored in Manager.auths, which *)
(* later results change in place: such a reference is live until another   *)
(* record replaces the stored one.  A pick that fails rebuilds the         *)
(* scheduler from a snapshot of the manager's auths and tries again.       *)
(***************************************************************************)
EXTENDS Accounts, FiniteSets

CONSTANTS
    Callers,     \* goroutines that report results, register, edit and remove
    Pickers,     \* requests that pick an auth
    Cooldown     \* ticks a failed auth is set aside

ASSUME SyncAssumption == Cooldown \in Nat \ {0}

\* What an auth is to a pick: ready (0), set aside for some ticks, switched off
\* by the operator, or not there.
Off == -1
Gone == -2
Values == 0..Cooldown \cup {Off}

VARIABLES
    auths,       \* Manager.auths
    sched,       \* the entries of the scheduler's shard
    call,        \* a caller's call of the scheduler that is under way
    pick         \* the requests' picks

vars == <<auths, sched, call, pick>>

\* A reference to a record: the manager's own, or a copy with a value.
Ref == [live: BOOLEAN, val: Values]
Copy(v) == [live |-> FALSE, val |-> v]

Entry == [state: {"none", "ready", "waiting"}, next: 0..Cooldown, ref: Ref]
NoEntry == [state |-> "none", next |-> 0, ref |-> Copy(0)]

Call == [op: {"upsert", "remove"}, auth: Auths, ref: Ref]
NoCall == [op |-> "none"]

\* snap is the snapshot a rebuild will use.  sure is history: the auths that
\* were ready, and not talked about, ever since the pick began.
Pick == [pc: {"idle", "first", "sync", "rebuild", "again", "failed"},
         snap: [Auths -> Values \cup {Gone}], sure: SUBSET Auths]

NoSnap == [a \in Auths |-> Gone]

TypeOK ==
    /\ auths \in [Auths -> Values \cup {Gone}]
    /\ sched \in [Auths -> Entry]
    /\ call \in [Callers -> Call \cup {NoCall}]
    /\ pick \in [Pickers -> Pick]

Init ==
    /\ auths = [a \in Auths |-> Gone]
    /\ sched = [a \in Auths |-> NoEntry]
    /\ call = [c \in Callers |-> NoCall]
    /\ pick = [p \in Pickers |-> [pc |-> "idle", snap |-> NoSnap, sure |-> {}]]

Here(a) == auths[a] # Gone
Idle(c) == call[c] = NoCall
About(c, a) == ~Idle(c) /\ call[c].auth = a

-----------------------------------------------------------------------------
(* References.                                                             *)

Deref(a, r) == IF r.live THEN auths[a] ELSE r.val

\* The manager's record of a is about to be replaced: who refers to it keeps it.
Kept(a, r) == IF r.live THEN Copy(auths[a]) ELSE r

SchedKept(a) == [sched EXCEPT ![a].ref = Kept(a, @)]
CallsKept(a) == [c \in Callers |-> IF About(c, a)
                                   THEN [call[c] EXCEPT !.ref = Kept(a, @)] ELSE call[c]]

\* upsertAuthLocked: the entry the scheduler makes of a reference to value v.
Scheduled(r, v) ==
    IF v = Off THEN NoEntry
    ELSE [state |-> IF v = 0 THEN "ready" ELSE "waiting", next |-> v, ref |-> r]

\* The history: nobody is sure of a any more unless it is ready.
Doubted(a, v) ==
    [p \in Pickers |-> [pick[p] EXCEPT !.sure = IF v = 0 THEN @ ELSE @ \ {a}]]

-----------------------------------------------------------------------------
(* The manager's operations, up to Manager.mu.Unlock.                      *)

Calling(calls, c, op, a, r) == [calls EXCEPT ![c] = [op |-> op, auth |-> a, ref |-> r]]

\* Mutant: a result for an auth that is gone makes it anew.
MarkResultAnyway(c, a) ==
    /\ Idle(c) /\ auths[a] # Off
    /\ \E v \in 0..Cooldown :
        /\ auths' = IF Here(a) THEN [auths EXCEPT ![a] = v] ELSE auths
        /\ call' = Calling(call, c, "upsert", a, Copy(v))
        /\ pick' = Doubted(a, v)
    /\ UNCHANGED sched

\* MarkResult, ResetQuota, ReconcileRegistryModelStates and the like change the
\* stored record in place and pass a clone of it.
MarkResult(c, a) ==
    /\ Idle(c) /\ Here(a)
    /\ \E v \in IF auths[a] = Off THEN {Off} ELSE 0..Cooldown :
        /\ auths' = [auths EXCEPT ![a] = v]
        /\ call' = Calling(call, c, "upsert", a, Copy(v))
        /\ pick' = Doubted(a, v)
    /\ UNCHANGED sched

\* Register and Update store a record and pass that record itself.  The caller
\* made it from the auth as it read it earlier, so it may carry any state.
Store(c, a) ==
    /\ Idle(c)
    /\ \E v \in Values :
        /\ auths' = [auths EXCEPT ![a] = v]
        /\ call' = Calling(CallsKept(a), c, "upsert", a, [live |-> TRUE, val |-> 0])
        /\ pick' = Doubted(a, v)
    /\ sched' = SchedKept(a)

Remove(c, a) ==
    /\ Idle(c) /\ Here(a)
    /\ auths' = [auths EXCEPT ![a] = Gone]
    /\ call' = Calling(CallsKept(a), c, "remove", a, Copy(0))
    /\ sched' = SchedKept(a)
    /\ pick' = Doubted(a, Gone)

\* RefreshSchedulerEntry changes nothing but sends a clone.
RefreshEntry(c, a) ==
    /\ Idle(c) /\ Here(a)
    /\ call' = Calling(call, c, "upsert", a, Copy(auths[a]))
    /\ UNCHANGED <<auths, sched, pick>>

\* A failed refresh calls the scheduler before it unlocks.
RefreshFailed(a) ==
    /\ Here(a)
    /\ sched' = [sched EXCEPT ![a] = Scheduled(Copy(auths[a]), auths[a])]
    /\ UNCHANGED <<auths, call, pick>>

\* The call reaches the scheduler: upsertAuth or removeAuth.
Deliver(c) ==
    /\ ~Idle(c)
    /\ LET a == call[c].auth
           r == call[c].ref
       IN  sched' = [sched EXCEPT ![a] = IF call[c].op = "remove" THEN NoEntry
                                         ELSE Scheduled(r, Deref(a, r))]
    /\ call' = [call EXCEPT ![c] = NoCall]
    /\ UNCHANGED <<auths, pick>>

-----------------------------------------------------------------------------
(* pickNext.                                                               *)

\* promoteExpiredLocked: an entry whose time has come is looked at again.
Promoted ==
    [a \in Auths |->
        IF sched[a].state = "waiting" /\ sched[a].next = 0
        THEN Scheduled(sched[a].ref, Deref(a, sched[a].ref)) ELSE sched[a]]

\* Auths that are ready and of which no call and no snapshot says otherwise.
Certain ==
    {a \in Auths : /\ auths[a] = 0
                   /\ \A c \in Callers : About(c, a) =>
                        call[c].op = "upsert" /\ Deref(a, call[c].ref) = 0
                   /\ \A p \in Pickers : pick[p].pc = "rebuild" => pick[p].snap[a] = 0}

BeginPick(p) ==
    /\ pick[p].pc = "idle"
    /\ pick' = [pick EXCEPT ![p].pc = "first", ![p].sure = Certain]
    /\ UNCHANGED <<auths, sched, call>>

\* Mutant: a pick that finds nothing gives up at once.
TryPickOnce(p) ==
    /\ pick[p].pc \in {"first", "again"}
    /\ sched' = Promoted
    /\ LET found == \E a \in Auths : Promoted[a].state = "ready"
       IN  pick' = [pick EXCEPT ![p].pc = IF found THEN "idle" ELSE "failed",
                                ![p].sure = IF found THEN {} ELSE @]
    /\ UNCHANGED <<auths, call>>

\* pickSingle: some ready auth, or the first time an error that leads to
\* syncScheduler and the second time one that the client sees.
TryPick(p) ==
    /\ pick[p].pc \in {"first", "again"}
    /\ sched' = Promoted
    /\ LET found == \E a \in Auths : Promoted[a].state = "ready"
       IN  pick' = [pick EXCEPT
                ![p].pc = IF found THEN "idle" ELSE IF @ = "first" THEN "sync" ELSE "failed",
                ![p].sure = IF found THEN {} ELSE @]
    /\ UNCHANGED <<auths, call>>

\* syncScheduler: snapshotAuths under Manager.mu ...
Snapshot(p) ==
    /\ pick[p].pc = "sync"
    /\ pick' = [pick EXCEPT ![p].pc = "rebuild", ![p].snap = auths]
    /\ UNCHANGED <<auths, sched, call>>

\* Mutant: the rebuild refreshes the entries there are and adds none.
RebuildKnownOnly(p) ==
    /\ pick[p].pc = "rebuild"
    /\ sched' = [a \in Auths |-> IF pick[p].snap[a] = Gone \/ sched[a].state = "none" THEN NoEntry
                                 ELSE Scheduled(Copy(pick[p].snap[a]), pick[p].snap[a])]
    /\ pick' = [pick EXCEPT ![p].pc = "again", ![p].snap = NoSnap]
    /\ UNCHANGED <<auths, call>>

\* ... and rebuild under the scheduler's own lock.
Rebuild(p) ==
    /\ pick[p].pc = "rebuild"
    /\ sched' = [a \in Auths |-> IF pick[p].snap[a] = Gone THEN NoEntry
                                 ELSE Scheduled(Copy(pick[p].snap[a]), pick[p].snap[a])]
    /\ pick' = [pick EXCEPT ![p].pc = "again", ![p].snap = NoSnap]
    /\ UNCHANGED <<auths, call>>

\* The client has its error.
Answer(p) ==
    /\ pick[p].pc = "failed"
    /\ pick' = [pick EXCEPT ![p].pc = "idle", ![p].sure = {}]
    /\ UNCHANGED <<auths, sched, call>>

-----------------------------------------------------------------------------
(* Time.                                                                   *)

RefLater(r) == [r EXCEPT !.val = Elapse(@)]

Tick ==
    /\ auths' = [a \in Auths |-> Elapse(auths[a])]
    /\ sched' = [a \in Auths |-> [sched[a] EXCEPT !.next = Elapse(@), !.ref = RefLater(@)]]
    /\ call' = [c \in Callers |-> IF Idle(c) THEN NoCall ELSE [call[c] EXCEPT !.ref = RefLater(@)]]
    /\ pick' = [p \in Pickers |->
                    [pick[p] EXCEPT !.snap = [a \in Auths |-> Elapse(pick[p].snap[a])]]]

Next ==
    \/ \E c \in Callers :
        \/ \E a \in Auths : MarkResult(c, a) \/ Store(c, a) \/ Remove(c, a) \/ RefreshEntry(c, a)
        \/ Deliver(c)
    \/ \E a \in Auths : RefreshFailed(a)
    \/ \E p \in Pickers : BeginPick(p) \/ TryPick(p) \/ Snapshot(p) \/ Rebuild(p) \/ Answer(p)
    \/ Tick

Spec == Init /\ [][Next]_vars

-----------------------------------------------------------------------------
(* Properties.                                                             *)

\* A request is told that no auth is available only if none was: an auth that
\* was ready ever since the pick began, while no call or rebuild under way said
\* otherwise, is found, however far the scheduler's copies had drifted before.
PickFindsReady == \A p \in Pickers : pick[p].pc = "failed" => pick[p].sure = {}

\* An auth that is gone from the manager and the scheduler, and that no call or
\* snapshot remembers, is not scheduled again by itself.
Forgotten(a) ==
    /\ ~Here(a) /\ sched[a].state = "none" /\ ~\E c \in Callers : About(c, a)
    /\ \A p \in Pickers : pick[p].pc = "rebuild" => pick[p].snap[a] = Gone

ForgottenStays ==
    [][\A a \in Auths : Forgotten(a) =>
        Forgotten(a)' \/ \E c \in Callers : Store(c, a)]_vars

\* The parts of the inductive invariant.  What a pick is sure of, everyone says, and once its
\* rebuild is done the scheduler says it too.
SureIsKnown ==
    \A p \in Pickers : \A a \in pick[p].sure :
        /\ a \in Certain
        /\ pick[p].pc = "again" => sched[a].state = "ready"
        /\ pick[p].pc # "failed"

\* A live reference is to the record the manager holds.
LiveIsHere ==
    /\ \A a \in Auths : sched[a].ref.live => Here(a)
    /\ \A c \in Callers : \A a \in Auths : About(c, a) /\ call[c].ref.live => Here(a)

SyncInv == TypeOK /\ LiveIsHere /\ SureIsKnown

-----------------------------------------------------------------------------
(* The abstract pool.  It knows the auths that somebody remembers; a pick  *)
(* is one step, however often it tries.                                    *)

Phase == [idle |-> "idle", first |-> "picking", sync |-> "picking",
          rebuild |-> "picking", again |-> "picking", failed |-> "failed"]

Pool == INSTANCE CredentialPool WITH
            known <- {a \in Auths : ~Forgotten(a)},
            phase <- [p \in Pickers |-> Phase[pick[p].pc]],
            sure <- [p \in Pickers |-> pick[p].sure]

\* Manager and scheduler, with their copies, calls that overtake each other and
\* rebuilds from old snapshots, keep the promise of CredentialPool.
ImplementsPool == Pool!PoolSpec

-----------------------------------------------------------------------------
(* What the documentation says and the code does not do.                   *)

Quiet == /\ \A c \in Callers : Idle(c)
         /\ \A p \in Pickers : pick[p].pc # "rebuild"

\* conductor.go: Remove deletes an auth from runtime state.
NoGhost == Quiet => \A a \in Auths : sched[a].state # "none" => Here(a)

\* scheduler.go: upsertAuth synchronizes the auth into the scheduler, so when
\* all calls have returned an auth the manager set aside is not offered.
NoStaleReady ==
    Quiet => \A a \in Auths : sched[a].state = "ready" /\ Here(a) => auths[a] = 0
==============================================================================
