----------------------------- MODULE RefreshLoop -----------------------------
(***************************************************************************)
(* The background token refresh of the auth manager: the loop goroutine    *)
(* that keeps a heap of "next check" times, the worker goroutines that     *)
(* call the executor's Refresh, and the callers that change credentials    *)
(* while both run.                                                         *)
(*   sdk/cliproxy/auth/auto_refresh_loop.go   the loop, its heap, its jobs *)
(*   sdk/cliproxy/auth/conductor.go           refreshAuth, markRefresh-    *)
(*                                            Pending, Update, Remove      *)
(*                                                                         *)
(* Time is relative.  Every stored time is the number of ticks that are    *)
(* left until it (0: it has passed, or it is Go's zero time), and Tick     *)
(* counts all of them down; so the state space is finite without a bound   *)
(* on the clock and liveness can be checked.  The loop's own steps are in  *)
(* memory and take no tick, except while it waits in its select or in a    *)
(* full jobs channel.                                                      *)
(***************************************************************************)
EXTENDS Integers, Sequences, FiniteSets

CONSTANTS
    Auths,              \* auth IDs
    Workers,            \* refresh worker goroutines
    Clients,            \* goroutines that register, edit and remove auths
    Interval,           \* authAutoRefreshLoop.interval
    Pending,            \* refreshPendingBackoff
    FailureBackoff,     \* refreshFailureBackoff
    IneffectiveBackoff, \* refreshIneffectiveBackoff
    Lifetimes,          \* ticks a stored credential may have until it is due
    JobBuffer,          \* capacity of the jobs channel
    Evaluated,          \* auths whose Runtime is a RefreshEvaluator
    Unscheduled,        \* API keys, and providers without a refresh lead
    NoExecutor,         \* auths whose provider has no executor
    NoAuth              \* no auth ID

NoTime == -1

ASSUME RefreshAssumption ==
    /\ NoAuth \notin Auths
    /\ Workers \cap Clients = {}
    /\ {Interval, Pending, FailureBackoff, IneffectiveBackoff} \subseteq Nat \ {0}
    /\ Lifetimes \subseteq Nat
    /\ JobBuffer \in Nat \ {0}

Procs == Workers \cup Clients

(* The fields of Auth that refreshing reads or writes.  due is the time    *)
(* left until the credential wants a refresh, from its expiry, its last    *)
(* refresh and the provider's lead; unauthorized is a LastError with       *)
(* status 401.                                                             *)
AuthRec == [present: BOOLEAN, disabled: BOOLEAN, unauthorized: BOOLEAN,
            nextAfter: Nat, due: Nat]

Absent == [present |-> FALSE, disabled |-> FALSE, unauthorized |-> FALSE,
           nextAfter |-> 0, due |-> 0]

ProcRec == [pc: {"idle", "read", "refreshing", "commit", "dirty", "wake", "unsched"},
            id: Auths \cup {NoAuth}, snap: AuthRec, again: BOOLEAN]

Idle == [pc |-> "idle", id |-> NoAuth, snap |-> Absent, again |-> FALSE]

VARIABLES
    auth,     \* Manager.auths
    queue,    \* the heap with its index: time left until the check, or NoTime
    dirty,    \* auths to look at again
    wake,     \* the one token wakeCh can hold
    jobs,     \* the jobs channel
    timer,    \* time left on the armed timer, or NoTime
    loopPc,   \* where the loop goroutine is
    hand,     \* auths popped from the heap or drained from dirty, not done yet
    cur,      \* the auth the loop is deciding about
    plan,     \* check times it computed and has not written yet
    lag,      \* ticks since the loop read its clock
    proc,     \* the workers and the callers
    lapsed,   \* history: auths the loop dropped when it saw them unauthorized
    evicted   \* history: auths a Remove took out of the heap after their return

vars == <<auth, queue, dirty, wake, jobs, timer, loopPc, hand, cur, plan, lag,
          proc, lapsed, evicted>>

LoopPcs == {"rebuild", "fill", "arm", "select", "pop", "due", "mark", "send",
            "writeDue", "drain", "apply", "writeApply"}

TypeOK ==
    /\ auth \in [Auths -> AuthRec]
    /\ queue \in [Auths -> Nat \cup {NoTime}]
    /\ dirty \subseteq Auths
    /\ wake \in BOOLEAN
    /\ jobs \in Seq(Auths)
    /\ timer \in Nat \cup {NoTime}
    /\ loopPc \in LoopPcs
    /\ hand \subseteq Auths
    /\ cur \in Auths \cup {NoAuth}
    /\ plan \in [Auths -> Nat \cup {NoTime}]
    /\ lag \in Nat
    /\ proc \in [Procs -> ProcRec]
    /\ lapsed \subseteq Auths
    /\ evicted \subseteq Auths

-----------------------------------------------------------------------------
(* Operators on time and on one auth.                                      *)

NoPlan == [a \in Auths |-> NoTime]

Elapse(t) == IF t > 0 THEN t - 1 ELSE t

\* A time d after the clock value the loop read lag ticks ago.
FromLoopClock(d) == IF d > lag THEN d - lag ELSE 0

\* hasUnauthorizedAuthFailure, AuthKindAPIKey and a missing lead.
Schedulable(a, r) == r.present /\ ~r.unauthorized /\ a \notin Unscheduled

\* Mutants: no check while an auth backs off; no test for a missing auth.
NextRefreshCheckBackoff(a, r) ==
    IF ~Schedulable(a, r) \/ r.nextAfter > 0 THEN NoTime
    ELSE IF a \in Evaluated THEN FromLoopClock(Interval) ELSE r.due

NextRefreshCheckMissing(a, r) ==
    IF r.unauthorized \/ a \in Unscheduled THEN NoTime
    ELSE IF r.nextAfter > 0 THEN r.nextAfter
    ELSE IF a \in Evaluated THEN FromLoopClock(Interval)
    ELSE r.due

\* nextRefreshCheckAt: when to look at an auth again.
NextRefreshCheck(a, r) ==
    IF ~Schedulable(a, r) THEN NoTime
    ELSE IF r.nextAfter > 0 THEN r.nextAfter
    ELSE IF a \in Evaluated THEN FromLoopClock(Interval)
    ELSE r.due

\* shouldRefresh may answer b: an evaluator decides as it likes.
ShouldRefresh(a, r, b) ==
    /\ r.present /\ ~r.unauthorized /\ r.nextAfter = 0
    /\ IF a \in Evaluated THEN b ELSE r.due = 0

Ticked(r) == [r EXCEPT !.nextAfter = Elapse(r.nextAfter), !.due = Elapse(r.due)]

\* peek: t is the time of the heap's top, NoTime when the heap is empty.
HeapTop(t) ==
    \/ t = NoTime /\ \A a \in Auths : queue[a] = NoTime
    \/ \E a \in Auths : /\ queue[a] # NoTime /\ t = queue[a]
                        /\ \A b \in Auths : queue[b] # NoTime => t =< queue[b]

-----------------------------------------------------------------------------
\* An auth read from its file when the service starts.
Loaded(d) == [present |-> TRUE, disabled |-> FALSE, unauthorized |-> FALSE,
              nextAfter |-> 0, due |-> d]

Init ==
    /\ auth \in [Auths -> {Absent} \cup {Loaded(d) : d \in Lifetimes}]
    /\ queue = NoPlan
    /\ dirty = {} /\ wake = FALSE /\ jobs = <<>>
    /\ timer = NoTime /\ loopPc = "rebuild"
    /\ hand = {} /\ cur = NoAuth /\ plan = NoPlan /\ lag = 0
    /\ proc = [p \in Procs |-> Idle]
    /\ lapsed = {} /\ evicted = {}

-----------------------------------------------------------------------------
(* The loop goroutine.  StartAutoRefresh installs the loop, then rebuild   *)
(* reads every auth under the manager's lock and fills the heap under the  *)
(* loop's; callers can already queue reschedules in between.               *)

RebuildRead ==
    /\ loopPc = "rebuild"
    /\ loopPc' = "fill"
    /\ plan' = [a \in Auths |-> NextRefreshCheck(a, auth[a])]
    /\ lapsed' = {a \in Auths : auth[a].present /\ auth[a].unauthorized}
    /\ UNCHANGED <<auth, queue, dirty, wake, jobs, timer, hand, cur, lag, proc,
                   evicted>>

RebuildFill ==
    /\ loopPc = "fill"
    /\ loopPc' = "arm"
    /\ queue' = plan
    /\ plan' = NoPlan
    /\ UNCHANGED <<auth, dirty, wake, jobs, timer, hand, cur, lag, proc, lapsed,
                   evicted>>

\* resetTimer: sleep until the earliest entry of the heap, or without end.
Arm ==
    /\ loopPc = "arm"
    /\ loopPc' = "select"
    /\ \E t \in {queue[a] : a \in Auths} \cup {NoTime} : HeapTop(t) /\ timer' = t
    /\ UNCHANGED <<auth, queue, dirty, wake, jobs, hand, cur, plan, lag, proc,
                   lapsed, evicted>>

SelectWake ==
    /\ loopPc = "select" /\ wake
    /\ wake' = FALSE
    /\ loopPc' = "drain"
    /\ lag' = 0
    /\ UNCHANGED <<auth, queue, dirty, jobs, timer, hand, cur, plan, proc, lapsed,
                   evicted>>

SelectTimer ==
    /\ loopPc = "select" /\ timer = 0
    /\ loopPc' = "pop"
    /\ timer' = NoTime
    /\ lag' = 0
    /\ UNCHANGED <<auth, queue, dirty, wake, jobs, hand, cur, plan, proc, lapsed,
                   evicted>>

\* popDue takes every entry whose time has come out of the heap.
PopDue ==
    /\ loopPc = "pop"
    /\ loopPc' = "due"
    /\ hand' = {a \in Auths : queue[a] = 0}
    /\ queue' = [a \in Auths |-> IF queue[a] = 0 THEN NoTime ELSE queue[a]]
    /\ UNCHANGED <<auth, dirty, wake, jobs, timer, cur, plan, lag, proc, lapsed,
                   evicted>>

\* handleDueAuth up to its first RUnlock, for an auth that stays or drops out
\* of the heap without a refresh.
DueNotYet(a, b) ==
    /\ loopPc = "due" /\ a \in hand
    /\ ~ShouldRefresh(a, auth[a], b) \/ a \in NoExecutor \/ a \in Unscheduled
    /\ LET check == NextRefreshCheck(a, auth[a])
           noExec == ShouldRefresh(a, auth[a], b)
       IN  /\ plan' = [NoPlan EXCEPT ![a] =
                         IF check = NoTime THEN NoTime
                         ELSE IF noExec THEN FromLoopClock(Interval) ELSE check]
           /\ lapsed' = IF auth[a].unauthorized THEN lapsed \cup {a} ELSE lapsed
    /\ cur' = a
    /\ loopPc' = "writeDue"
    /\ UNCHANGED <<auth, queue, dirty, wake, jobs, timer, hand, lag, proc, evicted>>

\* handleDueAuth up to its first RUnlock, for an auth to refresh now.
DueNow(a, b) ==
    /\ loopPc = "due" /\ a \in hand
    /\ ShouldRefresh(a, auth[a], b) /\ a \notin NoExecutor /\ a \notin Unscheduled
    /\ cur' = a
    /\ loopPc' = "mark"
    /\ UNCHANGED <<auth, queue, dirty, wake, jobs, timer, hand, plan, lag, proc,
                   lapsed, evicted>>

\* markRefreshPending claims the auth and queues a reschedule of it.
MarkPending ==
    /\ loopPc = "mark"
    /\ auth[cur].present /\ auth[cur].nextAfter = 0
    /\ auth' = [auth EXCEPT ![cur].nextAfter = FromLoopClock(Pending)]
    /\ dirty' = dirty \cup {cur}
    /\ wake' = TRUE
    /\ lapsed' = lapsed \ {cur}
    /\ evicted' = evicted \ {cur}
    /\ loopPc' = "send"
    /\ UNCHANGED <<queue, jobs, timer, hand, cur, plan, lag, proc>>

\* markRefreshPending refuses: the auth is gone, or somebody set it back.
MarkRefused ==
    /\ loopPc = "mark"
    /\ ~auth[cur].present \/ auth[cur].nextAfter > 0
    /\ plan' = [NoPlan EXCEPT ![cur] = NextRefreshCheck(cur, auth[cur])]
    /\ lapsed' = IF auth[cur].unauthorized THEN lapsed \cup {cur} ELSE lapsed
    /\ loopPc' = "writeDue"
    /\ UNCHANGED <<auth, queue, dirty, wake, jobs, timer, hand, cur, lag, proc,
                   evicted>>

\* The loop waits here while the jobs channel is full.
SendJob ==
    /\ loopPc = "send"
    /\ Len(jobs) < JobBuffer
    /\ jobs' = Append(jobs, cur)
    /\ hand' = hand \ {cur}
    /\ cur' = NoAuth
    /\ loopPc' = "due"
    /\ UNCHANGED <<auth, queue, dirty, wake, timer, plan, lag, proc, lapsed,
                   evicted>>

\* upsert or remove the heap entry, by what was read a step before.
WriteEntry ==
    /\ loopPc \in {"writeDue", "writeApply"}
    /\ queue' = [queue EXCEPT ![cur] = plan[cur]]
    /\ plan' = NoPlan
    /\ hand' = hand \ {cur}
    /\ cur' = NoAuth
    /\ loopPc' = IF loopPc = "writeDue" THEN "due" ELSE "apply"
    /\ UNCHANGED <<auth, dirty, wake, jobs, timer, lag, proc, lapsed, evicted>>

DueDone ==
    /\ loopPc = "due" /\ hand = {}
    /\ loopPc' = "drain"
    /\ UNCHANGED <<auth, queue, dirty, wake, jobs, timer, hand, cur, plan, lag,
                   proc, lapsed, evicted>>

DrainDirty ==
    /\ loopPc = "drain"
    /\ hand' = dirty
    /\ dirty' = {}
    /\ loopPc' = "apply"
    /\ UNCHANGED <<auth, queue, wake, jobs, timer, cur, plan, lag, proc, lapsed,
                   evicted>>

\* applyDirty reads one drained auth; WriteEntry then updates the heap.
ApplyDirty(a) ==
    /\ loopPc = "apply" /\ a \in hand
    /\ plan' = [NoPlan EXCEPT ![a] = NextRefreshCheck(a, auth[a])]
    /\ lapsed' = IF auth[a].unauthorized THEN lapsed \cup {a} ELSE lapsed
    /\ cur' = a
    /\ loopPc' = "writeApply"
    /\ UNCHANGED <<auth, queue, dirty, wake, jobs, timer, hand, lag, proc, evicted>>

\* Mutants: dirty is cleared once its entries are applied, with what was added
\* meanwhile; the timer is not reset after dirty entries.
ApplyDoneClears ==
    /\ loopPc = "apply" /\ hand = {}
    /\ loopPc' = "arm"
    /\ dirty' = {}
    /\ UNCHANGED <<auth, queue, wake, jobs, timer, hand, cur, plan, lag, proc,
                   lapsed, evicted>>

ApplyDoneNoReset ==
    /\ loopPc = "apply" /\ hand = {}
    /\ loopPc' = "select"
    /\ UNCHANGED <<auth, queue, dirty, wake, jobs, timer, hand, cur, plan, lag,
                   proc, lapsed, evicted>>

ApplyDone ==
    /\ loopPc = "apply" /\ hand = {}
    /\ loopPc' = "arm"
    /\ UNCHANGED <<auth, queue, dirty, wake, jobs, timer, hand, cur, plan, lag,
                   proc, lapsed, evicted>>

LoopStep ==
    \/ RebuildRead \/ RebuildFill \/ Arm \/ SelectWake \/ SelectTimer \/ PopDue
    \/ MarkPending \/ MarkRefused \/ SendJob \/ WriteEntry
    \/ DueDone \/ DrainDirty \/ ApplyDone
    \/ \E a \in Auths : ApplyDirty(a) \/ \E b \in BOOLEAN : DueNotYet(a, b) \/ DueNow(a, b)

-----------------------------------------------------------------------------
(* queueReschedule, by a worker or a caller: the auth joins dirty under    *)
(* the loop's lock, then a token is offered to wakeCh, dropped when the    *)
(* channel already holds one.                                              *)

MarkDirty(p) ==
    /\ proc[p].pc = "dirty"
    /\ dirty' = dirty \cup {proc[p].id}
    /\ lapsed' = lapsed \ {proc[p].id}
    /\ evicted' = evicted \ {proc[p].id}
    /\ proc' = [proc EXCEPT ![p].pc = "wake"]
    /\ UNCHANGED <<auth, queue, wake, jobs, timer, loopPc, hand, cur, plan, lag>>

\* Mutant: an unbuffered wakeCh, so that only a waiting loop gets the token.
OfferWakeUnbuffered(p) ==
    /\ proc[p].pc = "wake"
    /\ wake' = (wake \/ loopPc = "select")
    /\ proc' = [proc EXCEPT ![p] =
                  IF @.again THEN [@ EXCEPT !.pc = "dirty", !.again = FALSE] ELSE Idle]
    /\ UNCHANGED <<auth, queue, dirty, jobs, timer, loopPc, hand, cur, plan, lag,
                   lapsed, evicted>>

\* refreshAuth has queued a reschedule of its own; the worker queues another.
OfferWake(p) ==
    /\ proc[p].pc = "wake"
    /\ wake' = TRUE
    /\ proc' = [proc EXCEPT ![p] =
                  IF @.again THEN [@ EXCEPT !.pc = "dirty", !.again = FALSE] ELSE Idle]
    /\ UNCHANGED <<auth, queue, dirty, jobs, timer, loopPc, hand, cur, plan, lag,
                   lapsed, evicted>>

-----------------------------------------------------------------------------
(* A worker: takes a job, reads the auth, runs Refresh without any lock.   *)

TakeJob(w) ==
    /\ proc[w].pc = "idle" /\ jobs # <<>>
    /\ proc' = [proc EXCEPT ![w] = [Idle EXCEPT !.pc = "read", !.id = Head(jobs)]]
    /\ jobs' = Tail(jobs)
    /\ UNCHANGED <<auth, queue, dirty, wake, timer, loopPc, hand, cur, plan, lag,
                   lapsed, evicted>>

\* What a successful refresh keeps of the copy it started from; it sets the
\* other fields.
Kept(r) == [r EXCEPT !.unauthorized = FALSE, !.nextAfter = 0, !.due = 0]

\* Mutant: the worker asks again whether the auth is set back, which the loop's own
\* pending mark may have made it.
StartRefreshChecksAgain(w) ==
    /\ proc[w].pc = "read"
    /\ LET a == proc[w].id IN
       proc' = [proc EXCEPT ![w] =
                  IF ShouldRefresh(a, auth[a], TRUE) /\ a \notin NoExecutor
                  THEN [@ EXCEPT !.pc = "refreshing", !.snap = Kept(auth[a])]
                  ELSE [@ EXCEPT !.pc = "dirty"]]
    /\ UNCHANGED <<auth, queue, dirty, wake, jobs, timer, loopPc, hand, cur, plan,
                   lag, lapsed, evicted>>

StartRefresh(w) ==
    /\ proc[w].pc = "read"
    /\ LET a == proc[w].id IN
       proc' = [proc EXCEPT ![w] =
                  IF auth[a].present /\ a \notin NoExecutor
                  THEN [@ EXCEPT !.pc = "refreshing", !.snap = Kept(auth[a])]
                  ELSE [@ EXCEPT !.pc = "dirty"]]
    /\ UNCHANGED <<auth, queue, dirty, wake, jobs, timer, loopPc, hand, cur, plan,
                   lag, lapsed, evicted>>

\* Refresh returns context.Canceled.
RefreshCanceled(w) ==
    /\ proc[w].pc = "refreshing"
    /\ proc' = [proc EXCEPT ![w] = [@ EXCEPT !.pc = "dirty", !.snap = Absent]]
    /\ UNCHANGED <<auth, queue, dirty, wake, jobs, timer, loopPc, hand, cur, plan,
                   lag, lapsed, evicted>>

\* Refresh returns another error; u: the provider answered 401.
RefreshFailed(w, u) ==
    /\ proc[w].pc = "refreshing"
    /\ LET a == proc[w].id IN
       /\ auth' = [auth EXCEPT ![a] =
                     IF @.present
                     THEN [@ EXCEPT !.unauthorized = u,
                                    !.nextAfter = IF u THEN 0 ELSE FailureBackoff]
                     ELSE @]
       /\ proc' = [proc EXCEPT ![w] =
                     [@ EXCEPT !.pc = "dirty", !.snap = Absent, !.again = auth[a].present]]
    /\ UNCHANGED <<queue, dirty, wake, jobs, timer, loopPc, hand, cur, plan, lag,
                   lapsed, evicted>>

\* Mutant: the result is registered, not updated.
RefreshSucceededRegisters(w, d, b) ==
    /\ proc[w].pc = "refreshing"
    /\ auth' = [auth EXCEPT ![proc[w].id] = [proc[w].snap EXCEPT !.due = d]]
    /\ proc' = [proc EXCEPT ![w] = [@ EXCEPT !.pc = "dirty", !.snap = Absent, !.again = b]]
    /\ UNCHANGED <<queue, dirty, wake, jobs, timer, loopPc, hand, cur, plan, lag,
                   lapsed, evicted>>

\* Refresh succeeds with d ticks left until the next one is due; b: what an
\* evaluator says of the result.  Update writes the whole record back, made
\* from the copy taken before Refresh ran; it is a no-op on a removed auth.
RefreshSucceeded(w, d, b) ==
    /\ proc[w].pc = "refreshing"
    /\ LET a == proc[w].id
           fresh == [proc[w].snap EXCEPT !.due = d]
           updated == IF ShouldRefresh(a, fresh, b)
                      THEN [fresh EXCEPT !.nextAfter = IneffectiveBackoff] ELSE fresh
       IN  /\ auth' = [auth EXCEPT ![a] = IF @.present THEN updated ELSE @]
           /\ proc' = [proc EXCEPT ![w] =
                         [@ EXCEPT !.pc = "dirty", !.snap = Absent,
                                   !.again = auth[a].present]]
    /\ UNCHANGED <<queue, dirty, wake, jobs, timer, loopPc, hand, cur, plan, lag,
                   lapsed, evicted>>

FinishRefresh(w) ==
    \/ RefreshCanceled(w)
    \/ \E u \in BOOLEAN : RefreshFailed(w, u)
    \/ \E d \in Lifetimes, b \in BOOLEAN : RefreshSucceeded(w, d, b)

WorkerStep(w) ==
    TakeJob(w) \/ StartRefresh(w) \/ FinishRefresh(w) \/ MarkDirty(w) \/ OfferWake(w)

-----------------------------------------------------------------------------
(* The callers.  A credential file change and an edit in the management    *)
(* API both read the auth (GetByID), build the record to store from that   *)
(* copy, and store it with Register or Update.                             *)

ReadAuth(c, a) ==
    /\ proc[c].pc = "idle"
    /\ proc' = [proc EXCEPT ![c] =
                  [Idle EXCEPT !.pc = "commit", !.id = a, !.snap = auth[a]]]
    /\ UNCHANGED <<auth, queue, dirty, wake, jobs, timer, loopPc, hand, cur, plan,
                   lag, lapsed, evicted>>

Store(c, r) ==
    /\ auth' = [auth EXCEPT ![proc[c].id] = r]
    /\ proc' = [proc EXCEPT ![c] = [@ EXCEPT !.pc = "dirty", !.snap = Absent]]
    /\ UNCHANGED <<queue, dirty, wake, jobs, timer, loopPc, hand, cur, plan, lag,
                   lapsed, evicted>>

\* prepareCoreAuthForModelRegistration: a file with disabled = x and d ticks
\* left.  Between two enabled records the pending mark is carried over.
CommitFile(c, x, d) ==
    /\ proc[c].pc = "commit"
    /\ ~proc[c].snap.present \/ auth[proc[c].id].present
    /\ Store(c, [present |-> TRUE, disabled |-> x, unauthorized |-> FALSE,
                 nextAfter |-> IF proc[c].snap.disabled \/ x THEN 0
                               ELSE proc[c].snap.nextAfter,
                 due |-> d])

\* PatchAuthFileStatus: the copy itself, enabled or disabled by the operator.
CommitStatus(c, x) ==
    /\ proc[c].pc = "commit"
    /\ proc[c].snap.present /\ auth[proc[c].id].present
    /\ Store(c, [proc[c].snap EXCEPT !.disabled = x])

\* Update finds no auth; the file change or the edit ends without effect.
CommitNothing(c) ==
    /\ proc[c].pc = "commit"
    /\ proc[c].snap.present => ~auth[proc[c].id].present
    /\ proc' = [proc EXCEPT ![c] = Idle]
    /\ UNCHANGED <<auth, queue, dirty, wake, jobs, timer, loopPc, hand, cur, plan,
                   lag, lapsed, evicted>>

\* Remove deletes the auth under the manager's lock, and then its heap entry.
Remove(c, a) ==
    /\ proc[c].pc = "idle" /\ auth[a].present
    /\ auth' = [auth EXCEPT ![a] = Absent]
    /\ proc' = [proc EXCEPT ![c] = [Idle EXCEPT !.pc = "unsched", !.id = a]]
    /\ UNCHANGED <<queue, dirty, wake, jobs, timer, loopPc, hand, cur, plan, lag,
                   lapsed, evicted>>

Unschedule(c) ==
    /\ proc[c].pc = "unsched"
    /\ queue' = [queue EXCEPT ![proc[c].id] = NoTime]
    /\ evicted' = IF auth[proc[c].id].present THEN evicted \cup {proc[c].id} ELSE evicted
    /\ proc' = [proc EXCEPT ![c] = Idle]
    /\ UNCHANGED <<auth, dirty, wake, jobs, timer, loopPc, hand, cur, plan, lag,
                   lapsed>>

CommitStep(c) ==
    \/ \E x \in BOOLEAN : CommitStatus(c, x) \/ \E d \in Lifetimes : CommitFile(c, x, d)
    \/ CommitNothing(c)

ClientStep(c) ==
    \/ \E a \in Auths : ReadAuth(c, a) \/ Remove(c, a)
    \/ CommitStep(c) \/ Unschedule(c) \/ MarkDirty(c) \/ OfferWake(c)

\* MarkResult stores or clears the auth's LastError; it reschedules nothing.
MarkResult(a, u) ==
    /\ auth[a].present
    /\ auth' = [auth EXCEPT ![a].unauthorized = u]
    /\ UNCHANGED <<queue, dirty, wake, jobs, timer, loopPc, hand, cur, plan, lag,
                   proc, lapsed, evicted>>

-----------------------------------------------------------------------------
\* Beyond this lag a time computed from the loop's clock has passed anyway.
LagBound == IF Pending > Interval THEN Pending ELSE Interval

\* Time passes while the loop waits.
Tick ==
    /\ loopPc = "select" \/ (loopPc = "send" /\ Len(jobs) = JobBuffer)
    /\ auth' = [a \in Auths |-> Ticked(auth[a])]
    /\ queue' = [a \in Auths |-> Elapse(queue[a])]
    /\ timer' = Elapse(timer)
    /\ lag' = IF loopPc = "send" /\ lag < LagBound THEN lag + 1 ELSE lag
    /\ proc' = [p \in Procs |-> [proc[p] EXCEPT !.snap = Ticked(@)]]
    /\ UNCHANGED <<dirty, wake, jobs, loopPc, hand, cur, plan, lapsed, evicted>>

Next ==
    \/ LoopStep
    \/ \E w \in Workers : WorkerStep(w)
    \/ \E c \in Clients : ClientStep(c)
    \/ \E a \in Auths, u \in BOOLEAN : MarkResult(a, u)
    \/ Tick

Spec == Init /\ [][Next]_vars

\* The goroutines run, executors return from Refresh, time goes on, and Go's
\* select, which picks at random, does not pass over a due timer for ever.
Fairness ==
    /\ WF_vars(LoopStep)
    /\ SF_vars(SelectTimer)
    /\ \A w \in Workers : WF_vars(WorkerStep(w))
    /\ \A c \in Clients : WF_vars(CommitStep(c) \/ Unschedule(c) \/ MarkDirty(c) \/ OfferWake(c))
    /\ SF_vars(Tick)

FairSpec == Spec /\ Fairness

-----------------------------------------------------------------------------
(* Safety.                                                                 *)

\* The loop has already seen wakeCh, or a due timer, and will drain dirty
\* before it sleeps again.
WillDrain == loopPc \in {"pop", "due", "mark", "send", "writeDue", "drain"}

\* queueReschedule sends to wakeCh without blocking and drops the token when
\* one is there already.  No reschedule is lost by it: whenever an auth is
\* dirty, a token is in the channel, about to be offered, or the loop is on its
\* way to draining dirty.
NoLostWakeup ==
    dirty # {} => \/ wake
                  \/ WillDrain
                  \/ \E p \in Procs : proc[p].pc = "wake"

\* Where an auth can be while the refresh machinery knows of it.
InJobs(a) == \E i \in 1..Len(jobs) : jobs[i] = a
Held(a) == \E p \in Procs : proc[p].id = a /\ proc[p].pc \in {"read", "refreshing", "dirty"}
Tracked(a) == queue[a] # NoTime \/ plan[a] # NoTime \/ a \in dirty \/ a \in hand
              \/ InJobs(a) \/ Held(a)

\* The loop has not read the auths for the first time yet.
Starting == loopPc = "rebuild"

\* An auth that wants refreshing is never forgotten: it is in the heap, dirty,
\* in the loop's hands, in the jobs channel, with a worker, or a caller is about
\* to queue it (auto_refresh_loop.go, the gaps between popDue, handleDueAuth,
\* applyDirty, upsert and remove).  Two exceptions, until somebody queues the
\* auth again: the loop dropped it while it was unauthorized, or a slow Remove
\* took it out of the heap when it had already been registered anew.
Forgotten == lapsed \cup evicted

NoLostAuth ==
    \A a \in Auths :
        Schedulable(a, auth[a]) /\ ~Starting /\ a \notin Forgotten => Tracked(a)

\* The armed timer never sleeps past an entry of the heap: while the loop waits,
\* every entry is covered by a timer that fires no later.
TimerCoversHeap ==
    loopPc = "select" =>
        \A a \in Auths : queue[a] # NoTime => timer # NoTime /\ timer =< queue[a]

\* When the loop should look at an auth at the latest.
Wanted(a) ==
    IF auth[a].nextAfter > 0 THEN auth[a].nextAfter
    ELSE IF a \in Evaluated THEN Interval ELSE auth[a].due

\* The loop will look at the auth anyway, before it sleeps again.
Rescheduled(a) ==
    a \in dirty \/ \E p \in Procs : proc[p].id = a /\ proc[p].pc = "dirty"

\* An auth the loop looks after, also while it has a late LastError.
LookedAfter(a) ==
    auth[a].present /\ a \notin Unscheduled \cup NoExecutor \cup Forgotten /\ ~Rescheduled(a)

\* While the loop sleeps its timer fires no later than any auth wants a look: edits,
\* refreshes that end, and results change an auth while the loop decides about it
\* from what it read before, but no entry of the heap, and no timer, stays later than
\* the auth now asks for, unless a reschedule of the auth is on its way.
WakesInTime ==
    loopPc = "select" =>
        \A a \in Auths : LookedAfter(a) => timer # NoTime /\ timer =< Wanted(a)

\* A refresh that comes back after its auth was removed does not bring the auth
\* back: only a caller registers one (Manager.Update, conductor_remove_test.go).
RemovedStaysRemoved ==
    [][\A a \in Auths : ~auth[a].present /\ auth'[a].present
                          => \E c \in Clients : CommitStep(c)]_vars

\* An auth the operator disabled is enabled again by the operator alone
\* (types.go: "Disabled indicates the auth is intentionally disabled by
\* operator"), never by a refresh that began before it was disabled.
OperatorEnables ==
    [][\A a \in Auths : auth[a].disabled /\ auth'[a].present /\ ~auth'[a].disabled
                          => \E c \in Clients : CommitStep(c)]_vars

-----------------------------------------------------------------------------
(* The inductive invariant behind them.                                    *)

Writing == loopPc \in {"writeDue", "writeApply"}

ControlOK ==
    /\ Writing \/ loopPc \in {"mark", "send"} => cur \in hand
    /\ hand # {} => loopPc \in {"due", "mark", "send", "writeDue", "apply", "writeApply"}
    /\ loopPc \in {"rebuild", "fill"} => queue = NoPlan
    /\ loopPc # "fill" => \A a \in Auths : plan[a] # NoTime => Writing /\ a = cur
    /\ \A p \in Procs : proc[p].pc # "idle" => proc[p].id \in Auths

\* What Tracked needs to survive a late change of LastError.
EveryPresentTracked ==
    \A a \in Auths :
        auth[a].present /\ a \notin Unscheduled /\ ~Starting /\ a \notin Forgotten
            => Tracked(a)

\* The loop only takes an auth out of the heap when it was missing or
\* unauthorized; if it came back since, somebody is about to queue it.
RemovalJustified ==
    \A a \in Auths :
        Writing /\ a = cur /\ plan[a] = NoTime /\ auth[a].present /\ a \notin Unscheduled
            => a \in Forgotten \cup dirty \/ \E p \in Procs : proc[p].id = a /\ proc[p].pc = "dirty"

\* An entry of the heap, and one that is about to be written, is no later than its
\* auth wants; what the loop has in hand it will read again, but for cur.
OnTime(t, a) == t # NoTime /\ t =< Wanted(a)

HeapOnTime ==
    /\ loopPc = "send" => cur \in dirty
    /\ \A a \in Auths : LookedAfter(a) =>
        /\ loopPc = "fill" \/ (Writing /\ a = cur) => OnTime(plan[a], a)
        /\ loopPc \notin {"rebuild", "fill"} /\ a \notin hand => OnTime(queue[a], a)

IInv ==
    /\ TypeOK /\ ControlOK /\ NoLostWakeup /\ TimerCoversHeap
    /\ EveryPresentTracked /\ RemovalJustified /\ HeapOnTime

-----------------------------------------------------------------------------
(* Liveness.                                                               *)

\* The credential wants its refresh, whether or not it is set back for now: by the
\* loop's own pending mark, a failed refresh or one that had no effect.
Due(a) == /\ Schedulable(a, auth[a]) /\ a \notin NoExecutor \cup Evaluated
          /\ auth[a].due = 0

Refreshing(a) == \E w \in Workers : proc[w].pc = "refreshing" /\ proc[w].id = a

\* A credential that is due reaches its provider: a worker calls Refresh for it,
\* whatever callers and the other credentials do.  That the loop marked it as pending,
\* or queued a job for it, is not enough.  Excepted are one that stops being due
\* (somebody stores another credential, removes it, or it is answered with a 401)
\* and one of the forgotten.
DueIsRefreshed ==
    \A a \in Auths :
        (Due(a) /\ ~Starting /\ a \notin Forgotten)
            ~> (Refreshing(a) \/ ~Due(a) \/ a \in Forgotten)

\* StartAutoRefresh's comment says of the loop that it "evaluates auth freshness
\* every few seconds and triggers refresh operations when required".  Taken for
\* every auth, the forgotten ones included.
EveryDueIsRefreshed ==
    \A a \in Auths : (Due(a) /\ ~Starting) ~> (Refreshing(a) \/ ~Due(a))

\* A removed auth leaves the heap for good, although a stale upsert can put it
\* back after Remove took it out.
RemovedLeavesHeap ==
    \A a \in Auths : <>[](~auth[a].present) => <>[](queue[a] = NoTime)
==============================================================================
