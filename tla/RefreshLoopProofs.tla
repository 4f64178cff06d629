-------------------------- MODULE RefreshLoopProofs --------------------------
(***************************************************************************)
(* Proofs about RefreshLoop, for any number of auths, workers and callers  *)
(* and any durations.                                                      *)
(***************************************************************************)
EXTENDS RefreshLoop, SequenceTheorems, TLAPS

LEMMA ElapseType ==
    /\ \A t \in Nat \cup {NoTime} : Elapse(t) \in Nat \cup {NoTime}
    /\ \A t \in Nat : Elapse(t) \in Nat
    /\ \A t \in Nat \cup {NoTime} : Elapse(t) = NoTime <=> t = NoTime
BY DEF Elapse, NoTime

LEMMA TickedType == \A r \in AuthRec : Ticked(r) \in AuthRec
BY ElapseType DEF Ticked, AuthRec

LEMMA FromLoopClockType ==
    ASSUME NEW d \in Nat, lag \in Nat PROVE FromLoopClock(d) \in Nat
BY DEF FromLoopClock

LEMMA CheckType ==
    ASSUME NEW a \in Auths, NEW r \in AuthRec, lag \in Nat
    PROVE  /\ NextRefreshCheck(a, r) \in Nat \cup {NoTime}
           /\ NextRefreshCheck(a, r) = NoTime <=> ~Schedulable(a, r)
BY RefreshAssumption, FromLoopClockType DEF NextRefreshCheck, AuthRec, NoTime, Schedulable

LEMMA IdleType == Absent \in AuthRec /\ Idle \in ProcRec /\ NoPlan \in [Auths -> Nat \cup {NoTime}]
BY DEF Absent, AuthRec, Idle, ProcRec, NoPlan

LEMMA TypeInit == Init => TypeOK
<1>. SUFFICES ASSUME Init PROVE TypeOK
  OBVIOUS
<1>1. auth \in [Auths -> AuthRec]
  <2>1. \A d \in Lifetimes : Loaded(d) \in AuthRec
    BY RefreshAssumption DEF Loaded, AuthRec
  <2>. QED
    BY <2>1, IdleType DEF Init
<1>2. proc \in [Procs -> ProcRec] /\ queue \in [Auths -> Nat \cup {NoTime}]
      /\ plan \in [Auths -> Nat \cup {NoTime}]
  BY IdleType DEF Init
<1>3. jobs \in Seq(Auths)
  BY SMT DEF Init
<1>4. /\ dirty \subseteq Auths /\ hand \subseteq Auths /\ lapsed \subseteq Auths
      /\ evicted \subseteq Auths /\ lag \in Nat
      /\ cur \in Auths \cup {NoAuth} /\ loopPc \in LoopPcs
      /\ timer \in Nat \cup {NoTime}
  BY SMT DEF Init, LoopPcs
<1>5. wake \in BOOLEAN
  BY DEF Init
<1>. QED
  BY <1>1, <1>2, <1>3, <1>4, <1>5 DEF TypeOK

-----------------------------------------------------------------------------
(* Type correctness.  It needs ControlOK: that the loop only marks, sends   *)
(* and writes an auth it has in hand, and that a busy process has an auth.  *)

LEMMA TypeLoop == TypeOK /\ ControlOK /\ LoopStep => TypeOK'
<1>. SUFFICES ASSUME TypeOK, ControlOK, LoopStep PROVE TypeOK'
  OBVIOUS
<1>. USE DEF TypeOK, LoopPcs
<1>0. loopPc \in {"mark", "send", "writeDue", "writeApply"} => cur \in Auths
  BY DEF ControlOK, Writing
<1>1. CASE RebuildRead
  BY <1>1, CheckType DEF RebuildRead
<1>2. CASE RebuildFill
  BY <1>2, IdleType DEF RebuildFill
<1>3. CASE Arm
  BY <1>3 DEF Arm
<1>4. CASE SelectWake
  BY <1>4 DEF SelectWake
<1>5. CASE SelectTimer
  BY <1>5 DEF SelectTimer
<1>6. CASE PopDue
  BY <1>6 DEF PopDue
<1>7. CASE MarkPending
  <2>1. [auth[cur] EXCEPT !.nextAfter = FromLoopClock(Pending)] \in AuthRec
    BY <1>0, <1>7, FromLoopClockType, RefreshAssumption DEF MarkPending, AuthRec
  <2>. QED
    BY <1>0, <1>7, <2>1 DEF MarkPending
<1>8. CASE MarkRefused
  BY <1>0, <1>8, CheckType, IdleType DEF MarkRefused
<1>9. CASE SendJob
  BY <1>0, <1>9 DEF SendJob
<1>10. CASE WriteEntry
  BY <1>0, <1>10, IdleType DEF WriteEntry, Writing
<1>11. CASE DueDone
  BY <1>11 DEF DueDone
<1>12. CASE DrainDirty
  BY <1>12 DEF DrainDirty
<1>13. CASE ApplyDone
  BY <1>13 DEF ApplyDone
<1>14. ASSUME NEW a \in Auths, ApplyDirty(a) PROVE TypeOK'
  BY <1>14, CheckType, IdleType DEF ApplyDirty
<1>15. ASSUME NEW a \in Auths, NEW b \in BOOLEAN, DueNotYet(a, b) PROVE TypeOK'
  BY <1>15, CheckType, IdleType, FromLoopClockType, RefreshAssumption DEF DueNotYet
<1>16. ASSUME NEW a \in Auths, NEW b \in BOOLEAN, DueNow(a, b) PROVE TypeOK'
  BY <1>16 DEF DueNow
<1>. QED
  BY <1>1, <1>2, <1>3, <1>4, <1>5, <1>6, <1>7, <1>8, <1>9, <1>10, <1>11, <1>12,
     <1>13, <1>14, <1>15, <1>16 DEF LoopStep

LEMMA TypeProc ==
    ASSUME TypeOK, ControlOK, NEW p \in Procs,
           WorkerStep(p) \/ ClientStep(p)
    PROVE  TypeOK'
<1>. USE DEF TypeOK
<1>0. proc[p].pc # "idle" => proc[p].id \in Auths
  BY DEF ControlOK
<1>1. CASE MarkDirty(p)
  <2>1. [proc[p] EXCEPT !.pc = "wake"] \in ProcRec
    BY DEF ProcRec
  <2>. QED
    BY <1>0, <1>1, <2>1 DEF MarkDirty
<1>2. CASE OfferWake(p)
  <2>1. [proc[p] EXCEPT !.pc = "dirty", !.again = FALSE] \in ProcRec
    BY DEF ProcRec
  <2>. QED
    BY <1>2, <2>1, IdleType DEF OfferWake
<1>3. CASE TakeJob(p)
  <2>1. Head(jobs) \in Auths /\ Tail(jobs) \in Seq(Auths)
    BY <1>3 DEF TakeJob
  <2>2. [Idle EXCEPT !.pc = "read", !.id = Head(jobs)] \in ProcRec
    BY <2>1, IdleType DEF ProcRec
  <2>. QED
    BY <1>3, <2>1, <2>2 DEF TakeJob
<1>4. CASE StartRefresh(p)
  <2>1. Kept(auth[proc[p].id]) \in AuthRec
    <3>1. auth[proc[p].id] \in AuthRec
      BY <1>0, <1>4 DEF StartRefresh
    <3>. QED
      BY <3>1 DEF Kept, AuthRec
  <2>2. /\ [proc[p] EXCEPT !.pc = "refreshing", !.snap = Kept(auth[proc[p].id])] \in ProcRec
        /\ [proc[p] EXCEPT !.pc = "dirty"] \in ProcRec
    BY <2>1 DEF ProcRec
  <2>. QED
    BY <1>4, <2>2 DEF StartRefresh
<1>5. CASE RefreshCanceled(p)
  <2>1. [proc[p] EXCEPT !.pc = "dirty", !.snap = Absent] \in ProcRec
    BY IdleType DEF ProcRec
  <2>. QED
    BY <1>5, <2>1 DEF RefreshCanceled
<1>6. ASSUME NEW u \in BOOLEAN, RefreshFailed(p, u) PROVE TypeOK'
  <2>1. auth[proc[p].id] \in AuthRec
    BY <1>0, <1>6 DEF RefreshFailed
  <2>2. [auth[proc[p].id] EXCEPT !.unauthorized = u,
                                 !.nextAfter = IF u THEN 0 ELSE FailureBackoff] \in AuthRec
    BY <2>1, RefreshAssumption DEF AuthRec
  <2>3. [proc[p] EXCEPT !.pc = "dirty", !.snap = Absent,
                        !.again = auth[proc[p].id].present] \in ProcRec
    BY <2>1, IdleType DEF ProcRec, AuthRec
  <2>. QED
    BY <1>6, <2>2, <2>3 DEF RefreshFailed
<1>7. ASSUME NEW d \in Lifetimes, NEW b \in BOOLEAN, RefreshSucceeded(p, d, b)
      PROVE TypeOK'
  <2>. DEFINE fresh == [proc[p].snap EXCEPT !.due = d]
              backed == [fresh EXCEPT !.nextAfter = IneffectiveBackoff]
  <2>1. auth[proc[p].id] \in AuthRec
    BY <1>0, <1>7 DEF RefreshSucceeded
  <2>2. fresh \in AuthRec /\ backed \in AuthRec
    BY RefreshAssumption, ZenonT(40) DEF AuthRec, ProcRec
  <2>3. [proc[p] EXCEPT !.pc = "dirty", !.snap = Absent,
                        !.again = auth[proc[p].id].present] \in ProcRec
    BY <2>1, IdleType DEF ProcRec, AuthRec
  <2>. HIDE DEF fresh, backed
  <2>4. auth' \in [Auths -> AuthRec]
    BY <1>7, <2>1, <2>2 DEF RefreshSucceeded, fresh, backed
  <2>. QED
    BY <1>7, <2>3, <2>4 DEF RefreshSucceeded
<1>8. ASSUME NEW a \in Auths, ReadAuth(p, a) PROVE TypeOK'
  <2>1. [Idle EXCEPT !.pc = "commit", !.id = a, !.snap = auth[a]] \in ProcRec
    BY IdleType DEF ProcRec
  <2>. QED
    BY <1>8, <2>1 DEF ReadAuth
<1>9. ASSUME NEW a \in Auths, Remove(p, a) PROVE TypeOK'
  <2>1. [Idle EXCEPT !.pc = "unsched", !.id = a] \in ProcRec
    BY IdleType DEF ProcRec
  <2>. QED
    BY <1>9, <2>1, IdleType DEF Remove
<1>10. ASSUME NEW r \in AuthRec, proc[p].pc = "commit", Store(p, r) PROVE TypeOK'
  <2>1. [proc[p] EXCEPT !.pc = "dirty", !.snap = Absent] \in ProcRec
    BY IdleType DEF ProcRec
  <2>. QED
    BY <1>10, <2>1 DEF Store
<1>11. ASSUME NEW x \in BOOLEAN, CommitStatus(p, x) PROVE TypeOK'
  <2>1. [proc[p].snap EXCEPT !.disabled = x] \in AuthRec
    BY ZenonT(40) DEF ProcRec, AuthRec
  <2>. QED
    BY <1>10, <1>11, <2>1 DEF CommitStatus
<1>12. ASSUME NEW x \in BOOLEAN, NEW d \in Lifetimes, CommitFile(p, x, d) PROVE TypeOK'
  <2>. DEFINE r == [present |-> TRUE, disabled |-> x, unauthorized |-> FALSE,
                    nextAfter |-> IF proc[p].snap.disabled \/ x THEN 0
                                  ELSE proc[p].snap.nextAfter,
                    due |-> d]
  <2>1. r \in AuthRec
    BY RefreshAssumption DEF ProcRec, AuthRec
  <2>. QED
    BY <1>10, <1>12, <2>1 DEF CommitFile
<1>13. CASE CommitNothing(p)
  BY <1>13, IdleType DEF CommitNothing
<1>14. CASE Unschedule(p)
  BY <1>0, <1>14, IdleType DEF Unschedule
<1>. QED
  BY <1>1, <1>2, <1>3, <1>4, <1>5, <1>6, <1>7, <1>8, <1>9, <1>11, <1>12, <1>13, <1>14
     DEF WorkerStep, FinishRefresh, ClientStep, CommitStep

LEMMA TypeOther ==
    ASSUME TypeOK, Tick \/ \E a \in Auths, u \in BOOLEAN : MarkResult(a, u)
    PROVE  TypeOK'
<1>. USE DEF TypeOK
<1>1. ASSUME NEW a \in Auths, NEW u \in BOOLEAN, MarkResult(a, u) PROVE TypeOK'
  <2>1. [auth[a] EXCEPT !.unauthorized = u] \in AuthRec
    BY DEF AuthRec
  <2>. QED
    BY <1>1, <2>1 DEF MarkResult
<1>2. CASE Tick
  <2>1. \A p \in Procs : [proc[p] EXCEPT !.snap = Ticked(@)] \in ProcRec
    BY TickedType DEF ProcRec
  <2>2. lag' \in Nat
    BY <1>2, RefreshAssumption DEF Tick
  <2>. QED
    BY <1>2, <2>1, <2>2, TickedType, ElapseType DEF Tick
<1>. QED
  BY <1>1, <1>2

LEMMA TypeStep == TypeOK /\ ControlOK /\ [Next]_vars => TypeOK'
<1>1. TypeOK /\ UNCHANGED vars => TypeOK'
  BY DEF TypeOK, vars
<1>. QED
  BY <1>1, TypeLoop, TypeProc, TypeOther DEF Next, Procs

-----------------------------------------------------------------------------
(* Where the loop's local variables are in use.                             *)

LEMMA ControlLoop == TypeOK /\ ControlOK /\ LoopStep => ControlOK'
<1>. SUFFICES ASSUME TypeOK, ControlOK, LoopStep PROVE ControlOK'
  OBVIOUS
<1>. USE DEF ControlOK, Writing, TypeOK, LoopPcs
<1>1. CASE RebuildRead
  BY <1>1 DEF RebuildRead
<1>2. CASE RebuildFill
  BY <1>2 DEF RebuildFill, NoPlan
<1>3. CASE Arm
  BY <1>3 DEF Arm
<1>4. CASE SelectWake
  BY <1>4 DEF SelectWake
<1>5. CASE SelectTimer
  BY <1>5 DEF SelectTimer
<1>6. CASE PopDue
  BY <1>6 DEF PopDue
<1>7. CASE MarkPending
  BY <1>7 DEF MarkPending
<1>8. CASE MarkRefused
  BY <1>8 DEF MarkRefused, NoPlan
<1>9. CASE SendJob
  BY <1>9 DEF SendJob
<1>10. CASE WriteEntry
  BY <1>10 DEF WriteEntry, NoPlan
<1>11. CASE DueDone
  BY <1>11 DEF DueDone
<1>12. CASE DrainDirty
  BY <1>12 DEF DrainDirty
<1>13. CASE ApplyDone
  BY <1>13 DEF ApplyDone
<1>14. ASSUME NEW a \in Auths, ApplyDirty(a) PROVE ControlOK'
  BY <1>14 DEF ApplyDirty, NoPlan
<1>15. ASSUME NEW a \in Auths, NEW b \in BOOLEAN, DueNotYet(a, b) PROVE ControlOK'
  BY <1>15 DEF DueNotYet, NoPlan
<1>16. ASSUME NEW a \in Auths, NEW b \in BOOLEAN, DueNow(a, b) PROVE ControlOK'
  BY <1>16 DEF DueNow
<1>. QED
  BY <1>1, <1>2, <1>3, <1>4, <1>5, <1>6, <1>7, <1>8, <1>9, <1>10, <1>11, <1>12,
     <1>13, <1>14, <1>15, <1>16 DEF LoopStep

\* A process step keeps the loop's variables; only Unschedule touches the heap.
ProcFrameOf(p) ==
    /\ loopPc' = loopPc /\ hand' = hand /\ cur' = cur /\ plan' = plan
    /\ timer' = timer /\ lag' = lag
    /\ queue' \in {queue, [queue EXCEPT ![proc[p].id] = NoTime]}
    /\ \A q \in Procs \ {p} : proc'[q] = proc[q]
    /\ proc'[p].pc # "idle" => proc'[p].id \in Auths

LEMMA ProcFrame ==
    ASSUME TypeOK, ControlOK, NEW p \in Procs,
           WorkerStep(p) \/ ClientStep(p)
    PROVE  ProcFrameOf(p)
<1>. USE DEF TypeOK, ControlOK, ProcRec, Idle, ProcFrameOf
<1>1. CASE MarkDirty(p)
  BY <1>1 DEF MarkDirty
<1>2. CASE OfferWake(p)
  BY <1>2 DEF OfferWake
<1>3. CASE TakeJob(p)
  <2>1. Head(jobs) \in Auths
    BY <1>3 DEF TakeJob
  <2>. QED
    BY <1>3, <2>1 DEF TakeJob
<1>4. CASE StartRefresh(p)
  BY <1>4 DEF StartRefresh
<1>5. CASE RefreshCanceled(p)
  BY <1>5 DEF RefreshCanceled
<1>6. ASSUME NEW u \in BOOLEAN, RefreshFailed(p, u) PROVE ProcFrameOf(p)
  BY <1>6 DEF RefreshFailed
<1>7. ASSUME NEW d \in Lifetimes, NEW b \in BOOLEAN, RefreshSucceeded(p, d, b) PROVE ProcFrameOf(p)
  BY <1>7 DEF RefreshSucceeded
<1>8. ASSUME NEW a \in Auths, ReadAuth(p, a) PROVE ProcFrameOf(p)
  BY <1>8 DEF ReadAuth
<1>9. ASSUME NEW a \in Auths, Remove(p, a) PROVE ProcFrameOf(p)
  BY <1>9 DEF Remove
<1>10. ASSUME NEW x \in BOOLEAN, CommitStatus(p, x) PROVE ProcFrameOf(p)
  BY <1>10 DEF CommitStatus, Store
<1>11. ASSUME NEW x \in BOOLEAN, NEW d \in Lifetimes, CommitFile(p, x, d) PROVE ProcFrameOf(p)
  BY <1>11 DEF CommitFile, Store
<1>12. CASE CommitNothing(p)
  BY <1>12 DEF CommitNothing
<1>13. CASE Unschedule(p)
  BY <1>13 DEF Unschedule
<1>. QED
  BY <1>1, <1>2, <1>3, <1>4, <1>5, <1>6, <1>7, <1>8, <1>9, <1>10, <1>11, <1>12, <1>13
     DEF WorkerStep, FinishRefresh, ClientStep, CommitStep

LEMMA ControlStep == TypeOK /\ ControlOK /\ [Next]_vars => ControlOK'
<1>. SUFFICES ASSUME TypeOK, ControlOK, [Next]_vars PROVE ControlOK'
  OBVIOUS
<1>1. ASSUME NEW p \in Procs, WorkerStep(p) \/ ClientStep(p) PROVE ControlOK'
  <2>1. loopPc \in {"rebuild", "fill"} => queue' = NoPlan
    BY <1>1, ProcFrame DEF ControlOK, ProcFrameOf, NoPlan
  <2>. QED
    BY <1>1, <2>1, ProcFrame DEF ControlOK, ProcFrameOf, Writing
<1>2. ASSUME NEW a \in Auths, NEW u \in BOOLEAN, MarkResult(a, u) PROVE ControlOK'
  BY <1>2 DEF MarkResult, ControlOK, Writing
<1>3. CASE Tick
  <2>1. loopPc \notin {"rebuild", "fill"}
    BY <1>3 DEF Tick
  <2>2. \A p \in Procs : proc'[p].pc = proc[p].pc /\ proc'[p].id = proc[p].id
    BY <1>3 DEF Tick, TypeOK, ProcRec
  <2>. QED
    BY <1>3, <2>1, <2>2 DEF Tick, ControlOK, Writing
<1>4. CASE UNCHANGED vars
  BY <1>4 DEF vars, ControlOK, Writing
<1>. QED
  BY <1>1, <1>2, <1>3, <1>4, ControlLoop DEF Next, Procs

-----------------------------------------------------------------------------
(* No reschedule is lost.                                                   *)

LEMMA WakeupStep ==
    TypeOK /\ ControlOK /\ NoLostWakeup /\ [Next]_vars => NoLostWakeup'
<1>. SUFFICES ASSUME TypeOK, ControlOK, NoLostWakeup, [Next]_vars, dirty' # {}
              PROVE  (wake \/ WillDrain \/ \E p \in Procs : proc[p].pc = "wake")'
  BY DEF NoLostWakeup
<1>. USE DEF NoLostWakeup, WillDrain
<1>1. CASE LoopStep
  <2>1. CASE MarkPending
    BY <2>1 DEF MarkPending
  <2>2. CASE DrainDirty
    BY <2>2 DEF DrainDirty
  <2>3. CASE SelectWake
    BY <2>3 DEF SelectWake
  <2>4. ASSUME NEW a \in Auths, NEW b \in BOOLEAN, DueNotYet(a, b) \/ DueNow(a, b)
        PROVE  WillDrain'
    BY <2>4 DEF DueNotYet, DueNow
  <2>5. ASSUME NEW a \in Auths, ApplyDirty(a)
        PROVE  (wake \/ \E p \in Procs : proc[p].pc = "wake")'
    BY <2>5 DEF ApplyDirty
  <2>6. CASE RebuildRead \/ RebuildFill \/ Arm \/ ApplyDone
    BY <2>6 DEF RebuildRead, RebuildFill, Arm, ApplyDone
  <2>7. CASE SelectTimer \/ PopDue \/ MarkRefused \/ SendJob \/ DueDone
    BY <2>7 DEF SelectTimer, PopDue, MarkRefused, SendJob, DueDone
  <2>8. CASE WriteEntry
    BY <2>8 DEF WriteEntry
  <2>. QED
    BY <1>1, <2>1, <2>2, <2>3, <2>4, <2>5, <2>6, <2>7, <2>8 DEF LoopStep
<1>2. ASSUME NEW p \in Procs, WorkerStep(p) \/ ClientStep(p)
      PROVE  (wake \/ WillDrain \/ \E q \in Procs : proc[q].pc = "wake")'
  <2>1. loopPc' = loopPc /\ \A q \in Procs \ {p} : proc'[q] = proc[q]
    BY <1>2, ProcFrame DEF ProcFrameOf
  <2>2. CASE MarkDirty(p)
    <3>1. proc'[p].pc = "wake"
      BY <2>2 DEF MarkDirty, TypeOK, ProcRec
    <3>. QED
      BY <3>1
  <2>3. CASE OfferWake(p)
    BY <2>3 DEF OfferWake
  <2>4. ASSUME proc[p].pc # "wake", dirty' = dirty, wake' = wake
        PROVE  (wake \/ WillDrain \/ \E q \in Procs : proc[q].pc = "wake")'
    BY <2>1, <2>4
  <2>5. CASE TakeJob(p) \/ StartRefresh(p) \/ RefreshCanceled(p)
    BY <2>4, <2>5 DEF TakeJob, StartRefresh, RefreshCanceled
  <2>6. ASSUME NEW u \in BOOLEAN, RefreshFailed(p, u)
        PROVE  proc[p].pc # "wake" /\ dirty' = dirty /\ wake' = wake
    BY <2>6 DEF RefreshFailed
  <2>7. ASSUME NEW d \in Lifetimes, NEW b \in BOOLEAN, RefreshSucceeded(p, d, b)
        PROVE  proc[p].pc # "wake" /\ dirty' = dirty /\ wake' = wake
    BY <2>7 DEF RefreshSucceeded
  <2>8. ASSUME NEW a \in Auths, ReadAuth(p, a) \/ Remove(p, a)
        PROVE  proc[p].pc # "wake" /\ dirty' = dirty /\ wake' = wake
    BY <2>8 DEF ReadAuth, Remove
  <2>9. CASE CommitStep(p)
    BY <2>4, <2>9 DEF CommitStep, CommitFile, CommitStatus, CommitNothing, Store
  <2>10. CASE Unschedule(p)
    BY <2>4, <2>10 DEF Unschedule
  <2>. QED
    BY <1>2, <2>2, <2>3, <2>4, <2>5, <2>6, <2>7, <2>8, <2>9, <2>10
       DEF WorkerStep, FinishRefresh, ClientStep
<1>3. ASSUME NEW a \in Auths, NEW u \in BOOLEAN, MarkResult(a, u)
      PROVE  (wake \/ WillDrain \/ \E p \in Procs : proc[p].pc = "wake")'
  BY <1>3 DEF MarkResult
<1>4. CASE Tick
  <2>1. \A p \in Procs : proc'[p].pc = proc[p].pc
    BY <1>4 DEF Tick, TypeOK, ProcRec
  <2>. QED
    BY <1>4, <2>1 DEF Tick
<1>5. CASE UNCHANGED vars
  BY <1>5 DEF vars
<1>. QED
  BY <1>1, <1>2, <1>3, <1>4, <1>5 DEF Next, Procs

-----------------------------------------------------------------------------
(* The armed timer covers the heap.                                         *)

LEMMA ElapseMonotone ==
    \A s, t \in Nat : s =< t => Elapse(s) =< Elapse(t)
BY DEF Elapse

LEMMA TimerStep ==
    TypeOK /\ ControlOK /\ TimerCoversHeap /\ [Next]_vars => TimerCoversHeap'
<1>. SUFFICES ASSUME TypeOK, ControlOK, TimerCoversHeap, [Next]_vars, loopPc' = "select",
                     NEW a \in Auths, queue'[a] # NoTime
              PROVE  timer' # NoTime /\ timer' =< queue'[a]
  BY DEF TimerCoversHeap
<1>1. CASE LoopStep
  <2>1. CASE Arm
    <3>1. HeapTop(timer') /\ queue' = queue
      BY <2>1 DEF Arm
    <3>. QED
      BY <3>1 DEF HeapTop, TypeOK
  <2>2. CASE ~Arm
    BY <1>1, <2>2 DEF LoopStep, RebuildRead, RebuildFill, SelectWake, SelectTimer, PopDue,
       MarkPending, MarkRefused, SendJob, WriteEntry, DueDone, DrainDirty, ApplyDone,
       ApplyDirty, DueNotYet, DueNow
  <2>. QED
    BY <2>1, <2>2
<1>2. ASSUME NEW p \in Procs, WorkerStep(p) \/ ClientStep(p)
      PROVE  timer' # NoTime /\ timer' =< queue'[a]
  BY <1>2, ProcFrame DEF ProcFrameOf, TimerCoversHeap, TypeOK
<1>3. ASSUME NEW b \in Auths, NEW u \in BOOLEAN, MarkResult(b, u)
      PROVE  timer' # NoTime /\ timer' =< queue'[a]
  BY <1>3 DEF MarkResult, TimerCoversHeap
<1>4. CASE Tick
  <2>1. queue'[a] = Elapse(queue[a]) /\ timer' = Elapse(timer) /\ loopPc = "select"
    BY <1>4 DEF Tick
  <2>2. queue[a] \in Nat /\ timer \in Nat /\ timer =< queue[a]
    BY <2>1, ElapseType DEF TimerCoversHeap, TypeOK
  <2>. QED
    BY <2>1, <2>2, ElapseMonotone, ElapseType DEF NoTime
<1>5. CASE UNCHANGED vars
  BY <1>5 DEF vars, TimerCoversHeap
<1>. QED
  BY <1>1, <1>2, <1>3, <1>4, <1>5 DEF Next, Procs

-----------------------------------------------------------------------------
(* No present auth is lost.                                                 *)

\* Auth a is where EveryPresentTracked says.
Safe(a) ==
    auth[a].present /\ a \notin Unscheduled /\ ~Starting /\ a \notin Forgotten => Tracked(a)

\* A process step, seen from auth a: how a can change hands.
ProcEffect(p, a) ==
    /\ auth'[a].present => auth[a].present \/ (proc'[p].id = a /\ proc'[p].pc = "dirty")
    /\ auth'[a] # auth[a] /\ auth'[a].present => proc'[p].id = a /\ proc'[p].pc = "dirty"
    /\ a \in dirty => a \in dirty'
    /\ a \in Forgotten => a \in Forgotten' \/ a \in dirty'
    /\ a \in Forgotten' => a \in Forgotten \/ queue'[a] = NoTime
    /\ queue'[a] # queue[a] /\ auth'[a].present => a \in Forgotten'
    /\ proc[p].id = a /\ proc[p].pc \in {"read", "refreshing", "dirty"}
         => \/ a \in dirty'
            \/ proc'[p].id = a /\ proc'[p].pc \in {"read", "refreshing", "dirty"}
    /\ proc[p].id = a /\ proc[p].pc = "dirty" => a \in dirty'
    /\ \A i \in 1..Len(jobs) : jobs[i] = a
         => \/ \E j \in 1..Len(jobs') : jobs'[j] = a
            \/ proc'[p].id = a /\ proc'[p].pc = "read"

LEMMA ProcEffectOf ==
    ASSUME TypeOK, ControlOK, NEW p \in Procs, NEW a \in Auths,
           WorkerStep(p) \/ ClientStep(p)
    PROVE  ProcEffect(p, a)
<1>. USE DEF TypeOK, ControlOK, ProcRec, Idle, AuthRec, Forgotten, ProcEffect
<1>1. CASE MarkDirty(p)
  BY <1>1 DEF MarkDirty
<1>2. CASE OfferWake(p)
  BY <1>2 DEF OfferWake
<1>3. CASE TakeJob(p)
  <2>0. jobs \in Seq(Auths) /\ jobs # <<>>
    BY <1>3 DEF TakeJob
  <2>1. Head(jobs) = jobs[1] /\ Len(Tail(jobs)) = Len(jobs) - 1
        /\ \A i \in 2..Len(jobs) : Tail(jobs)[i - 1] = jobs[i] /\ i - 1 \in 1..Len(Tail(jobs))
    BY <2>0, HeadTailProperties
  <2>2. ASSUME NEW i \in 1..Len(jobs), jobs[i] = a
        PROVE  \/ \E j \in 1..Len(jobs') : jobs'[j] = a
               \/ proc'[p].id = a /\ proc'[p].pc = "read"
    <3>1. CASE i = 1
      BY <1>3, <2>1, <2>2, <3>1 DEF TakeJob
    <3>2. CASE i \in 2..Len(jobs)
      BY <1>3, <2>1, <2>2, <3>2 DEF TakeJob
    <3>. QED
      BY <3>1, <3>2
  <2>. QED
    BY <1>3, <2>2 DEF TakeJob
<1>4. CASE StartRefresh(p)
  BY <1>4 DEF StartRefresh
<1>5. CASE RefreshCanceled(p)
  BY <1>5 DEF RefreshCanceled
<1>6. ASSUME NEW u \in BOOLEAN, RefreshFailed(p, u) PROVE ProcEffect(p, a)
  BY <1>6 DEF RefreshFailed
<1>7. ASSUME NEW d \in Lifetimes, NEW b \in BOOLEAN, RefreshSucceeded(p, d, b)
      PROVE  ProcEffect(p, a)
  BY <1>7 DEF RefreshSucceeded
<1>8. ASSUME NEW e \in Auths, ReadAuth(p, e) PROVE ProcEffect(p, a)
  BY <1>8 DEF ReadAuth
<1>9. ASSUME NEW e \in Auths, Remove(p, e) PROVE ProcEffect(p, a)
  BY <1>9 DEF Remove, Absent
<1>10. ASSUME NEW r \in AuthRec, proc[p].pc = "commit", Store(p, r)
       PROVE  ProcEffect(p, a)
  BY <1>10 DEF Store
<1>11. ASSUME NEW x \in BOOLEAN, CommitStatus(p, x) PROVE ProcEffect(p, a)
  BY <1>10, <1>11 DEF CommitStatus
<1>12. ASSUME NEW x \in BOOLEAN, NEW d \in Lifetimes, CommitFile(p, x, d)
       PROVE  ProcEffect(p, a)
  BY <1>12 DEF CommitFile, Store
<1>13. CASE CommitNothing(p)
  BY <1>13 DEF CommitNothing
<1>14. CASE Unschedule(p)
  BY <1>14 DEF Unschedule
<1>. QED
  BY <1>1, <1>2, <1>3, <1>4, <1>5, <1>6, <1>7, <1>8, <1>9, <1>11, <1>12, <1>13, <1>14
     DEF WorkerStep, FinishRefresh, ClientStep, CommitStep

LEMMA TrackedLoop ==
    TypeOK /\ ControlOK /\ EveryPresentTracked /\ RemovalJustified /\ LoopStep
        => EveryPresentTracked'
<1>. SUFFICES ASSUME TypeOK, ControlOK, EveryPresentTracked, RemovalJustified, LoopStep,
                     NEW a \in Auths
              PROVE  Safe(a)'
  BY DEF EveryPresentTracked, Safe
<1>. USE DEF Safe, Starting, Forgotten, Tracked
<1>0. Safe(a)
  BY DEF EveryPresentTracked
<1>a. jobs' = jobs => (InJobs(a)' <=> InJobs(a))
  BY DEF InJobs
<1>b. proc' = proc => (Held(a)' <=> Held(a))
  BY DEF Held
<1>c. ~Writing /\ loopPc # "fill" => plan[a] = NoTime
  BY DEF ControlOK
<1>1. CASE RebuildRead
  <2>1. auth'[a].present /\ a \notin Unscheduled /\ a \notin lapsed' => plan'[a] # NoTime
    BY <1>1, CheckType DEF RebuildRead, TypeOK, Schedulable
  <2>. QED
    BY <2>1
<1>2. CASE RebuildFill
  BY <1>0, <1>2, <1>a, <1>b DEF RebuildFill, ControlOK, NoPlan
<1>3. CASE Arm \/ SelectWake \/ SelectTimer \/ DueDone \/ ApplyDone
  BY <1>0, <1>3, <1>a, <1>b DEF Arm, SelectWake, SelectTimer, DueDone, ApplyDone
<1>4. CASE PopDue
  BY <1>0, <1>4, <1>a, <1>b DEF PopDue, ControlOK, TypeOK
<1>5. CASE MarkPending
  <2>1. auth'[a].present => auth[a].present
    BY <1>5 DEF MarkPending, TypeOK, AuthRec
  <2>. QED
    BY <1>0, <1>5, <1>a, <1>b, <2>1 DEF MarkPending
<1>6. CASE MarkRefused
  BY <1>0, <1>6, <1>a, <1>b, <1>c DEF MarkRefused, Writing
<1>7. CASE SendJob
  <2>0. /\ jobs \in Seq(Auths) /\ cur \in Auths /\ jobs' = Append(jobs, cur)
        /\ Len(jobs') = Len(jobs) + 1 /\ jobs'[Len(jobs) + 1] = cur
        /\ \A i \in 1..Len(jobs) : jobs'[i] = jobs[i]
    BY <1>7 DEF SendJob, TypeOK, ControlOK
  <2>1. a = cur => InJobs(a)'
    BY <2>0 DEF InJobs
  <2>2. InJobs(a) => InJobs(a)'
    BY <2>0 DEF InJobs
  <2>. QED
    BY <1>0, <1>7, <1>b, <2>1, <2>2 DEF SendJob
<1>8. CASE WriteEntry
  <2>1. Writing
    BY <1>8 DEF WriteEntry, Writing
  <2>2. Forgotten' = Forgotten /\ auth' = auth /\ dirty' = dirty
    BY <1>8 DEF WriteEntry
  <2>3. CASE a = cur /\ plan[a] = NoTime
    BY <1>8, <1>b, <2>1, <2>2, <2>3 DEF RemovalJustified, Held, WriteEntry
  <2>4. CASE a = cur /\ plan[a] # NoTime
    BY <1>8, <2>4 DEF WriteEntry, TypeOK
  <2>5. CASE a # cur
    <3>1. plan[a] = NoTime
      BY <2>1, <2>5 DEF ControlOK, Writing
    <3>. QED
      BY <1>0, <1>8, <1>a, <1>b, <2>5, <3>1 DEF WriteEntry, TypeOK
  <2>. QED
    BY <2>3, <2>4, <2>5
<1>9. CASE DrainDirty
  BY <1>0, <1>9, <1>a, <1>b DEF DrainDirty, ControlOK
<1>10. ASSUME NEW e \in Auths, ApplyDirty(e) PROVE Safe(a)'
  BY <1>0, <1>10, <1>a, <1>b, <1>c DEF ApplyDirty, Writing
<1>11. ASSUME NEW e \in Auths, NEW b \in BOOLEAN, DueNotYet(e, b) PROVE Safe(a)'
  BY <1>0, <1>11, <1>a, <1>b, <1>c DEF DueNotYet, Writing
<1>12. ASSUME NEW e \in Auths, NEW b \in BOOLEAN, DueNow(e, b) PROVE Safe(a)'
  BY <1>0, <1>12, <1>a, <1>b DEF DueNow
<1>. QED
  BY <1>1, <1>2, <1>3, <1>4, <1>5, <1>6, <1>7, <1>8, <1>9, <1>10, <1>11, <1>12
     DEF LoopStep

LEMMA TrackedStep ==
    TypeOK /\ ControlOK /\ EveryPresentTracked /\ RemovalJustified /\ [Next]_vars
        => EveryPresentTracked'
<1>. SUFFICES ASSUME TypeOK, ControlOK, EveryPresentTracked, RemovalJustified, [Next]_vars
              PROVE  EveryPresentTracked'
  OBVIOUS
<1>1. ASSUME NEW p \in Procs, WorkerStep(p) \/ ClientStep(p), NEW a \in Auths
      PROVE  Safe(a)'
  <2>1. ProcEffect(p, a) /\ ProcFrameOf(p)
    BY <1>1, ProcEffectOf, ProcFrame
  <2>2. Safe(a)
    BY DEF EveryPresentTracked, Safe
  <2>3. Held(a) => Held(a)' \/ a \in dirty'
    BY <2>1 DEF ProcEffect, ProcFrameOf, Held
  <2>4. InJobs(a) => InJobs(a)' \/ Held(a)'
    BY <2>1 DEF ProcEffect, InJobs, Held
  <2>5. auth'[a].present => auth[a].present \/ Held(a)'
    BY <2>1 DEF ProcEffect, Held
  <2>. QED
    BY <2>1, <2>2, <2>3, <2>4, <2>5 DEF ProcEffect, ProcFrameOf, Safe, Tracked, Starting
<1>2. ASSUME NEW e \in Auths, NEW u \in BOOLEAN, MarkResult(e, u), NEW a \in Auths
      PROVE  Safe(a)'
  <2>1. auth'[a].present => auth[a].present
    BY <1>2 DEF MarkResult, TypeOK, AuthRec
  <2>. QED
    BY <1>2, <2>1 DEF MarkResult, EveryPresentTracked, Safe, Tracked, Starting, Forgotten,
       InJobs, Held
<1>3. ASSUME Tick, NEW a \in Auths PROVE Safe(a)'
  <2>1. auth'[a].present = auth[a].present
    BY <1>3 DEF Tick, TypeOK, AuthRec, Ticked
  <2>2. \A p \in Procs : proc'[p].pc = proc[p].pc /\ proc'[p].id = proc[p].id
    BY <1>3 DEF Tick, TypeOK, ProcRec
  <2>3. queue[a] # NoTime => queue'[a] # NoTime
    BY <1>3, ElapseType DEF Tick, TypeOK
  <2>4. Held(a)' <=> Held(a)
    BY <2>2 DEF Held
  <2>5. InJobs(a)' <=> InJobs(a)
    BY <1>3 DEF Tick, InJobs
  <2>. QED
    BY <1>3, <2>1, <2>3, <2>4, <2>5 DEF Tick, EveryPresentTracked, Safe, Tracked, Starting,
       Forgotten
<1>4. CASE UNCHANGED vars
  BY <1>4 DEF vars, EveryPresentTracked, Tracked, Starting, Forgotten, InJobs, Held
<1>. QED
  BY <1>1, <1>2, <1>3, <1>4, TrackedLoop DEF Next, Procs, EveryPresentTracked, Safe

-----------------------------------------------------------------------------
(* What the loop takes out of the heap was rightly taken.                   *)

\* RemovalJustified, of one auth.
JustifiedFor(a) ==
    Writing /\ a = cur /\ plan[a] = NoTime /\ auth[a].present /\ a \notin Unscheduled
        => a \in Forgotten \cup dirty \/ \E p \in Procs : proc[p].id = a /\ proc[p].pc = "dirty"

LEMMA JustifiedStep ==
    TypeOK /\ ControlOK /\ RemovalJustified /\ [Next]_vars => RemovalJustified'
<1>. SUFFICES ASSUME TypeOK, ControlOK, RemovalJustified, [Next]_vars, NEW a \in Auths
              PROVE  JustifiedFor(a)'
  BY DEF RemovalJustified, JustifiedFor
<1>0. JustifiedFor(a)
  BY DEF RemovalJustified, JustifiedFor
<1>1. ASSUME plan'[a] = NoTime => ~Schedulable(a, auth[a]), auth' = auth, cur' = a,
             auth[a].unauthorized => a \in lapsed'
      PROVE  JustifiedFor(a)'
  BY <1>1 DEF JustifiedFor, Schedulable, Forgotten
<1>2. CASE LoopStep
  <2>1. ASSUME NEW e \in Auths, ApplyDirty(e) PROVE JustifiedFor(a)'
    <3>1. CASE e = a
      BY <1>1, <2>1, <3>1, CheckType, IdleType DEF ApplyDirty, TypeOK
    <3>. QED
      BY <2>1, <3>1 DEF ApplyDirty, JustifiedFor
  <2>2. ASSUME NEW e \in Auths, NEW b \in BOOLEAN, DueNotYet(e, b) PROVE JustifiedFor(a)'
    <3>1. CASE e = a
      <4>1. plan'[a] = NoTime => NextRefreshCheck(a, auth[a]) = NoTime
        BY <2>2, <3>1, IdleType, FromLoopClockType, RefreshAssumption
           DEF DueNotYet, TypeOK, NoTime
      <4>. QED
        BY <1>1, <2>2, <3>1, <4>1, CheckType DEF DueNotYet, TypeOK
    <3>. QED
      BY <2>2, <3>1 DEF DueNotYet, JustifiedFor
  <2>3. CASE MarkRefused
    <3>1. CASE cur = a
      BY <1>1, <2>3, <3>1, CheckType, IdleType DEF MarkRefused, TypeOK
    <3>. QED
      BY <2>3, <3>1 DEF MarkRefused, JustifiedFor
  <2>4. ASSUME NEW e \in Auths, NEW b \in BOOLEAN, DueNow(e, b) PROVE JustifiedFor(a)'
    BY <2>4 DEF DueNow, JustifiedFor, Writing
  <2>5. CASE RebuildRead \/ RebuildFill \/ Arm \/ SelectWake \/ SelectTimer \/ PopDue
             \/ MarkPending \/ SendJob \/ WriteEntry \/ DueDone \/ DrainDirty \/ ApplyDone
    BY <2>5 DEF RebuildRead, RebuildFill, Arm, SelectWake, SelectTimer, PopDue, MarkPending,
       SendJob, WriteEntry, DueDone, DrainDirty, ApplyDone, JustifiedFor, Writing
  <2>. QED
    BY <1>2, <2>1, <2>2, <2>3, <2>4, <2>5 DEF LoopStep
<1>3. ASSUME NEW p \in Procs, WorkerStep(p) \/ ClientStep(p)
      PROVE  JustifiedFor(a)'
  <2>1. ProcEffect(p, a) /\ ProcFrameOf(p)
    BY <1>3, ProcEffectOf, ProcFrame
  <2>. QED
    BY <1>0, <2>1 DEF ProcEffect, ProcFrameOf, JustifiedFor, Writing
<1>4. ASSUME NEW e \in Auths, NEW u \in BOOLEAN, MarkResult(e, u)
      PROVE  JustifiedFor(a)'
  <2>1. auth'[a].present => auth[a].present
    BY <1>4 DEF MarkResult, TypeOK, AuthRec
  <2>. QED
    BY <1>0, <1>4, <2>1 DEF MarkResult, JustifiedFor, Writing, Forgotten
<1>5. CASE Tick
  BY <1>5 DEF Tick, JustifiedFor, Writing
<1>6. CASE UNCHANGED vars
  BY <1>0, <1>6 DEF vars, JustifiedFor, Writing, Forgotten
<1>. QED
  BY <1>2, <1>3, <1>4, <1>5, <1>6 DEF Next, Procs

-----------------------------------------------------------------------------
(* The heap is on time.                                                     *)

\* HeapOnTime, of one auth.
OnTimeFor(a) ==
    LookedAfter(a) =>
        /\ loopPc = "fill" \/ (Writing /\ a = cur) => OnTime(plan[a], a)
        /\ loopPc \notin {"rebuild", "fill"} /\ a \notin hand => OnTime(queue[a], a)

\* What the loop computes is no later than what the auth wants.
LEMMA CheckOnTime ==
    ASSUME TypeOK, NEW a \in Auths, Schedulable(a, auth[a])
    PROVE  OnTime(NextRefreshCheck(a, auth[a]), a)
<1>1. auth[a] \in AuthRec /\ lag \in Nat /\ Interval \in Nat
  BY RefreshAssumption DEF TypeOK
<1>2. FromLoopClock(Interval) \in Nat /\ FromLoopClock(Interval) =< Interval
  BY <1>1 DEF FromLoopClock
<1>. QED
  BY <1>1, <1>2 DEF NextRefreshCheck, OnTime, Wanted, AuthRec, NoTime

\* A decision of the loop: the auth was read, and the plan is what was computed.
LEMMA DecisionOnTime ==
    ASSUME TypeOK, NEW a \in Auths, OnTimeFor(a), NEW e \in Auths,
           plan' = [NoPlan EXCEPT ![e] = NextRefreshCheck(e, auth[e])],
           lapsed' = IF auth[e].unauthorized THEN lapsed \cup {e} ELSE lapsed,
           cur' = e, UNCHANGED <<auth, queue, dirty, hand, proc, evicted>>,
           loopPc \notin {"rebuild", "fill"}, loopPc' # "fill"
    PROVE  OnTimeFor(a)'
<1>1. LookedAfter(a)' => LookedAfter(a)
  BY DEF LookedAfter, Rescheduled, Forgotten
<1>2. CASE a = e
  <2>1. LookedAfter(a)' => Schedulable(a, auth[a])
    BY <1>2 DEF LookedAfter, Forgotten, Schedulable
  <2>2. plan'[a] = NextRefreshCheck(a, auth[a])
    BY <1>2 DEF NoPlan
  <2>3. LookedAfter(a)' => OnTime(plan[a], a)'
    BY <2>1, <2>2, CheckOnTime DEF OnTime, Wanted
  <2>. QED
    BY <1>1, <2>3 DEF OnTimeFor, OnTime, Wanted
<1>3. CASE a # e
  BY <1>1, <1>3 DEF OnTimeFor, OnTime, Wanted
<1>. QED
  BY <1>2, <1>3

LEMMA OnTimeLoop ==
    ASSUME TypeOK, ControlOK, HeapOnTime, LoopStep, NEW a \in Auths
    PROVE  OnTimeFor(a)'
<1>0. OnTimeFor(a)
  BY DEF HeapOnTime, OnTimeFor
<1>. USE DEF OnTimeFor
<1>1. CASE RebuildRead
  <2>1. LookedAfter(a)' => Schedulable(a, auth[a])
    BY <1>1 DEF RebuildRead, LookedAfter, Forgotten, Schedulable
  <2>2. LookedAfter(a)' => OnTime(plan[a], a)'
    BY <1>1, <2>1, CheckOnTime DEF RebuildRead, OnTime, Wanted
  <2>. QED
    BY <1>1, <2>2 DEF RebuildRead
<1>2. CASE RebuildFill
  BY <1>0, <1>2 DEF RebuildFill, LookedAfter, Rescheduled, Forgotten, OnTime, Wanted, Writing
<1>3. CASE Arm \/ SelectWake \/ SelectTimer \/ DueDone \/ ApplyDone
  BY <1>0, <1>3 DEF Arm, SelectWake, SelectTimer, DueDone, ApplyDone, LookedAfter, Rescheduled,
     Forgotten, OnTime, Wanted, Writing, ControlOK
<1>4. CASE PopDue
  BY <1>0, <1>4 DEF PopDue, ControlOK, TypeOK, LookedAfter, Rescheduled, Forgotten, OnTime,
     Wanted, Writing
<1>5. CASE MarkPending
  <2>1. a = cur => ~LookedAfter(a)'
    BY <1>5 DEF MarkPending, LookedAfter, Rescheduled
  <2>2. a # cur => auth'[a] = auth[a]
    BY <1>5 DEF MarkPending, TypeOK
  <2>. QED
    BY <1>0, <1>5, <2>1, <2>2 DEF MarkPending, LookedAfter, Rescheduled, Forgotten, OnTime,
       Wanted, Writing
<1>6. CASE MarkRefused
  <2>1. cur \in Auths
    BY <1>6 DEF MarkRefused, ControlOK, TypeOK
  <2>. QED
    BY <1>0, <1>6, <2>1, DecisionOnTime DEF MarkRefused
<1>7. CASE SendJob
  <2>1. a = cur => ~LookedAfter(a)'
    BY <1>7 DEF SendJob, LookedAfter, Rescheduled, HeapOnTime
  <2>. QED
    BY <1>0, <1>7, <2>1 DEF SendJob, LookedAfter, Rescheduled, Forgotten, OnTime, Wanted, Writing
<1>8. CASE WriteEntry
  <2>1. LookedAfter(a)' => LookedAfter(a)
    BY <1>8 DEF WriteEntry, LookedAfter, Rescheduled, Forgotten
  <2>2. Writing /\ ~Writing' /\ loopPc' # "fill"
    BY <1>8 DEF WriteEntry, Writing
  <2>3. CASE a = cur
    BY <1>0, <1>8, <2>1, <2>2, <2>3 DEF WriteEntry, TypeOK, OnTime, Wanted
  <2>4. CASE a # cur
    BY <1>0, <1>8, <2>1, <2>2, <2>4 DEF WriteEntry, TypeOK, OnTime, Wanted, Writing
  <2>. QED
    BY <2>3, <2>4
<1>9. CASE DrainDirty
  <2>1. a \notin hand' /\ LookedAfter(a)' => LookedAfter(a) /\ a \notin hand
    BY <1>9 DEF DrainDirty, ControlOK, LookedAfter, Rescheduled, Forgotten
  <2>. QED
    BY <1>0, <1>9, <2>1 DEF DrainDirty, OnTime, Wanted, Writing
<1>10. ASSUME NEW e \in Auths, ApplyDirty(e) PROVE OnTimeFor(a)'
  BY <1>0, <1>10, DecisionOnTime DEF ApplyDirty
<1>11. ASSUME NEW e \in Auths, NEW b \in BOOLEAN, DueNotYet(e, b) PROVE OnTimeFor(a)'
  <2>1. CASE e \in NoExecutor
    <3>1. LookedAfter(a)' => LookedAfter(a) /\ a # e
      BY <1>11, <2>1 DEF DueNotYet, LookedAfter, Rescheduled, Forgotten
    <3>. QED
      BY <1>0, <1>11, <3>1 DEF DueNotYet, OnTime, Wanted, Writing
  <2>2. CASE e \in Unscheduled
    <3>1. LookedAfter(a)' => LookedAfter(a) /\ a # e
      BY <1>11, <2>2 DEF DueNotYet, LookedAfter, Rescheduled, Forgotten
    <3>. QED
      BY <1>0, <1>11, <3>1 DEF DueNotYet, OnTime, Wanted, Writing
  <2>3. CASE ~ShouldRefresh(e, auth[e], b)
    <3>1. plan' = [NoPlan EXCEPT ![e] = NextRefreshCheck(e, auth[e])]
      BY <1>11, <2>3 DEF DueNotYet
    <3>. QED
      BY <1>0, <1>11, <3>1, DecisionOnTime DEF DueNotYet
  <2>. QED
    BY <1>11, <2>1, <2>2, <2>3 DEF DueNotYet
<1>12. ASSUME NEW e \in Auths, NEW b \in BOOLEAN, DueNow(e, b) PROVE OnTimeFor(a)'
  BY <1>0, <1>12 DEF DueNow, LookedAfter, Rescheduled, Forgotten, OnTime, Wanted, Writing
<1>. QED
  BY <1>1, <1>2, <1>3, <1>4, <1>5, <1>6, <1>7, <1>8, <1>9, <1>10, <1>11, <1>12
     DEF LoopStep

\* Whatever is sent to the workers is dirty.
LEMMA SendStep ==
    ASSUME TypeOK, ControlOK, HeapOnTime, [Next]_vars, loopPc' = "send"
    PROVE  cur' \in dirty'
<1>1. CASE LoopStep
  BY <1>1 DEF LoopStep, RebuildRead, RebuildFill, Arm, SelectWake, SelectTimer, PopDue,
     MarkPending, MarkRefused, SendJob, WriteEntry, DueDone, DrainDirty, ApplyDone,
     ApplyDirty, DueNotYet, DueNow
<1>2. ASSUME NEW p \in Procs, WorkerStep(p) \/ ClientStep(p) PROVE cur' \in dirty'
  <2>1. loopPc = "send" /\ cur' = cur /\ cur \in Auths
    BY <1>2, ProcFrame DEF ProcFrameOf, ControlOK, TypeOK
  <2>. QED
    BY <1>2, <2>1, ProcEffectOf DEF ProcEffect, HeapOnTime
<1>3. ASSUME NEW e \in Auths, NEW u \in BOOLEAN, MarkResult(e, u) PROVE cur' \in dirty'
  BY <1>3 DEF MarkResult, HeapOnTime
<1>4. CASE Tick
  BY <1>4 DEF Tick, HeapOnTime
<1>5. CASE UNCHANGED vars
  BY <1>5 DEF vars, HeapOnTime
<1>. QED
  BY <1>1, <1>2, <1>3, <1>4, <1>5 DEF Next, Procs

LEMMA OnTimeStep ==
    TypeOK /\ ControlOK /\ HeapOnTime /\ [Next]_vars => HeapOnTime'
<1>. SUFFICES ASSUME TypeOK, ControlOK, HeapOnTime, [Next]_vars, NEW a \in Auths
              PROVE  OnTimeFor(a)'
  BY SendStep DEF HeapOnTime, OnTimeFor
<1>0. OnTimeFor(a)
  BY DEF HeapOnTime, OnTimeFor
<1>1. ASSUME NEW p \in Procs, WorkerStep(p) \/ ClientStep(p) PROVE OnTimeFor(a)'
  <2>1. ProcEffect(p, a) /\ ProcFrameOf(p)
    BY <1>1, ProcEffectOf, ProcFrame
  <2>2. LookedAfter(a)' => auth'[a] = auth[a] /\ queue'[a] = queue[a]
    BY <2>1 DEF ProcEffect, LookedAfter, Rescheduled
  <2>3. LookedAfter(a)' => LookedAfter(a)
    <3>1. Rescheduled(a) => Rescheduled(a)'
      BY <2>1 DEF ProcEffect, ProcFrameOf, Rescheduled
    <3>2. a \in Forgotten => a \in Forgotten' \/ Rescheduled(a)'
      BY <2>1 DEF ProcEffect, Rescheduled
    <3>. QED
      BY <2>2, <3>1, <3>2 DEF LookedAfter
  <2>. QED
    BY <1>0, <2>1, <2>2, <2>3 DEF ProcFrameOf, OnTimeFor, OnTime, Wanted, Writing
<1>2. ASSUME NEW e \in Auths, NEW u \in BOOLEAN, MarkResult(e, u) PROVE OnTimeFor(a)'
  <2>1. /\ auth'[a].present = auth[a].present /\ auth'[a].nextAfter = auth[a].nextAfter
        /\ auth'[a].due = auth[a].due
    BY <1>2 DEF MarkResult, TypeOK, AuthRec
  <2>. QED
    BY <1>0, <1>2, <2>1 DEF MarkResult, LookedAfter, Rescheduled, Forgotten, OnTimeFor, OnTime,
       Wanted, Writing
<1>3. CASE Tick
  <2>1. /\ auth[a] \in AuthRec /\ auth'[a] = Ticked(auth[a]) /\ queue'[a] = Elapse(queue[a])
        /\ loopPc' = loopPc /\ loopPc \in {"select", "send"}
    BY <1>3 DEF Tick, TypeOK
  <2>2. \A p \in Procs : proc'[p].pc = proc[p].pc /\ proc'[p].id = proc[p].id
    BY <1>3 DEF Tick, TypeOK, ProcRec
  <2>3. /\ auth'[a].present = auth[a].present
        /\ auth'[a].nextAfter = Elapse(auth[a].nextAfter) /\ auth'[a].due = Elapse(auth[a].due)
    BY <2>1 DEF Ticked, AuthRec
  <2>4. LookedAfter(a)' => LookedAfter(a)
    BY <1>3, <2>2, <2>3 DEF Tick, LookedAfter, Rescheduled, Forgotten
  <2>5. ASSUME OnTime(queue[a], a) PROVE OnTime(queue[a], a)'
    <3>1. /\ queue[a] \in Nat /\ auth[a].nextAfter \in Nat /\ auth[a].due \in Nat
          /\ Interval \in Nat
      BY <2>1, <2>5, RefreshAssumption DEF OnTime, TypeOK, AuthRec
    <3>. QED
      BY <2>1, <2>3, <2>5, <3>1 DEF OnTime, Wanted, Elapse, NoTime
  <2>. QED
    BY <1>0, <1>3, <2>1, <2>4, <2>5 DEF Tick, OnTimeFor, Writing
<1>4. CASE UNCHANGED vars
  BY <1>0, <1>4 DEF vars, LookedAfter, Rescheduled, Forgotten, OnTimeFor, OnTime, Wanted, Writing
<1>. QED
  BY <1>1, <1>2, <1>3, <1>4, OnTimeLoop DEF Next, Procs

-----------------------------------------------------------------------------
(* The theorems.                                                            *)

LEMMA IInvInit == Init => IInv
<1>. SUFFICES ASSUME Init PROVE IInv
  OBVIOUS
<1>1. loopPc = "rebuild" /\ dirty = {} /\ hand = {} /\ queue = NoPlan /\ plan = NoPlan
  BY DEF Init
<1>2. \A p \in Procs : proc[p].pc = "idle"
  BY DEF Init, Idle
<1>3. ControlOK
  BY <1>1, <1>2 DEF ControlOK, NoPlan, Writing
<1>. QED
  BY <1>1, <1>3, TypeInit DEF IInv, NoLostWakeup, TimerCoversHeap, EveryPresentTracked,
     RemovalJustified, HeapOnTime, Starting, Writing

LEMMA IInvStep == IInv /\ [Next]_vars => IInv'
BY TypeStep, ControlStep, WakeupStep, TimerStep, TrackedStep, JustifiedStep, OnTimeStep DEF IInv

\* The inductive invariant of the refresh machinery, from which the others follow.
THEOREM Invariance == Spec => []IInv
BY IInvInit, IInvStep, PTL DEF Spec

\* Every reachable state is well typed: in particular no step of the loop reads
\* an auth it does not have in hand.
THEOREM TypeCorrect == Spec => []TypeOK
<1>1. IInv => TypeOK
  BY DEF IInv
<1>. QED
  BY <1>1, Invariance, PTL

\* queueReschedule's non-blocking send to wakeCh never loses a reschedule.
THEOREM WakeupsKept == Spec => []NoLostWakeup
<1>1. IInv => NoLostWakeup
  BY DEF IInv
<1>. QED
  BY <1>1, Invariance, PTL

\* Between heap, dirty set, jobs channel, workers and callers no auth that wants
\* refreshing is lost, however many of each there are.
THEOREM AuthsKept == Spec => []NoLostAuth
<1>1. IInv => NoLostAuth
  BY DEF IInv, EveryPresentTracked, NoLostAuth, Schedulable
<1>. QED
  BY <1>1, Invariance, PTL

\* The loop never sleeps past the check time of an auth in its heap.
THEOREM TimerCovers == Spec => []TimerCoversHeap
<1>1. IInv => TimerCoversHeap
  BY DEF IInv
<1>. QED
  BY <1>1, Invariance, PTL

\* While the loop sleeps, its timer fires no later than any auth wants to be looked
\* at, although every decision of the loop is made from what it read before.
THEOREM WakesWhenWanted == Spec => []WakesInTime
<1>1. ASSUME IInv, loopPc = "select", NEW a \in Auths, LookedAfter(a)
      PROVE  timer # NoTime /\ timer =< Wanted(a)
  <2>1. OnTime(queue[a], a)
    BY <1>1 DEF IInv, HeapOnTime, ControlOK
  <2>2. timer # NoTime /\ timer =< queue[a]
    BY <1>1, <2>1 DEF IInv, TimerCoversHeap, OnTime
  <2>3. timer \in Nat /\ queue[a] \in Nat /\ Wanted(a) \in Nat
    BY <1>1, <2>1, <2>2, RefreshAssumption DEF IInv, TypeOK, OnTime, Wanted, AuthRec
  <2>. QED
    BY <2>1, <2>2, <2>3 DEF OnTime
<1>2. IInv => WakesInTime
  BY <1>1 DEF WakesInTime
<1>. QED
  BY <1>2, Invariance, PTL

\* No refresh brings a removed auth back: when an absent auth becomes present,
\* it is a caller's registration that does it.
THEOREM RemovedStays == Spec => RemovedStaysRemoved
<1>. DEFINE Kept1 == \A a \in Auths : ~auth[a].present /\ auth'[a].present
                                        => \E c \in Clients : CommitStep(c)
<1>1. ASSUME IInv, [Next]_vars, NEW a \in Auths, ~auth[a].present, auth'[a].present
      PROVE  \E c \in Clients : CommitStep(c)
  <2>. USE DEF IInv
  <2>1. CASE LoopStep
    BY <1>1, <2>1 DEF LoopStep, RebuildRead, RebuildFill, Arm, SelectWake, SelectTimer,
       PopDue, MarkPending, MarkRefused, SendJob, WriteEntry, DueDone, DrainDirty,
       ApplyDone, ApplyDirty, DueNotYet, DueNow, TypeOK
  <2>2. ASSUME NEW w \in Workers, WorkerStep(w) PROVE FALSE
    BY <1>1, <2>2 DEF WorkerStep, FinishRefresh, TakeJob, StartRefresh, RefreshCanceled,
       RefreshFailed, RefreshSucceeded, MarkDirty, OfferWake, TypeOK
  <2>3. ASSUME NEW c \in Clients, ClientStep(c), ~CommitStep(c) PROVE FALSE
    BY <1>1, <2>3 DEF ClientStep, ReadAuth, Remove, Absent, Unschedule, MarkDirty,
       OfferWake, TypeOK
  <2>4. ASSUME NEW e \in Auths, NEW u \in BOOLEAN, MarkResult(e, u) PROVE FALSE
    BY <1>1, <2>4 DEF MarkResult, TypeOK, AuthRec
  <2>5. CASE Tick
    BY <1>1, <2>5 DEF Tick, Ticked, TypeOK, AuthRec
  <2>6. CASE UNCHANGED vars
    BY <1>1, <2>6 DEF vars
  <2>. QED
    BY <1>1, <2>1, <2>2, <2>3, <2>4, <2>5, <2>6 DEF Next
<1>2. IInv /\ [Next]_vars => [Kept1]_vars
  BY <1>1
<1>. QED
  BY <1>2, Invariance, PTL DEF Spec, RemovedStaysRemoved
==============================================================================
