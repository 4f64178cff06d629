----------------------------- MODULE KeeperProofs -----------------------------
(***************************************************************************)
(* Proofs about what is kept of the auths: about CooldownPersistence, for  *)
(* any auths, goroutines, stores and longest cooldown; about               *)
(* SchedulerShard, for any auths, providers, priorities, waits, cadence    *)
(* and knowledge of the quotas; and about ModelRegistry, for any clients,  *)
(* models, providers, reporters and lists.                                 *)
(***************************************************************************)
EXTENDS CooldownPersistence, SchedulerShard, ModelRegistry, FiniteSetTheorems,
        WellFoundedInduction, TLAPS

-----------------------------------------------------------------------------
(* Waits and time.                                                         *)

\* A value that a wait, or a record of one, can have.
Values == Waits \cup {Off, Gone}

LEMMA ValueFacts ==
    /\ Waits = {v \in Nat : v <= MaxCooldown + 1}
    /\ Waits \cup {NoRecord} \subseteq Values
    /\ Values \subseteq Int
    /\ NoRecord \notin Waits /\ Gone \notin Waits \cup {NoRecord} /\ 0 \in Waits
    /\ NoRecord = -1 /\ Off = -1 /\ Gone = -2
BY CooldownAssumption DEF Values, Waits, Forever, NoRecord, Off, Gone

\* The passing of a tick keeps what a value is, and the order of two waits.
LEMMA LapseFacts ==
    /\ \A v \in Waits : Lapse(v) \in Waits
    /\ \A v \in {Off, Gone, NoRecord} : Lapse(v) = v
    /\ \A v \in Values : Lapse(v) <= v /\ (Lapse(v) > 0 => v > 0)
    /\ \A v \in Values, w \in Waits : v <= w => Lapse(v) <= Lapse(w)
BY CooldownAssumption DEF Values, Waits, Forever, Lapse, Off, Gone, NoRecord

LEMMA AgedFacts ==
    ASSUME NEW snap \in Snapshots
    PROVE  /\ Aged(snap) \in Snapshots
           /\ \A a \in Auths : Aged(snap)[a] = Lapse(snap[a])
           /\ \A a \in Auths : Aged(snap)[a] = NoRecord <=> snap[a] = NoRecord
BY ValueFacts, LapseFacts DEF Aged, Snapshots

-----------------------------------------------------------------------------
(* Types.                                                                  *)

LEMMA RestingType == Empty \in Snapshots /\ Resting \in Thread
BY DEF Resting, Thread, Empty, Snapshots

\* What the helpers make of the threads: one thread changes, or none.
LEMMA ThreadTypes ==
    ASSUME CooldownTypeOK, NEW t \in Threads, NEW saves \in BOOLEAN
    PROVE  /\ Begin(t, saves) \in [Threads -> Thread]
           /\ Done(t) \in [Threads -> Thread]
           /\ Loading(t) \in [Threads -> Thread]
           /\ Entered(t) \in [Threads -> Thread]
           /\ Recorded(t) \in SUBSET Auths
<1>1. Begin(t, saves) \in [Threads -> Thread]
  BY DEF CooldownTypeOK, Begin, Thread
<1>2. Done(t) \in [Threads -> Thread]
  BY RestingType DEF CooldownTypeOK, Done
<1>3. Loading(t) \in [Threads -> Thread]
  <2>1. [Resting EXCEPT !.pc = "load", !.todo = Auths] \in Thread
    BY RestingType DEF Thread
  <2>. QED
    BY <2>1 DEF CooldownTypeOK, Loading
<1>4. Recorded(t) \in SUBSET Auths
  BY DEF Recorded
<1>5. Entered(t) \in [Threads -> Thread]
  <2>1. [thread[t] EXCEPT !.pc = "write", !.todo = Recorded(t), !.alone = Others(t) = {}] \in Thread
    BY <1>4 DEF CooldownTypeOK, Thread
  <2>2. ASSUME NEW u \in Threads
        PROVE  [thread[u] EXCEPT !.alone = @ /\ ~Saving(u)] \in Thread
    BY DEF CooldownTypeOK, Thread
  <2>. QED
    BY <2>1, <2>2 DEF Entered
<1>. QED
  BY <1>1, <1>2, <1>3, <1>4, <1>5

\* Every operation keeps the types.
LEMMA TypeStep ==
    ASSUME CooldownTypeOK, [CooldownNext]_cooldownVars PROVE CooldownTypeOK'
<1>. USE DEF CooldownTypeOK
<1>1. ASSUME NEW t \in Threads, NEW a \in Auths, MarkResult(t, a) PROVE CooldownTypeOK'
  <2>1. PICK v \in Waits :
          /\ aside' = [aside EXCEPT ![a] = v]
          /\ told' = [told EXCEPT ![a] = IF v > @ THEN v ELSE @]
          /\ thread' = Begin(t, store # NoStore /\ (v > 0 \/ aside[a] > 0))
    BY <1>1 DEF MarkResult
  <2>2. thread' \in [Threads -> Thread]
    BY <2>1, ThreadTypes
  <2>. QED
    BY <1>1, <2>1, <2>2 DEF MarkResult
<1>2. ASSUME NEW t \in Threads, NEW a \in Auths, ResetQuota(t, a) PROVE CooldownTypeOK'
  <2>1. thread' \in [Threads -> Thread]
    BY <1>2, ThreadTypes DEF ResetQuota
  <2>. QED
    BY <1>2, <2>1, ValueFacts DEF ResetQuota
<1>3. ASSUME NEW t \in Threads, NEW a \in Auths, Update(t, a) PROVE CooldownTypeOK'
  <2>1. thread' \in [Threads -> Thread]
    BY <1>3, ThreadTypes DEF Update
  <2>2. 0..told[a] \subseteq Waits
    BY CooldownAssumption, ValueFacts
  <2>. QED
    BY <1>3, <2>1, <2>2 DEF Update
<1>4. ASSUME NEW t \in Threads, NEW a \in Auths, Remove(t, a) PROVE CooldownTypeOK'
  <2>1. thread' \in [Threads -> Thread]
    BY <1>4, ThreadTypes DEF Remove
  <2>. QED
    BY <1>4, <2>1 DEF Remove
<1>5. ASSUME NEW t \in Threads, NEW a \in Auths, WriteFile(t, a) PROVE CooldownTypeOK'
  <2>1. thread' \in [Threads -> Thread]
    BY <1>5 DEF WriteFile, Thread
  <2>2. thread[t].hand \in Snapshots
    BY DEF Thread
  <2>. QED
    BY <1>5, <2>1, <2>2 DEF WriteFile, Snapshots
<1>6. ASSUME NEW t \in Threads, NEW a \in Auths, RemoveStale(t, a) PROVE CooldownTypeOK'
  <2>1. thread' \in [Threads -> Thread]
    BY <1>6 DEF RemoveStale, Thread
  <2>. QED
    BY <1>6, <2>1 DEF RemoveStale, Snapshots
<1>7. ASSUME NEW t \in Threads, NEW a \in Auths, LoadFile(t, a) PROVE CooldownTypeOK'
  <2>1. thread' \in [Threads -> Thread]
    BY <1>7 DEF LoadFile, Thread, Snapshots
  <2>. QED
    BY <1>7, <2>1 DEF LoadFile
<1>8. ASSUME NEW t \in Threads, Snapshot(t) PROVE CooldownTypeOK'
  <2>1. [a \in Auths |-> RecordOf(a)] \in Snapshots
    BY ValueFacts DEF RecordOf, Snapshots, Values
  <2>2. CASE store = NoStore
    BY <1>8, <2>2, ThreadTypes DEF Snapshot
  <2>3. CASE store # NoStore
    <3>1. thread' \in [Threads -> Thread]
      BY <1>8, <2>1, <2>3 DEF Snapshot, Thread
    <3>. QED
      BY <1>8, <3>1 DEF Snapshot
  <2>. QED
    BY <2>2, <2>3
<1>9. ASSUME NEW t \in Threads, Lock(t) PROVE CooldownTypeOK'
  BY <1>9, ThreadTypes DEF Lock
<1>10. ASSUME NEW t \in Threads, ListFiles(t) PROVE CooldownTypeOK'
  <2>1. thread' \in [Threads -> Thread]
    BY <1>10, ZenonT(40) DEF ListFiles, Thread
  <2>. QED
    BY <1>10, <2>1 DEF ListFiles
<1>11. ASSUME NEW t \in Threads, SaveFails(t) \/ Finish(t) PROVE CooldownTypeOK'
  BY <1>11, ThreadTypes DEF SaveFails, Finish
<1>12. ASSUME NEW t \in Threads, Start(t) PROVE CooldownTypeOK'
  BY <1>12, ThreadTypes, ValueFacts, ZenonT(40) DEF Start
<1>13. ASSUME NEW t \in Threads, NewConfig(t) PROVE CooldownTypeOK'
  BY <1>13, ThreadTypes DEF NewConfig
<1>14. ASSUME NEW t \in Threads, LoadFails(t) PROVE CooldownTypeOK'
  BY <1>14, ThreadTypes DEF LoadFails
<1>15. ASSUME NEW t \in Threads, RestoreAll(t) PROVE CooldownTypeOK'
  <2>1. [thread EXCEPT ![t] = [Resting EXCEPT !.pc = "snap"]] \in [Threads -> Thread]
    <3>1. [Resting EXCEPT !.pc = "snap"] \in Thread
      BY RestingType DEF Thread
    <3>. QED
      BY <3>1
  <2>2. thread[t].hand \in Snapshots
    BY DEF Thread
  <2>3. \A a \in Auths : Restored(a, thread[t].hand[a]) \in Waits \cup {Off, Gone}
    BY <2>2, ValueFacts DEF Restored, Snapshots
  <2>. QED
    BY <1>15, <2>1, <2>3, ThreadTypes DEF RestoreAll
<1>16. ASSUME Crash PROVE CooldownTypeOK'
  BY <1>16, RestingType DEF Crash
<1>17. ASSUME CooldownTick PROVE CooldownTypeOK'
  <2>1. ASSUME NEW t \in Threads PROVE [thread[t] EXCEPT !.hand = Aged(@)] \in Thread
    <3>1. thread[t] \in Thread /\ Aged(thread[t].hand) \in Snapshots
      BY AgedFacts DEF Thread
    <3>. QED
      BY <3>1 DEF Thread
  <2>2. thread' \in [Threads -> Thread]
    BY <1>17, <2>1 DEF CooldownTick
  <2>3. aside' \in [Auths -> Waits \cup {Off, Gone}] /\ told' \in [Auths -> Waits]
    BY <1>17, LapseFacts DEF CooldownTick
  <2>4. files' \in Snapshots
    BY <1>17, AgedFacts DEF CooldownTick
  <2>. QED
    BY <1>17, <2>2, <2>3, <2>4 DEF CooldownTick
<1>18. CASE UNCHANGED cooldownVars
  BY <1>18 DEF cooldownVars
<1>. QED
  BY <1>1, <1>2, <1>3, <1>4, <1>5, <1>6, <1>7, <1>8, <1>9, <1>10, <1>11, <1>12, <1>13,
     <1>14, <1>15, <1>16, <1>17, <1>18, Zenon DEF CooldownNext

-----------------------------------------------------------------------------
(* No cooldown is invented.                                                *)

\* What a step that is neither a tick nor a result must show: nobody waits
\* longer for it.
LEMMA InventsNothing ==
    ASSUME CooldownTypeOK, NoCooldownInvented, told' = told,
           \A a \in Auths : aside'[a] <= told[a],
           \A a \in Auths : files'[a] <= told[a],
           \A t \in Threads, a \in Auths : thread'[t].hand[a] <= told[a]
    PROVE  NoCooldownInvented'
BY DEF NoCooldownInvented

LEMMA RestingHands ==
    ASSUME CooldownTypeOK, NEW a \in Auths PROVE Resting.hand[a] <= told[a]
BY ValueFacts DEF CooldownTypeOK, Resting, Empty

LEMMA InventedStep ==
    ASSUME CooldownTypeOK, NoCooldownInvented, [CooldownNext]_cooldownVars
    PROVE  NoCooldownInvented'
<1>. USE DEF NoCooldownInvented
<1>a. \A a \in Auths : told[a] \in Waits /\ told[a] \in Nat
  BY ValueFacts DEF CooldownTypeOK
<1>b. \A t \in Threads : thread[t] \in Thread /\ thread[t].hand \in Snapshots
  BY DEF CooldownTypeOK, Thread
\* Of the threads that change, one keeps its snapshot or drops it.
<1>c. ASSUME NEW t \in Threads, NEW saves \in BOOLEAN, NEW u \in Threads, NEW a \in Auths
      PROVE  /\ Begin(t, saves)[u].hand[a] <= told[a]
             /\ Done(t)[u].hand[a] <= told[a]
             /\ Loading(t)[u].hand[a] <= told[a]
             /\ Entered(t)[u].hand[a] <= told[a]
  <2>1. Begin(t, saves)[u].hand = thread[u].hand
    BY <1>b DEF CooldownTypeOK, Begin, Thread
  <2>2. Done(t)[u].hand \in {thread[u].hand, Resting.hand}
    BY DEF CooldownTypeOK, Done
  <2>3. Loading(t)[u].hand \in {thread[u].hand, Resting.hand}
    <3>1. [Resting EXCEPT !.pc = "load", !.todo = Auths].hand = Resting.hand
      BY DEF Resting
    <3>. QED
      BY <3>1 DEF CooldownTypeOK, Loading
  <2>4. Entered(t)[u].hand = thread[u].hand
    BY <1>b DEF Entered, Thread
  <2>. QED
    BY <2>1, <2>2, <2>3, <2>4, RestingHands
<1>1. ASSUME NEW t \in Threads, NEW b \in Auths, MarkResult(t, b) PROVE NoCooldownInvented'
  <2>1. PICK v \in Waits :
          /\ aside' = [aside EXCEPT ![b] = v]
          /\ told' = [told EXCEPT ![b] = IF v > @ THEN v ELSE @]
          /\ thread' = Begin(t, store # NoStore /\ (v > 0 \/ aside[b] > 0))
    BY <1>1 DEF MarkResult
  <2>2. files' = files /\ v \in Nat
    BY <1>1, ValueFacts DEF MarkResult
  <2>3. \A a \in Auths : told'[a] \in Nat /\ told[a] <= told'[a] /\ (a = b => v <= told'[a])
    BY <2>1, <2>2, <1>a DEF CooldownTypeOK
  <2>4. \A a \in Auths : aside'[a] <= told'[a]
    BY <2>1, <2>3, <1>a, ValueFacts DEF CooldownTypeOK
  <2>5. \A a \in Auths : files'[a] <= told'[a]
    BY <2>2, <2>3, <1>a, ValueFacts DEF CooldownTypeOK, Snapshots
  <2>6. ASSUME NEW u \in Threads, NEW a \in Auths PROVE thread'[u].hand[a] <= told'[a]
    <3>1. thread'[u].hand = thread[u].hand
      BY <2>1, <1>b DEF CooldownTypeOK, Begin, Thread
    <3>2. thread[u].hand[a] \in Int /\ thread[u].hand[a] <= told[a]
      BY <1>b, ValueFacts DEF Snapshots
    <3>. QED
      BY <3>1, <3>2, <2>3, <1>a
  <2>. QED
    BY <2>4, <2>5, <2>6
<1>2. ASSUME NEW t \in Threads, NEW b \in Auths, ResetQuota(t, b) PROVE NoCooldownInvented'
  <2>1. \A a \in Auths : aside'[a] <= told[a]
    BY <1>2, <1>a DEF ResetQuota, CooldownTypeOK
  <2>2. \E persisted \in BOOLEAN : thread' = Begin(t, persisted)
    <3>1. PICK persisted \in BOOLEAN :
            thread' = Begin(t, persisted /\ store # NoStore /\ aside[b] > 0)
      BY <1>2 DEF ResetQuota
    <3>. QED
      BY <3>1
  <2>. QED
    BY <1>2, <2>1, <2>2, <1>c, InventsNothing DEF ResetQuota
<1>3. ASSUME NEW t \in Threads, NEW b \in Auths, Update(t, b) PROVE NoCooldownInvented'
  <2>1. PICK v \in 0..told[b] \cup {Off}, cleared \in BOOLEAN :
          aside' = [aside EXCEPT ![b] = v] /\ thread' = Begin(t, v = Off /\ cleared)
    BY <1>3 DEF Update
  <2>2. \A a \in Auths : aside'[a] <= told[a]
    BY <2>1, <1>a, ValueFacts DEF CooldownTypeOK
  <2>3. \A u \in Threads, a \in Auths : thread'[u].hand[a] <= told[a]
    BY <2>1, <1>c
  <2>. QED
    BY <1>3, <2>2, <2>3, InventsNothing DEF Update
<1>4. ASSUME NEW t \in Threads, NEW b \in Auths, Remove(t, b) PROVE NoCooldownInvented'
  <2>1. \A a \in Auths : aside'[a] <= told[a]
    BY <1>4, <1>a, ValueFacts DEF Remove, CooldownTypeOK
  <2>. QED
    BY <1>4, <2>1, <1>c, InventsNothing DEF Remove
<1>5. ASSUME NEW t \in Threads, NEW b \in Auths, WriteFile(t, b) PROVE NoCooldownInvented'
  <2>1. \A a \in Auths : files'[a] <= told[a]
    BY <1>5 DEF WriteFile, CooldownTypeOK, Snapshots
  <2>2. \A u \in Threads : thread'[u].hand = thread[u].hand
    BY <1>5, <1>b DEF WriteFile, CooldownTypeOK, Thread
  <2>. QED
    BY <1>5, <2>1, <2>2, InventsNothing DEF WriteFile
<1>6. ASSUME NEW t \in Threads, NEW b \in Auths, RemoveStale(t, b) PROVE NoCooldownInvented'
  <2>1. \A a \in Auths : files'[a] <= told[a]
    BY <1>6, <1>a, ValueFacts DEF RemoveStale, CooldownTypeOK, Snapshots
  <2>2. \A u \in Threads : thread'[u].hand = thread[u].hand
    BY <1>6, <1>b DEF RemoveStale, CooldownTypeOK, Thread
  <2>. QED
    BY <1>6, <2>1, <2>2, InventsNothing DEF RemoveStale
<1>7. ASSUME NEW t \in Threads, NEW b \in Auths, LoadFile(t, b) PROVE NoCooldownInvented'
  <2>1. ASSUME NEW u \in Threads, NEW a \in Auths PROVE thread'[u].hand[a] <= told[a]
    <3>1. thread'[u].hand[a] \in {thread[u].hand[a], files[a]}
      BY <1>7, <1>b DEF LoadFile, CooldownTypeOK, Thread, Snapshots
    <3>. QED
      BY <3>1
  <2>. QED
    BY <1>7, <2>1, InventsNothing DEF LoadFile
<1>8. ASSUME NEW t \in Threads, Snapshot(t) PROVE NoCooldownInvented'
  <2>1. ASSUME NEW u \in Threads, NEW a \in Auths PROVE thread'[u].hand[a] <= told[a]
    <3>1. CASE store = NoStore
      BY <1>8, <3>1, <1>c DEF Snapshot
    <3>2. CASE store # NoStore
      <4>1. thread'[u].hand[a] \in {thread[u].hand[a], RecordOf(a)}
        BY <1>8, <3>2 DEF Snapshot, CooldownTypeOK
      <4>2. RecordOf(a) <= told[a]
        BY <1>a, ValueFacts DEF RecordOf
      <4>. QED
        BY <4>1, <4>2
    <3>. QED
      BY <3>1, <3>2
  <2>. QED
    BY <1>8, <2>1, InventsNothing DEF Snapshot
<1>9. ASSUME NEW t \in Threads, Lock(t) PROVE NoCooldownInvented'
  BY <1>9, <1>c, InventsNothing DEF Lock
<1>10. ASSUME NEW t \in Threads, ListFiles(t) PROVE NoCooldownInvented'
  <2>1. \A u \in Threads : thread'[u].hand = thread[u].hand
    BY <1>10, <1>b DEF ListFiles, CooldownTypeOK, Thread
  <2>. QED
    BY <1>10, <2>1, InventsNothing DEF ListFiles
<1>11. ASSUME NEW t \in Threads, SaveFails(t) \/ Finish(t) PROVE NoCooldownInvented'
  BY <1>11, <1>c, InventsNothing DEF SaveFails, Finish
<1>12. ASSUME NEW t \in Threads, Start(t) PROVE NoCooldownInvented'
  <2>1. \A a \in Auths : aside'[a] <= told[a]
    BY <1>12, <1>a, ValueFacts DEF Start
  <2>2. thread' = thread \/ thread' = Loading(t)
    BY <1>12 DEF Start
  <2>3. \A u \in Threads, a \in Auths : thread'[u].hand[a] <= told[a]
    BY <2>2, <1>c
  <2>. QED
    BY <1>12, <2>1, <2>3, InventsNothing DEF Start
<1>13. ASSUME NEW t \in Threads, NewConfig(t) PROVE NoCooldownInvented'
  <2>1. \A u \in Threads, a \in Auths : thread'[u].hand[a] <= told[a]
    BY <1>13, <1>c DEF NewConfig
  <2>. QED
    BY <1>13, <2>1, InventsNothing DEF NewConfig
<1>14. ASSUME NEW t \in Threads, LoadFails(t) PROVE NoCooldownInvented'
  BY <1>14, <1>c, InventsNothing DEF LoadFails
<1>15. ASSUME NEW t \in Threads, RestoreAll(t) PROVE NoCooldownInvented'
  <2>1. \A a \in Auths : aside'[a] <= told[a]
    BY <1>15 DEF RestoreAll, Restored
  <2>2. ASSUME NEW u \in Threads, NEW a \in Auths PROVE thread'[u].hand[a] <= told[a]
    <3>1. CASE Recorded(t) = {}
      BY <1>15, <3>1, <1>c DEF RestoreAll
    <3>2. CASE Recorded(t) # {}
      <4>1. [Resting EXCEPT !.pc = "snap"].hand = Resting.hand
        BY DEF Resting
      <4>2. thread'[u].hand \in {thread[u].hand, Resting.hand}
        BY <1>15, <3>2, <4>1 DEF RestoreAll, CooldownTypeOK
      <4>. QED
        BY <4>2, RestingHands
    <3>. QED
      BY <3>1, <3>2
  <2>. QED
    BY <1>15, <2>1, <2>2, InventsNothing DEF RestoreAll
<1>16. ASSUME Crash PROVE NoCooldownInvented'
  <2>1. \A a \in Auths : aside'[a] <= told[a]
    BY <1>16, <1>a, ValueFacts DEF Crash
  <2>2. \A u \in Threads, a \in Auths : thread'[u].hand[a] <= told[a]
    BY <1>16, RestingHands DEF Crash
  <2>. QED
    BY <1>16, <2>1, <2>2, InventsNothing DEF Crash
<1>17. ASSUME CooldownTick PROVE NoCooldownInvented'
  <2>1. \A a \in Auths : aside[a] \in Values /\ files[a] \in Values
    BY ValueFacts DEF CooldownTypeOK, Snapshots, Values
  <2>2. \A a \in Auths : aside'[a] <= told'[a] /\ files'[a] <= told'[a]
    BY <1>17, <2>1, <1>a, LapseFacts DEF CooldownTick, Aged
  <2>3. ASSUME NEW u \in Threads, NEW a \in Auths PROVE thread'[u].hand[a] <= told'[a]
    <3>1. thread[u].hand[a] \in Values
      BY <1>b, ValueFacts DEF Snapshots, Values
    <3>2. thread'[u].hand = Aged(thread[u].hand)
      BY <1>17, <1>b DEF CooldownTick, Thread
    <3>. QED
      BY <1>17, <3>1, <3>2, <1>a, LapseFacts DEF CooldownTick, Aged
  <2>. QED
    BY <2>2, <2>3
<1>18. CASE UNCHANGED cooldownVars
  BY <1>18 DEF cooldownVars
<1>. QED
  BY <1>1, <1>2, <1>3, <1>4, <1>5, <1>6, <1>7, <1>8, <1>9, <1>10, <1>11, <1>12, <1>13,
     <1>14, <1>15, <1>16, <1>17, <1>18, Zenon DEF CooldownNext

-----------------------------------------------------------------------------
(* What saves do to the directory.                                         *)

SavesAreRight == SavedSoFar /\ CleansStale

\* A step that begins no save and leaves those under way, and the directory, as
\* they are keeps what is known of them.
LEMMA SavesUntouched ==
    ASSUME CooldownTypeOK, SavesAreRight, files' = files,
           \A u \in Threads : thread'[u].pc \in {"write", "clean"} => thread'[u] = thread[u]
    PROVE  SavesAreRight'
<1>1. \A u \in Threads : Saving(u)' => Saving(u) /\ thread'[u] = thread[u]
  BY DEF Saving
<1>2. \A u \in Threads : Saving(u)' => Recorded(u)' = Recorded(u)
  BY <1>1 DEF Recorded
<1>3. \A u \in Threads : Others(u)' \subseteq Others(u)
  BY <1>1 DEF Others
<1>4. SavedSoFar'
  BY <1>1, <1>2, <1>3 DEF SavesAreRight, SavedSoFar
<1>5. CleansStale'
  BY <1>1, <1>2 DEF SavesAreRight, CleansStale, Saving
<1>. QED
  BY <1>4, <1>5 DEF SavesAreRight

LEMMA SavesStep ==
    ASSUME CooldownTypeOK, SavesAreRight, [CooldownNext]_cooldownVars
    PROVE  SavesAreRight'
<1>a. \A t \in Threads : thread[t] \in Thread /\ thread[t].hand \in Snapshots
  BY DEF CooldownTypeOK, Thread
<1>b. \A t \in Threads : Resting.pc \notin {"write", "clean"}
  BY DEF Resting
<1>c. ASSUME NEW t \in Threads, NEW saves \in BOOLEAN, NEW u \in Threads
      PROVE  /\ Begin(t, saves)[u].pc \in {"write", "clean"} => Begin(t, saves)[u] = thread[u]
             /\ Done(t)[u].pc \in {"write", "clean"} => Done(t)[u] = thread[u]
             /\ Loading(t)[u].pc \in {"write", "clean"} => Loading(t)[u] = thread[u]
  <2>1. Begin(t, saves)[u].pc \in {"write", "clean"} => Begin(t, saves)[u] = thread[u]
    BY <1>a DEF CooldownTypeOK, Begin, Thread
  <2>2. Done(t)[u].pc \in {"write", "clean"} => Done(t)[u] = thread[u]
    BY <1>b DEF CooldownTypeOK, Done
  <2>3. Loading(t)[u].pc \in {"write", "clean"} => Loading(t)[u] = thread[u]
    <3>1. [Resting EXCEPT !.pc = "load", !.todo = Auths].pc = "load"
      BY DEF Resting
    <3>. QED
      BY <3>1 DEF CooldownTypeOK, Loading
  <2>. QED
    BY <2>1, <2>2, <2>3
<1>1. ASSUME NEW t \in Threads, NEW a \in Auths,
             MarkResult(t, a) \/ ResetQuota(t, a) \/ Update(t, a) \/ Remove(t, a)
      PROVE  SavesAreRight'
  <2>1. PICK saves \in BOOLEAN : thread' = Begin(t, saves)
    <3>1. CASE MarkResult(t, a)
      BY <3>1 DEF MarkResult
    <3>2. CASE ResetQuota(t, a)
      BY <3>2 DEF ResetQuota
    <3>3. CASE Update(t, a)
      BY <3>3 DEF Update
    <3>4. CASE Remove(t, a)
      BY <3>4 DEF Remove
    <3>. QED
      BY <1>1, <3>1, <3>2, <3>3, <3>4
  <2>2. files' = files
    BY <1>1 DEF MarkResult, ResetQuota, Update, Remove
  <2>. QED
    BY <2>1, <2>2, <1>c, SavesUntouched
<1>2. ASSUME NEW t \in Threads, NEW b \in Auths, WriteFile(t, b) PROVE SavesAreRight'
  <2>1. \A u \in Threads : /\ thread'[u].pc = thread[u].pc /\ thread'[u].hand = thread[u].hand
                           /\ thread'[u].alone = thread[u].alone
                           /\ u # t => thread'[u] = thread[u]
    BY <1>2, <1>a DEF WriteFile, CooldownTypeOK, Thread
  <2>2. thread'[t].todo = thread[t].todo \ {b} /\ thread[t].pc = "write"
    BY <1>2, <1>a DEF WriteFile, CooldownTypeOK, Thread
  <2>3. \A u \in Threads : /\ Saving(u)' <=> Saving(u)
                           /\ Recorded(u)' = Recorded(u)
                           /\ Others(u)' = Others(u)
    BY <2>1 DEF Saving, Recorded, Others
  <2>4. \A u \in Threads \ {t} : t \in Others(u)
    BY <2>2 DEF Others, Saving
  <2>5. /\ files'[b] = thread[t].hand[b]
        /\ \A a \in Auths \ {b} : files'[a] = files[a]
    BY <1>2 DEF WriteFile, CooldownTypeOK, Snapshots
  <2>6. SavedSoFar'
    BY <2>1, <2>2, <2>3, <2>4, <2>5 DEF SavedSoFar, SavesAreRight, Recorded
  <2>7. CleansStale'
    BY <2>1, <2>2, <2>3 DEF CleansStale, SavesAreRight
  <2>. QED
    BY <2>6, <2>7 DEF SavesAreRight
<1>3. ASSUME NEW t \in Threads, NEW b \in Auths, RemoveStale(t, b) PROVE SavesAreRight'
  <2>1. \A u \in Threads : /\ thread'[u].pc = thread[u].pc /\ thread'[u].hand = thread[u].hand
                           /\ thread'[u].alone = thread[u].alone
                           /\ u # t => thread'[u] = thread[u]
    BY <1>3, <1>a DEF RemoveStale, CooldownTypeOK, Thread
  <2>2. /\ thread'[t].todo = thread[t].todo \ {b}
        /\ thread[t].pc = "clean" /\ b \in thread[t].todo
    BY <1>3, <1>a DEF RemoveStale, CooldownTypeOK, Thread
  <2>3. \A u \in Threads : /\ Saving(u)' <=> Saving(u)
                           /\ Recorded(u)' = Recorded(u)
                           /\ Others(u)' = Others(u)
    BY <2>1 DEF Saving, Recorded, Others
  <2>4. \A u \in Threads \ {t} : t \in Others(u)
    BY <2>2 DEF Others, Saving
  <2>5. /\ files'[b] = NoRecord
        /\ \A a \in Auths \ {b} : files'[a] = files[a]
    BY <1>3 DEF RemoveStale, CooldownTypeOK, Snapshots
  <2>6. b \notin Recorded(t)
    BY <2>2 DEF SavesAreRight, CleansStale
  <2>7. SavedSoFar'
    <3>1. \A u \in Threads \ {t} : ~(Saving(u) /\ thread[u].alone)
      BY <2>4 DEF SavedSoFar, SavesAreRight
    <3>2. thread[t].alone => Others(t) = {} /\ \A a \in Recorded(t) : files'[a] = thread[t].hand[a]
      BY <2>2, <2>5, <2>6 DEF SavedSoFar, SavesAreRight, Saving, Recorded
    <3>3. thread[t].alone => \A a \in Auths \ Recorded(t) :
                               a \notin thread'[t].todo => files'[a] = NoRecord
      BY <2>2, <2>5 DEF SavedSoFar, SavesAreRight, Saving
    <3>. QED
      BY <2>1, <2>3, <3>1, <3>2, <3>3 DEF SavedSoFar
  <2>8. CleansStale'
    BY <2>1, <2>2, <2>3 DEF CleansStale, SavesAreRight
  <2>. QED
    BY <2>7, <2>8 DEF SavesAreRight
<1>4. ASSUME NEW t \in Threads, NEW b \in Auths, LoadFile(t, b) PROVE SavesAreRight'
  <2>1. \A u \in Threads : thread'[u].pc \in {"write", "clean"} => thread'[u] = thread[u]
    BY <1>4, <1>a DEF LoadFile, CooldownTypeOK, Thread
  <2>. QED
    BY <1>4, <2>1, SavesUntouched DEF LoadFile
<1>5. ASSUME NEW t \in Threads, Snapshot(t) PROVE SavesAreRight'
  <2>1. ASSUME NEW u \in Threads, thread'[u].pc \in {"write", "clean"}
        PROVE  thread'[u] = thread[u]
    <3>1. CASE store = NoStore
      BY <1>5, <2>1, <3>1, <1>c DEF Snapshot
    <3>2. CASE store # NoStore
      BY <1>5, <2>1, <3>2 DEF Snapshot, CooldownTypeOK
    <3>. QED
      BY <3>1, <3>2
  <2>. QED
    BY <1>5, <2>1, SavesUntouched DEF Snapshot
<1>6. ASSUME NEW t \in Threads, Lock(t) PROVE SavesAreRight'
  <2>1. \A u \in Threads \ {t} :
          /\ thread'[u].pc = thread[u].pc /\ thread'[u].hand = thread[u].hand
          /\ thread'[u].todo = thread[u].todo
          /\ thread'[u].alone <=> thread[u].alone /\ ~Saving(u)
    BY <1>6, <1>a DEF Lock, Entered, CooldownTypeOK, Thread
  <2>2. /\ thread'[t].pc = "write" /\ thread'[t].todo = Recorded(t)
        /\ thread'[t].hand = thread[t].hand
        /\ thread'[t].alone <=> Others(t) = {}
    BY <1>6, <1>a DEF Lock, Entered, CooldownTypeOK, Thread
  <2>3. \A u \in Threads : Recorded(u)' = Recorded(u)
    BY <2>1, <2>2 DEF Recorded
  <2>4. \A u \in Threads \ {t} : Saving(u)' <=> Saving(u)
    BY <2>1 DEF Saving
  <2>5. Others(t)' = Others(t)
    BY <2>4 DEF Others
  <2>6. SavedSoFar'
    <3>1. \A u \in Threads \ {t} : ~(Saving(u)' /\ thread'[u].alone)
      BY <2>1, <2>4
    <3>. QED
      BY <2>2, <2>3, <2>5, <3>1 DEF SavedSoFar
  <2>7. CleansStale'
    BY <2>1, <2>2, <2>3 DEF CleansStale, SavesAreRight
  <2>. QED
    BY <2>6, <2>7 DEF SavesAreRight
<1>7. ASSUME NEW t \in Threads, ListFiles(t) PROVE SavesAreRight'
  <2>1. \A u \in Threads \ {t} : thread'[u] = thread[u]
    BY <1>7 DEF ListFiles, CooldownTypeOK
  <2>2. /\ thread'[t].pc = "clean" /\ thread'[t].hand = thread[t].hand
        /\ thread'[t].alone = thread[t].alone
        /\ thread'[t].todo = {a \in Auths : files[a] # NoRecord} \ Recorded(t)
        /\ thread[t].pc = "write" /\ thread[t].todo = {} /\ files' = files
    BY <1>7, <1>a DEF ListFiles, CooldownTypeOK, Thread
  <2>3. \A u \in Threads : /\ Saving(u)' <=> Saving(u)
                           /\ Recorded(u)' = Recorded(u)
                           /\ Others(u)' = Others(u)
    BY <2>1, <2>2 DEF Saving, Recorded, Others
  <2>4. SavedSoFar'
    BY <2>1, <2>2, <2>3 DEF SavedSoFar, SavesAreRight
  <2>5. CleansStale'
    BY <2>1, <2>2, <2>3 DEF CleansStale, SavesAreRight
  <2>. QED
    BY <2>4, <2>5 DEF SavesAreRight
<1>8. ASSUME NEW t \in Threads, SaveFails(t) \/ Finish(t) \/ LoadFails(t) PROVE SavesAreRight'
  BY <1>8, <1>c, SavesUntouched DEF SaveFails, Finish, LoadFails
<1>9. ASSUME NEW t \in Threads, Start(t) \/ NewConfig(t) PROVE SavesAreRight'
  <2>1. thread' = thread \/ thread' = Loading(t)
    BY <1>9 DEF Start, NewConfig
  <2>. QED
    BY <1>9, <2>1, <1>c, SavesUntouched DEF Start, NewConfig
<1>10. ASSUME NEW t \in Threads, RestoreAll(t) PROVE SavesAreRight'
  <2>1. ASSUME NEW u \in Threads, thread'[u].pc \in {"write", "clean"}
        PROVE  thread'[u] = thread[u]
    <3>1. CASE Recorded(t) = {}
      BY <1>10, <2>1, <3>1, <1>c DEF RestoreAll
    <3>2. CASE Recorded(t) # {}
      <4>1. [Resting EXCEPT !.pc = "snap"].pc = "snap"
        BY DEF Resting
      <4>. QED
        BY <1>10, <2>1, <3>2, <4>1 DEF RestoreAll, CooldownTypeOK
    <3>. QED
      BY <3>1, <3>2
  <2>. QED
    BY <1>10, <2>1, SavesUntouched DEF RestoreAll
<1>11. ASSUME Crash PROVE SavesAreRight'
  BY <1>11, <1>b, SavesUntouched DEF Crash
<1>12. ASSUME CooldownTick PROVE SavesAreRight'
  <2>1. \A u \in Threads : /\ thread'[u].pc = thread[u].pc /\ thread'[u].todo = thread[u].todo
                           /\ thread'[u].alone = thread[u].alone
                           /\ thread'[u].hand = Aged(thread[u].hand)
    BY <1>12, <1>a DEF CooldownTick, Thread
  <2>2. \A u \in Threads : Saving(u)' <=> Saving(u)
    BY <2>1 DEF Saving
  <2>3. \A u \in Threads : Recorded(u)' = Recorded(u)
    BY <2>1, <1>a, AgedFacts DEF Recorded
  <2>4. \A u \in Threads : Others(u)' = Others(u)
    BY <2>2 DEF Others
  <2>5. \A a \in Auths : files'[a] = Lapse(files[a]) /\ (files[a] = NoRecord => files'[a] = NoRecord)
    BY <1>12, AgedFacts, LapseFacts DEF CooldownTick, CooldownTypeOK
  <2>6. \A u \in Threads, a \in Auths : thread'[u].hand[a] = Lapse(thread[u].hand[a])
    BY <2>1, <1>a, AgedFacts
  <2>7. SavedSoFar'
    BY <2>1, <2>2, <2>3, <2>4, <2>5, <2>6 DEF SavedSoFar, SavesAreRight, Recorded
  <2>8. CleansStale'
    BY <2>1, <2>3 DEF CleansStale, SavesAreRight
  <2>. QED
    BY <2>7, <2>8 DEF SavesAreRight
<1>13. CASE UNCHANGED cooldownVars
  BY <1>13, SavesUntouched DEF cooldownVars
<1>. QED
  BY <1>1, <1>2, <1>3, <1>4, <1>5, <1>6, <1>7, <1>8, <1>9, <1>10, <1>11, <1>12, <1>13,
     Zenon DEF CooldownNext

-----------------------------------------------------------------------------
(* The start.                                                              *)

LEMMA QuietStep ==
    ASSUME CooldownTypeOK, StartIsQuiet, [CooldownNext]_cooldownVars
    PROVE  StartIsQuiet'
<1>. USE DEF StartIsQuiet
<1>a. \A t \in Threads : thread[t] \in Thread /\ thread[t].hand \in Snapshots
  BY DEF CooldownTypeOK, Thread
<1>b. ASSUME NEW t \in Threads, NEW a \in Auths PROVE
             MarkResult(t, a) \/ ResetQuota(t, a) \/ Update(t, a) \/ Remove(t, a)
             => phase' = "up"
  BY DEF MarkResult, ResetQuota, Update, Remove, Idle
<1>c. ASSUME NEW t \in Threads PROVE
             Snapshot(t) \/ NewConfig(t) \/ LoadFails(t) \/ RestoreAll(t) => phase' = "up"
  BY DEF Snapshot, NewConfig, Idle, LoadFails, RestoreAll
<1>1. ASSUME NEW t \in Threads, NEW a \in Auths, WriteFile(t, a) \/ RemoveStale(t, a)
      PROVE  StartIsQuiet'
  BY <1>1 DEF WriteFile, RemoveStale
<1>2. ASSUME NEW t \in Threads, Lock(t) \/ ListFiles(t) \/ SaveFails(t) \/ Finish(t)
      PROVE  StartIsQuiet'
  BY <1>2 DEF Lock, ListFiles, SaveFails, Finish, Saving
<1>3. ASSUME NEW t \in Threads, NEW b \in Auths, LoadFile(t, b) PROVE StartIsQuiet'
  <2>1. \A u \in Threads \ {t} : thread'[u] = thread[u]
    BY <1>3 DEF LoadFile, CooldownTypeOK
  <2>2. /\ thread'[t].pc = "load" /\ thread'[t].todo = thread[t].todo \ {b}
        /\ thread'[t].hand = [thread[t].hand EXCEPT ![b] = files[b]]
    BY <1>3, <1>a DEF LoadFile, CooldownTypeOK, Thread
  <2>3. /\ thread'[t].hand[b] = files[b]
        /\ \A a \in Auths \ {b} : thread'[t].hand[a] = thread[t].hand[a]
    BY <2>2, <1>a DEF Snapshots
  <2>4. thread[t].pc = "load"
    BY <1>3 DEF LoadFile
  <2>5. ASSUME phase # "up" PROVE \A a \in Auths \ thread'[t].todo : thread'[t].hand[a] = files[a]
    BY <2>2, <2>3, <2>4, <2>5
  <2>6. files' = files /\ phase' = phase
    BY <1>3 DEF LoadFile
  <2>7. ASSUME phase' # "up", NEW u \in Threads
        PROVE  /\ thread'[u].pc \in {"idle", "load"}
               /\ \A a \in Auths \ thread'[u].todo :
                     thread'[u].pc = "load" => thread'[u].hand[a] = files'[a]
    <3>1. CASE u = t
      BY <2>2, <2>5, <2>6, <2>7, <3>1
    <3>2. CASE u # t
      <4>1. thread'[u] = thread[u] /\ phase # "up"
        BY <2>1, <2>6, <2>7, <3>2
      <4>. QED
        BY <2>6, <4>1
    <3>. QED
      BY <3>1, <3>2
  <2>. QED
    BY <2>7
<1>4. ASSUME NEW t \in Threads, Start(t) PROVE StartIsQuiet'
  <2>1. CASE thread' = thread
    BY <1>4, <2>1 DEF Start
  <2>2. CASE thread' = Loading(t)
    <3>1. /\ [Resting EXCEPT !.pc = "load", !.todo = Auths].pc = "load"
          /\ [Resting EXCEPT !.pc = "load", !.todo = Auths].todo = Auths
      BY DEF Resting
    <3>2. thread'[t].pc = "load" /\ thread'[t].todo = Auths
      BY <2>2, <3>1 DEF Loading, CooldownTypeOK
    <3>3. \A u \in Threads \ {t} : thread'[u] = thread[u]
      BY <2>2 DEF Loading, CooldownTypeOK
    <3>4. phase = "down" /\ files' = files
      BY <1>4 DEF Start
    <3>. QED
      BY <3>2, <3>3, <3>4
  <2>. QED
    BY <1>4, <2>1, <2>2 DEF Start
<1>5. ASSUME Crash PROVE StartIsQuiet'
  BY <1>5 DEF Crash, Resting
<1>6. ASSUME CooldownTick PROVE StartIsQuiet'
  <2>1. \A u \in Threads : /\ thread'[u].pc = thread[u].pc /\ thread'[u].todo = thread[u].todo
                           /\ thread'[u].hand = Aged(thread[u].hand)
    BY <1>6, <1>a DEF CooldownTick, Thread
  <2>2. \A a \in Auths : files'[a] = Lapse(files[a])
    BY <1>6, AgedFacts DEF CooldownTick, CooldownTypeOK
  <2>3. \A u \in Threads, a \in Auths : thread'[u].hand[a] = Lapse(thread[u].hand[a])
    BY <2>1, <1>a, AgedFacts
  <2>4. ASSUME phase # "up", NEW u \in Threads, NEW a \in Auths \ thread'[u].todo
        PROVE  thread'[u].pc = "load" => thread'[u].hand[a] = files'[a]
    BY <2>1, <2>2, <2>3, <2>4
  <2>. QED
    BY <1>6, <2>1, <2>4 DEF CooldownTick
<1>7. CASE UNCHANGED cooldownVars
  BY <1>7 DEF cooldownVars
<1>. QED
  BY <1>b, <1>c, <1>1, <1>2, <1>3, <1>4, <1>5, <1>6, <1>7, Zenon DEF CooldownNext

-----------------------------------------------------------------------------
(* The invariant.                                                          *)

\* Whatever the processes do, the state is typed, nobody waits longer than told,
\* a save that is alone has left in the directory what it has done so far, only
\* files that are not in the snapshot are up for removal, and nobody saves while
\* the process starts.
THEOREM CooldownInvariance == CooldownSpec => []CooldownInv
<1>1. CooldownInit => CooldownInv
  <2>. SUFFICES ASSUME CooldownInit PROVE CooldownInv
    OBVIOUS
  <2>. USE DEF CooldownInit
  <2>1. CooldownTypeOK
    BY RestingType, ValueFacts DEF CooldownTypeOK
  <2>2. NoCooldownInvented
    <3>1. ASSUME NEW a \in Auths PROVE aside[a] <= told[a] /\ files[a] <= told[a]
      <4>1. aside[a] = Gone /\ told[a] = 0 /\ files[a] = NoRecord
        BY DEF Empty
      <4>. QED
        BY <4>1, ValueFacts
    <3>2. \A t \in Threads, a \in Auths : thread[t].hand[a] <= told[a]
      BY <2>1, RestingHands
    <3>. QED
      BY <3>1, <3>2 DEF NoCooldownInvented
  <2>3. \A t \in Threads : thread[t].pc = "idle"
    BY DEF Resting
  <2>. QED
    BY <2>1, <2>2, <2>3 DEF CooldownInv, SavedSoFar, CleansStale, StartIsQuiet, Saving
<1>2. CooldownInv /\ [CooldownNext]_cooldownVars => CooldownInv'
  BY TypeStep, InventedStep, SavesStep, QuietStep DEF CooldownInv, SavesAreRight
<1>. QED
  BY <1>1, <1>2, PTL DEF CooldownSpec

\* No sequence of saves, crashes, restarts and new configurations makes an auth
\* wait longer than a result once told it to (MarkResult and what persistCooldown-
\* States and RestoreCooldownStates make of it).
THEOREM NoneIsInvented == CooldownSpec => []NoCooldownInvented
<1>1. CooldownInv => NoCooldownInvented
  BY DEF CooldownInv
<1>. QED
  BY <1>1, CooldownInvariance, PTL

-----------------------------------------------------------------------------
(* The directory keeps what is settled.                                    *)

LEMMA SettledStep ==
    ASSUME CooldownTypeOK, CleansStale, [CooldownNext]_cooldownVars PROVE SettledIsKept
<1>. SUFFICES ASSUME NEW a \in Auths, Settled(a), aside'[a] > 0 PROVE Settled(a)'
  BY DEF SettledIsKept
<1>a. \A t \in Threads : thread[t] \in Thread /\ thread[t].hand \in Snapshots
  BY DEF CooldownTypeOK, Thread
<1>b. Resting.pc = "idle"
  BY DEF Resting
\* What a step that leaves the file must show: a snapshot that has yet to be
\* saved is one that was there before, or has the record.
<1>c. ASSUME files'[a] # NoRecord,
             \A u \in Threads : thread'[u].pc \in {"lock", "write", "clean"} =>
                 \/ /\ thread[u].pc \in {"lock", "write", "clean"}
                    /\ thread'[u].hand[a] = thread[u].hand[a]
                 \/ thread'[u].hand[a] # NoRecord
      PROVE  Settled(a)'
  BY <1>c DEF Settled, Recorded
<1>d. files[a] # NoRecord
  BY DEF Settled
<1>1. ASSUME NEW t \in Threads, NEW b \in Auths,
             MarkResult(t, b) \/ ResetQuota(t, b) \/ Update(t, b) \/ Remove(t, b)
      PROVE  Settled(a)'
  <2>1. thread' = thread \/ thread' = [thread EXCEPT ![t].pc = "snap"]
    BY <1>1 DEF MarkResult, ResetQuota, Update, Remove, Begin
  <2>2. ASSUME NEW u \in Threads, thread'[u].pc \in {"lock", "write", "clean"}
        PROVE  thread'[u] = thread[u]
    BY <2>1, <2>2, <1>a DEF CooldownTypeOK, Thread
  <2>3. files' = files
    BY <1>1 DEF MarkResult, ResetQuota, Update, Remove
  <2>. QED
    BY <2>2, <2>3, <1>c, <1>d
<1>2. ASSUME NEW t \in Threads, NEW b \in Auths, WriteFile(t, b) PROVE Settled(a)'
  <2>1. \A u \in Threads : thread'[u].pc = thread[u].pc /\ thread'[u].hand = thread[u].hand
    BY <1>2, <1>a DEF WriteFile, CooldownTypeOK, Thread
  <2>2. thread[t].hand[a] # NoRecord
    BY <1>2 DEF WriteFile, Settled, Recorded
  <2>3. files'[a] # NoRecord
    BY <1>2, <1>d, <2>2 DEF WriteFile, CooldownTypeOK, Snapshots
  <2>. QED
    BY <2>1, <2>3, <1>c
<1>3. ASSUME NEW t \in Threads, NEW b \in Auths, RemoveStale(t, b) PROVE Settled(a)'
  <2>1. \A u \in Threads : thread'[u].pc = thread[u].pc /\ thread'[u].hand = thread[u].hand
    BY <1>3, <1>a DEF RemoveStale, CooldownTypeOK, Thread
  <2>2. b \notin Recorded(t) /\ a \in Recorded(t)
    BY <1>3 DEF RemoveStale, CleansStale, Settled
  <2>3. files'[a] = files[a]
    BY <1>3, <2>2 DEF RemoveStale, CooldownTypeOK, Snapshots
  <2>. QED
    BY <2>1, <2>3, <1>c, <1>d
<1>4. ASSUME NEW t \in Threads, NEW b \in Auths, LoadFile(t, b) PROVE Settled(a)'
  <2>1. \A u \in Threads \ {t} : thread'[u] = thread[u]
    BY <1>4 DEF LoadFile, CooldownTypeOK
  <2>2. thread'[t].pc = "load"
    BY <1>4, <1>a DEF LoadFile, CooldownTypeOK, Thread
  <2>3. files' = files
    BY <1>4 DEF LoadFile
  <2>. QED
    BY <2>1, <2>2, <2>3, <1>c, <1>d
<1>5. ASSUME NEW t \in Threads, Snapshot(t) PROVE Settled(a)'
  <2>1. RecordOf(a) # NoRecord
    BY ValueFacts DEF RecordOf, Settled, NoRecord
  <2>2. \A u \in Threads \ {t} : thread'[u] = thread[u]
    BY <1>5 DEF Snapshot, Done, CooldownTypeOK
  <2>3. thread'[t].pc = "idle" \/ thread'[t].hand[a] = RecordOf(a)
    BY <1>5, <1>b DEF Snapshot, Done, CooldownTypeOK
  <2>4. files' = files
    BY <1>5 DEF Snapshot
  <2>. QED
    BY <2>1, <2>2, <2>3, <2>4, <1>c, <1>d
<1>6. ASSUME NEW t \in Threads, Lock(t) PROVE Settled(a)'
  <2>1. \A u \in Threads : thread'[u].hand = thread[u].hand
    BY <1>6, <1>a DEF Lock, Entered, Thread
  <2>2. \A u \in Threads \ {t} : thread'[u].pc = thread[u].pc
    BY <1>6, <1>a DEF Lock, Entered, Thread
  <2>3. thread[t].pc = "lock" /\ files' = files
    BY <1>6 DEF Lock
  <2>. QED
    BY <2>1, <2>2, <2>3, <1>c, <1>d
<1>7. ASSUME NEW t \in Threads, ListFiles(t) PROVE Settled(a)'
  <2>1. \A u \in Threads : thread'[u].hand = thread[u].hand
    BY <1>7, <1>a DEF ListFiles, CooldownTypeOK, Thread
  <2>2. \A u \in Threads \ {t} : thread'[u].pc = thread[u].pc
    BY <1>7, <1>a DEF ListFiles, CooldownTypeOK, Thread
  <2>3. thread[t].pc = "write" /\ files' = files
    BY <1>7 DEF ListFiles
  <2>. QED
    BY <2>1, <2>2, <2>3, <1>c, <1>d
<1>8. ASSUME NEW t \in Threads, SaveFails(t) \/ Finish(t) \/ LoadFails(t) PROVE Settled(a)'
  <2>1. /\ thread'[t].pc = "idle"
        /\ \A u \in Threads \ {t} : thread'[u] = thread[u]
    BY <1>8, <1>b DEF SaveFails, Finish, LoadFails, Done, CooldownTypeOK
  <2>2. files' = files
    BY <1>8 DEF SaveFails, Finish, LoadFails
  <2>. QED
    BY <2>1, <2>2, <1>c, <1>d
<1>9. ASSUME NEW t \in Threads, Start(t) PROVE Settled(a)'
  BY <1>9, ValueFacts DEF Start
<1>10. ASSUME NEW t \in Threads, NewConfig(t) PROVE Settled(a)'
  <2>1. CASE thread' = thread
    BY <1>10, <2>1, <1>c, <1>d DEF NewConfig
  <2>2. CASE thread' = Loading(t)
    <3>1. [Resting EXCEPT !.pc = "load", !.todo = Auths].pc = "load"
      BY DEF Resting
    <3>2. thread'[t].pc = "load" /\ \A u \in Threads \ {t} : thread'[u] = thread[u]
      BY <2>2, <3>1 DEF Loading, CooldownTypeOK
    <3>. QED
      BY <1>10, <3>2, <1>c, <1>d DEF NewConfig
  <2>. QED
    BY <1>10, <2>1, <2>2 DEF NewConfig
<1>11. ASSUME NEW t \in Threads, RestoreAll(t) PROVE Settled(a)'
  <2>1. [Resting EXCEPT !.pc = "snap"].pc = "snap"
    BY DEF Resting
  <2>2. /\ thread'[t].pc \in {"idle", "snap"}
        /\ \A u \in Threads \ {t} : thread'[u] = thread[u]
    BY <1>11, <1>b, <2>1 DEF RestoreAll, Done, CooldownTypeOK
  <2>3. files' = files
    BY <1>11 DEF RestoreAll
  <2>. QED
    BY <2>2, <2>3, <1>c, <1>d
<1>12. ASSUME Crash PROVE Settled(a)'
  BY <1>12, ValueFacts DEF Crash
<1>13. ASSUME CooldownTick PROVE Settled(a)'
  <2>1. \A u \in Threads : thread'[u].pc = thread[u].pc /\ thread'[u].hand = Aged(thread[u].hand)
    BY <1>13, <1>a DEF CooldownTick, Thread
  <2>2. \A u \in Threads : thread'[u].hand[a] = NoRecord <=> thread[u].hand[a] = NoRecord
    BY <2>1, <1>a, AgedFacts
  <2>3. files'[a] # NoRecord
    BY <1>13, <1>d, AgedFacts DEF CooldownTick, CooldownTypeOK
  <2>. QED
    BY <2>1, <2>2, <2>3 DEF Settled, Recorded
<1>14. CASE UNCHANGED cooldownVars
  BY <1>14, <1>c, <1>d DEF cooldownVars
<1>. QED
  BY <1>1, <1>2, <1>3, <1>4, <1>5, <1>6, <1>7, <1>8, <1>9, <1>10, <1>11, <1>12, <1>13,
     <1>14, Zenon DEF CooldownNext

\* Only LoadFails and RestoreAll bring the process up after a start.
LEMMA RestoredStep ==
    ASSUME CooldownTypeOK, StartIsQuiet, [CooldownNext]_cooldownVars PROVE DurableIsRestored
<1>. SUFFICES ASSUME phase = "starting", phase' = "up", ~ \E t \in Threads : LoadFails(t)
              PROVE  \A a \in durable : aside[a] = 0 /\ files[a] > 0 => aside'[a] = files[a]
  BY DEF DurableIsRestored
<1>1. PICK t \in Threads : RestoreAll(t)
  <2>1. ~ \E t \in Threads, a \in Auths :
            MarkResult(t, a) \/ ResetQuota(t, a) \/ Update(t, a) \/ Remove(t, a)
    BY DEF MarkResult, ResetQuota, Update, Remove, Idle
  <2>2. ~ \E t \in Threads, a \in Auths : WriteFile(t, a) \/ RemoveStale(t, a) \/ LoadFile(t, a)
    BY DEF WriteFile, RemoveStale, LoadFile
  <2>3. ~ \E t \in Threads : Snapshot(t) \/ Lock(t) \/ ListFiles(t) \/ SaveFails(t) \/ Finish(t)
    BY DEF Snapshot, Lock, ListFiles, SaveFails, Finish
  <2>4. ~ \E t \in Threads : Start(t) \/ NewConfig(t)
    BY DEF Start, NewConfig, Idle
  <2>5. ~Crash /\ ~CooldownTick /\ ~UNCHANGED cooldownVars
    BY DEF Crash, CooldownTick, cooldownVars
  <2>. QED
    BY <2>1, <2>2, <2>3, <2>4, <2>5, Zenon DEF CooldownNext
<1>2. \A a \in Auths : thread[t].hand[a] = files[a]
  BY <1>1 DEF RestoreAll, StartIsQuiet
<1>3. \A a \in Auths : aside'[a] = Restored(a, files[a])
  BY <1>1, <1>2 DEF RestoreAll
<1>4. durable \subseteq Auths
  BY DEF CooldownTypeOK
<1>. QED
  BY <1>3, <1>4, ValueFacts DEF Restored

LEMMA ExactStep == ASSUME CooldownTypeOK, SavedSoFar PROVE SaveIsExact
<1>. SUFFICES ASSUME NEW t \in Threads, Finish(t), thread[t].alone
              PROVE  files' = thread[t].hand
  BY DEF SaveIsExact
<1>1. files' = files /\ thread[t].pc = "clean" /\ thread[t].todo = {}
  BY DEF Finish
<1>2. \A a \in Auths : files[a] = thread[t].hand[a]
  BY <1>1 DEF SavedSoFar, Saving, Recorded
<1>3. files \in Snapshots /\ thread[t].hand \in Snapshots
  BY DEF CooldownTypeOK, Thread
<1>. QED
  BY <1>1, <1>2, <1>3 DEF Snapshots

\* A settled cooldown survives every save, failed save and crash; what was settled
\* when the process crashed is in force again after the start; a save nobody
\* disturbs makes the directory the snapshot (Save, removeStaleStateFiles, Load,
\* restoreCooldownRecordLocked).
THEOREM CooldownsKept == CooldownSpec => CooldownsAreKept
<1>1. CooldownInv /\ [CooldownNext]_cooldownVars
      => [SettledIsKept /\ DurableIsRestored /\ SaveIsExact]_cooldownVars
  BY SettledStep, RestoredStep, ExactStep DEF CooldownInv
<1>. QED
  BY <1>1, CooldownInvariance, PTL DEF CooldownSpec, CooldownsAreKept

-----------------------------------------------------------------------------
(* SchedulerShard: an entry and the record it was evaluated from.          *)

\* An entry tells why its auth is not free, and looks at it again when the
\* auth's retry time or the recovery of its quota has come.
EntryIsTrue(e, rec) ==
    /\ e.state = "disabled" <=> rec.kind = "off"
    /\ e.state = "cooldown" => rec.kind = "quota"
    /\ e.state = "ready" => rec.retry = 0
    /\ e.state \in {"cooldown", "blocked"} => e.next >= 0 /\ e.next \in {rec.retry, rec.recover}

EntriesTrue == \A a \in Auths : entry[a] # NoEntry => EntryIsTrue(entry[a], meta[a].record)

ShardInv == ShardTypeOK /\ ShardComplete /\ EntriesTrue

\* The same of some records, shards, entries and index, one auth at a time.
SoundOf(a, me, bs, en, ix) ==
    /\ en[a] \in Entries \cup {NoEntry}
    /\ en[a] # NoEntry <=> Listed(a, me) /\ me[a].provider \in bs
    /\ ix[a] = IndexOf(a, en, me)
    /\ en[a] # NoEntry => EntryIsTrue(en[a], me[a].record)

LEMMA ShardFacts ==
    /\ MaxWait \in Nat /\ MaxWait > 0 /\ Cadence \in Nat
    /\ NoAuth \notin Metas
    /\ NoEntry \notin Entries
    /\ \A e \in Entries : e.next \in Int /\ e = [state |-> e.state, next |-> e.next]
BY ShardAssumption DEF NoAuth, Metas, NoEntry, Entries, NoTime

LEMMA RecordFacts ==
    ASSUME NEW rec \in Records
    PROVE  /\ rec.kind \in {"off", "quota", "other"}
           /\ rec.retry \in 0..MaxWait /\ rec.recover \in 0..MaxWait
           /\ rec.kind = "off" => rec.retry = 0 /\ rec.recover = 0
           /\ rec.kind = "other" => rec.recover = 0
           /\ rec = [kind |-> rec.kind, retry |-> rec.retry, recover |-> rec.recover]
BY ShardFacts DEF Records

LEMMA RecordsAre ==
    ASSUME NEW k \in {"off", "quota", "other"}, NEW i \in 0..MaxWait, NEW j \in 0..MaxWait,
           k = "off" => i = 0 /\ j = 0, k = "other" => j = 0
    PROVE  [kind |-> k, retry |-> i, recover |-> j] \in Records
BY ShardFacts DEF Records

LEMMA MetaFacts ==
    ASSUME NEW me \in Metas
    PROVE  /\ me.provider \in Providers /\ me.class \in Classes /\ me.supports \in BOOLEAN
           /\ me.record \in Records /\ me # NoAuth
BY ShardFacts DEF Metas

LEMMA EvaluatedIsTrue ==
    ASSUME NEW rec \in Records
    PROVE  /\ Evaluated(rec) \in Entries /\ Evaluated(rec) # NoEntry
           /\ EntryIsTrue(Evaluated(rec), rec)
           /\ rec.kind # "off" /\ rec.retry = 0 => Evaluated(rec).state = "ready"
<1>. /\ rec.kind \in {"off", "quota", "other"}
     /\ rec.retry \in 0..MaxWait /\ rec.recover \in 0..MaxWait
  BY RecordFacts
<1>1. CASE rec.kind = "off"
  <2>1. Evaluated(rec) = [state |-> "disabled", next |-> NoTime]
    BY <1>1 DEF Evaluated
  <2>. QED
    BY <1>1, <2>1, ShardFacts DEF Entries, EntryIsTrue, NoTime, NoEntry
<1>2. CASE rec.kind # "off" /\ rec.retry = 0
  <2>1. Evaluated(rec) = [state |-> "ready", next |-> NoTime]
    BY <1>2 DEF Evaluated
  <2>. QED
    BY <1>2, <2>1, ShardFacts DEF Entries, EntryIsTrue, NoTime, NoEntry
<1>3. CASE rec.kind # "off" /\ rec.retry # 0
  <2>. DEFINE s == IF rec.kind = "quota" THEN "cooldown" ELSE "blocked"
             n == IF rec.recover > 0 THEN rec.recover ELSE rec.retry
  <2>1. Evaluated(rec) = [state |-> s, next |-> n]
    BY <1>3 DEF Evaluated
  <2>2. /\ s \in {"cooldown", "blocked"} /\ (s = "cooldown" => rec.kind = "quota")
        /\ n \in 0..MaxWait /\ n \in {rec.retry, rec.recover}
    OBVIOUS
  <2>3. Evaluated(rec).state = s /\ Evaluated(rec).next = n
    BY <2>1
  <2>. HIDE DEF s, n
  <2>4. Evaluated(rec) \in Entries
    BY <2>1, <2>2, ShardFacts DEF Entries, NoTime
  <2>5. n >= 0
    BY <2>2, ShardFacts
  <2>. QED
    BY <1>3, <2>2, <2>3, <2>4, <2>5, ShardFacts DEF EntryIsTrue
<1>. QED
  BY <1>1, <1>2, <1>3

LEMMA IndexIsTyped ==
    ASSUME NEW a, NEW en, NEW me, en[a] \in Entries \cup {NoEntry},
           en[a] # NoEntry => me[a] \in Metas
    PROVE  IndexOf(a, en, me) \in {Unindexed, Waiting} \cup [view: {"ready"}, class: Classes]
BY MetaFacts DEF IndexOf, Unindexed, Waiting, NoEntry

\* What the invariant says of one auth, and that this is all it says.
LEMMA ShardSays ==
    ASSUME ShardInv, NEW a \in Auths
    PROVE  /\ meta[a] \in Metas \cup {NoAuth}
           /\ Listed(a, meta) => meta[a] \in Metas
           /\ SoundOf(a, meta, built, entry, index)
BY DEF ShardInv, ShardTypeOK, ShardComplete, EntriesTrue, SoundOf, Listed

LEMMA ShardIs ==
    ASSUME NEW me \in [Auths -> Metas \cup {NoAuth}], NEW bs \in SUBSET Providers,
           NEW en, en = [a \in Auths |-> en[a]], NEW ix, NEW ca \in [Auths -> 0..Cadence],
           \A a \in Auths : SoundOf(a, me, bs, en, ix),
           meta' = me, built' = bs, entry' = en, index' = ix, cadence' = ca
    PROVE  ShardInv'
<1>1. en \in [Auths -> Entries \cup {NoEntry}]
  BY DEF SoundOf
<1>2. \A a \in Auths : index'[a] \in {Unindexed, Waiting} \cup [view: {"ready"}, class: Classes]
  BY IndexIsTyped DEF SoundOf, Listed
<1>3. ShardTypeOK'
  BY <1>1, <1>2 DEF ShardTypeOK
<1>4. ShardComplete'
  BY DEF ShardComplete, SoundOf, Listed, IndexOf
<1>5. EntriesTrue'
  BY DEF EntriesTrue, SoundOf
<1>. QED
  BY <1>3, <1>4, <1>5 DEF ShardInv

-----------------------------------------------------------------------------
(* SchedulerShard: the steps keep the entries true and the index complete. *)

\* An auth whose record and entry a step leaves alone, sorted anew or not.
LEMMA Unmoved ==
    ASSUME ShardInv, NEW q \in Auths, NEW me, NEW en, NEW ix, NEW bs,
           me[q] = meta[q], en[q] = entry[q],
           meta[q].provider \in bs <=> meta[q].provider \in built,
           ix[q] \in {index[q], IndexOf(q, en, me)}
    PROVE  SoundOf(q, me, bs, en, ix)
<1>1. SoundOf(q, meta, built, entry, index)
  BY ShardSays
<1>2. IndexOf(q, en, me) = IndexOf(q, entry, meta)
  BY DEF IndexOf
<1>. QED
  BY <1>1, <1>2 DEF SoundOf, Listed

LEMMA TypesAre ==
    ASSUME ShardInv
    PROVE  /\ meta \in [Auths -> Metas \cup {NoAuth}] /\ built \in SUBSET Providers
           /\ entry \in [Auths -> Entries \cup {NoEntry}] /\ cadence \in [Auths -> 0..Cadence]
BY DEF ShardInv, ShardTypeOK

LEMMA UpsertKeeps == ASSUME ShardInv, NEW a \in Auths, UpsertAuth(a) PROVE ShardInv'
<1>. USE TypesAre
<1>1. PICK new \in Metas :
          LET stays == meta[a].provider = new.provider
              kept == new.supports /\ new.provider \in built
          IN  /\ meta' = [meta EXCEPT ![a] = new]
              /\ entry' = [entry EXCEPT ![a] = IF kept THEN Evaluated(new.record) ELSE NoEntry]
              /\ index' = IF stays /\ kept /\ UnchangedEntry(a, new) THEN index
                          ELSE Reindexed({a} \cup Of(meta[a].provider, meta) \cup Of(new.provider, meta),
                                         entry', meta')
              /\ UNCHANGED <<built, cadence>>
  BY DEF UpsertAuth
<1>. DEFINE kept == new.supports /\ new.provider \in built
            was == meta[a].provider = new.provider /\ kept /\ UnchangedEntry(a, new)
            those == {a} \cup Of(meta[a].provider, meta) \cup Of(new.provider, meta)
<1>2. /\ meta'[a] = new /\ entry'[a] = (IF kept THEN Evaluated(new.record) ELSE NoEntry)
      /\ \A q \in Auths \ {a} : meta'[q] = meta[q] /\ entry'[q] = entry[q]
      /\ entry' = [q \in Auths |-> entry'[q]] /\ meta' \in [Auths -> Metas \cup {NoAuth}]
  BY <1>1
<1>3. \/ was /\ index' = index
      \/ ~was /\ a \in those /\ index' = Reindexed(those, entry', meta')
  BY <1>1
<1>4. \A q \in Auths : \/ was /\ index'[q] = index[q]
                       \/ ~was /\ q # a /\ index'[q] = index[q]
                       \/ index'[q] = IndexOf(q, entry', meta')
  BY <1>3 DEF Reindexed
<1>5. SoundOf(a, meta', built, entry', index')
  <2>. SoundOf(a, meta, built, entry, index)
    BY ShardSays
  <2>1. /\ Evaluated(new.record) \in Entries /\ Evaluated(new.record) # NoEntry
        /\ EntryIsTrue(Evaluated(new.record), new.record)
        /\ Listed(a, meta') <=> new.supports
    BY <1>2, EvaluatedIsTrue, MetaFacts DEF Listed
  <2>2. index'[a] = IndexOf(a, entry', meta')
    <3>1. CASE was /\ index'[a] = index[a]
      <4>1. entry[a] = entry'[a] /\ meta[a].class = meta'[a].class
        BY <1>2, <3>1 DEF UnchangedEntry
      <4>2. IndexOf(a, entry', meta') = IndexOf(a, entry, meta)
        BY <4>1 DEF IndexOf
      <4>. QED
        BY <3>1, <4>2 DEF SoundOf
    <3>. QED
      BY <1>4, <3>1
  <2>3. CASE kept
    BY <1>2, <2>1, <2>2, <2>3 DEF SoundOf
  <2>4. CASE ~kept
    <3>1. entry'[a] = NoEntry /\ meta'[a].provider = new.provider
      BY <1>2, <2>4
    <3>2. ~(Listed(a, meta') /\ meta'[a].provider \in built)
      BY <2>1, <2>4, <3>1
    <3>. QED
      BY <2>2, <3>1, <3>2 DEF SoundOf
  <2>. QED
    BY <2>3, <2>4
<1>6. ASSUME NEW q \in Auths \ {a} PROVE SoundOf(q, meta', built, entry', index')
  BY <1>2, <1>4, <1>6, Unmoved
<1>7. built' = built /\ cadence' = cadence
  BY <1>1
<1>8. \A q \in Auths : SoundOf(q, meta', built, entry', index')
  BY <1>5, <1>6
<1>. QED
  BY <1>2, <1>7, <1>8, ShardIs

LEMMA RemoveKeeps == ASSUME ShardInv, NEW a \in Auths, RemoveAuth(a) PROVE ShardInv'
<1>. USE TypesAre
<1>. DEFINE those == {a} \cup Of(meta[a].provider, meta')
<1>1. /\ meta'[a] = NoAuth /\ entry'[a] = NoEntry
      /\ \A q \in Auths \ {a} : meta'[q] = meta[q] /\ entry'[q] = entry[q]
      /\ entry' = [q \in Auths |-> entry'[q]] /\ meta' \in [Auths -> Metas \cup {NoAuth}]
      /\ built' = built /\ cadence' = cadence
  BY DEF RemoveAuth
<1>2. \/ entry[a] = NoEntry /\ index' = index
      \/ a \in those /\ index' = Reindexed(those, entry', meta')
  BY DEF RemoveAuth
<1>3. \A q \in Auths : \/ entry[a] = NoEntry /\ index'[q] = index[q]
                       \/ q # a /\ index'[q] = index[q]
                       \/ index'[q] = IndexOf(q, entry', meta')
  BY <1>2 DEF Reindexed
<1>4. SoundOf(a, meta', built, entry', index')
  <2>1. SoundOf(a, meta, built, entry, index)
    BY ShardSays
  <2>2. index'[a] = IndexOf(a, entry', meta')
    <3>1. IndexOf(a, entry', meta') = Unindexed
      BY <1>1 DEF IndexOf, NoEntry
    <3>2. CASE entry[a] = NoEntry /\ index'[a] = index[a]
      <4>1. IndexOf(a, entry, meta) = Unindexed
        BY <3>2 DEF IndexOf, NoEntry
      <4>. QED
        BY <2>1, <3>1, <3>2, <4>1 DEF SoundOf
    <3>. QED
      BY <1>3, <3>2
  <2>. QED
    BY <1>1, <2>2 DEF SoundOf, Listed
<1>5. ASSUME NEW q \in Auths \ {a} PROVE SoundOf(q, meta', built, entry', index')
  BY <1>1, <1>3, <1>5, Unmoved
<1>6. \A q \in Auths : SoundOf(q, meta', built, entry', index')
  BY <1>4, <1>5
<1>. QED
  BY <1>1, <1>6, ShardIs

LEMMA RebuildKeeps == ASSUME ShardInv, RebuildAll PROVE ShardInv'
<1>1. /\ entry' = [a \in Auths |-> entry'[a]] /\ built' = {}
      /\ \A a \in Auths : entry'[a] = NoEntry /\ index'[a] = Unindexed
      /\ meta' = meta /\ cadence' = cadence
  BY DEF RebuildAll
<1>2. \A a \in Auths : SoundOf(a, meta', built', entry', index')
  BY <1>1 DEF SoundOf, IndexOf, NoEntry
<1>. QED
  BY <1>1, <1>2, ShardIs, TypesAre

\* The shards a pick asks for are as sound as those that stand, and know more.
LEMMA EnsuredIsSound ==
    ASSUME ShardInv, NEW ps \in SUBSET Providers, NEW a \in Auths
    PROVE  SoundOf(a, meta, built \cup ps, EnsuredEntry(ps), EnsuredIndex(ps))
<1>. DEFINE now == a \in Expired(ps) \/ (meta[a].provider \in ps \ built /\ Listed(a, meta))
            those == {b \in Auths : meta[b].provider \in ps /\
                       (meta[b].provider \notin built \/ Expired({meta[b].provider}) # {})}
<1>1. SoundOf(a, meta, built, entry, index) /\ (Listed(a, meta) => meta[a] \in Metas)
  BY ShardSays
<1>2. EnsuredEntry(ps)[a] = IF now THEN Evaluated(meta[a].record) ELSE entry[a]
  BY DEF EnsuredEntry
<1>3. EnsuredIndex(ps)[a] = IF a \in those THEN IndexOf(a, EnsuredEntry(ps), meta) ELSE index[a]
  BY DEF EnsuredIndex, Reindexed
<1>4. CASE now
  <2>1. Listed(a, meta) /\ meta[a].provider \in built \cup ps
    BY <1>1, <1>4 DEF SoundOf, Expired, IndexOf, Waiting, Unindexed, NoEntry
  <2>2. a \in those
    BY <1>4 DEF Expired
  <2>3. /\ Evaluated(meta[a].record) \in Entries /\ Evaluated(meta[a].record) # NoEntry
        /\ EntryIsTrue(Evaluated(meta[a].record), meta[a].record)
    BY <1>1, <2>1, MetaFacts, EvaluatedIsTrue
  <2>4. EnsuredEntry(ps)[a] = Evaluated(meta[a].record)
    BY <1>2, <1>4
  <2>5. EnsuredIndex(ps)[a] = IndexOf(a, EnsuredEntry(ps), meta)
    BY <1>3, <2>2
  <2>. QED
    BY <2>1, <2>3, <2>4, <2>5 DEF SoundOf
<1>5. CASE ~now
  <2>1. EnsuredEntry(ps)[a] = entry[a]
    BY <1>2, <1>5
  <2>2. IndexOf(a, EnsuredEntry(ps), meta) = IndexOf(a, entry, meta)
    BY <2>1 DEF IndexOf
  <2>3. EnsuredIndex(ps)[a] = IndexOf(a, entry, meta)
    BY <1>1, <1>3, <2>2 DEF SoundOf
  <2>. QED
    BY <1>1, <1>5, <2>1, <2>2, <2>3 DEF SoundOf
<1>. QED
  BY <1>4, <1>5

LEMMA PickKeeps ==
    ASSUME ShardInv, NEW ps \in SUBSET Providers,
           entry' = EnsuredEntry(ps), index' = EnsuredIndex(ps), built' = built \cup ps,
           meta' = meta, cadence' \in [Auths -> 0..Cadence]
    PROVE  ShardInv'
<1>1. \A a \in Auths : SoundOf(a, meta', built', entry', index')
  BY EnsuredIsSound
<1>2. entry' = [a \in Auths |-> entry'[a]] /\ built' \in SUBSET Providers
      /\ meta' \in [Auths -> Metas \cup {NoAuth}]
  BY TypesAre DEF EnsuredEntry
<1>. QED
  BY <1>1, <1>2, ShardIs

LEMMA TickKeeps == ASSUME ShardInv, ShardTick PROVE ShardInv'
<1>. USE TypesAre
<1>1. ASSUME NEW a \in Auths, meta[a] # NoAuth
      PROVE  /\ meta'[a] \in Metas
             /\ meta'[a].provider = meta[a].provider /\ meta'[a].class = meta[a].class
             /\ meta'[a].supports = meta[a].supports
             /\ meta'[a].record.kind = meta[a].record.kind
             /\ meta'[a].record.retry = Elapse(meta[a].record.retry)
             /\ meta'[a].record.recover = Elapse(meta[a].record.recover)
  <2>. DEFINE was == meta[a]
              rec == [kind |-> was.record.kind, retry |-> Elapse(was.record.retry),
                      recover |-> Elapse(was.record.recover)]
  <2>1. was \in Metas /\ was.record \in Records
    BY <1>1, MetaFacts
  <2>2. meta'[a] = [was EXCEPT !.record.retry = Elapse(@), !.record.recover = Elapse(@)]
    BY <1>1 DEF ShardTick
  <2>3. meta'[a] = [provider |-> was.provider, class |-> was.class, supports |-> was.supports,
                    record |-> rec]
    BY <2>1, <2>2, RecordFacts DEF Metas
  <2>4. rec \in Records
    <3>1. /\ was.record.kind \in {"off", "quota", "other"}
          /\ was.record.retry \in 0..MaxWait /\ was.record.recover \in 0..MaxWait
          /\ was.record.kind = "off" => was.record.retry = 0 /\ was.record.recover = 0
          /\ was.record.kind = "other" => was.record.recover = 0
      BY <2>1, RecordFacts
    <3>2. /\ Elapse(was.record.retry) \in 0..MaxWait /\ Elapse(was.record.recover) \in 0..MaxWait
          /\ was.record.kind = "off" =>
                 Elapse(was.record.retry) = 0 /\ Elapse(was.record.recover) = 0
          /\ was.record.kind = "other" => Elapse(was.record.recover) = 0
      BY <3>1, ShardFacts DEF Elapse
    <3>. QED
      BY <3>1, <3>2, RecordsAre
  <2>. QED
    BY <2>1, <2>3, <2>4, MetaFacts DEF Metas
<1>2. \A a \in Auths : meta[a] = NoAuth => meta'[a] = NoAuth
  BY DEF ShardTick
<1>3. ASSUME NEW a \in Auths
      PROVE  entry'[a] = [state |-> entry[a].state, next |-> Elapse(entry[a].next)]
  <2>1. entry[a] = [state |-> entry[a].state, next |-> entry[a].next]
    <3>1. CASE entry[a] = NoEntry
      BY <3>1 DEF NoEntry
    <3>2. CASE entry[a] \in Entries
      BY <3>2, ShardFacts
    <3>. QED
      BY <3>1, <3>2
  <2>2. entry'[a] = [entry[a] EXCEPT !.next = Elapse(@)]
    BY DEF ShardTick
  <2>. QED
    BY <2>1, <2>2
<1>4. ASSUME NEW a \in Auths PROVE SoundOf(a, meta', built, entry', index)
  <2>1. SoundOf(a, meta, built, entry, index)
    BY ShardSays
  <2>2. entry'[a].state = entry[a].state /\ entry'[a].next = Elapse(entry[a].next)
    <3>1. entry'[a] = [state |-> entry[a].state, next |-> Elapse(entry[a].next)]
      BY <1>3
    <3>. QED
      BY <3>1
  <2>3. CASE entry[a] = NoEntry
    <3>1. entry'[a] = NoEntry
      BY <1>3, <2>3 DEF NoEntry, NoTime, Elapse
    <3>2. IndexOf(a, entry', meta') = Unindexed /\ index[a] = Unindexed
      BY <2>1, <2>3, <3>1 DEF SoundOf, IndexOf, NoEntry
    <3>3. ~(Listed(a, meta') /\ meta'[a].provider \in built)
      BY <1>1, <1>2, <2>1, <2>3 DEF SoundOf, Listed
    <3>. QED
      BY <3>1, <3>2, <3>3 DEF SoundOf
  <2>4. CASE entry[a] # NoEntry
    <3>1. /\ entry[a] \in Entries /\ Listed(a, meta) /\ meta[a].provider \in built
          /\ meta[a] \in Metas /\ meta[a] # NoAuth
      BY <2>1, <2>4, ShardSays DEF SoundOf, Listed
    <3>2. entry'[a] \in Entries
      <4>1. entry'[a] = [state |-> entry[a].state, next |-> Elapse(entry[a].next)]
        BY <1>3
      <4>2. /\ entry[a].state \in {"ready", "cooldown", "blocked", "disabled"}
            /\ entry[a].next \in NoTime..MaxWait
        BY <3>1 DEF Entries
      <4>3. Elapse(entry[a].next) \in NoTime..MaxWait
        BY <4>2, ShardFacts DEF NoTime, Elapse
      <4>. QED
        BY <4>1, <4>2, <4>3 DEF Entries
    <3>3. Listed(a, meta') /\ meta'[a].provider \in built
      BY <1>1, <3>1, MetaFacts DEF Listed
    <3>4. IndexOf(a, entry', meta') = IndexOf(a, entry, meta)
      BY <1>1, <2>2, <3>1 DEF IndexOf
    <3>5. EntryIsTrue(entry'[a], meta'[a].record)
      <4>1. /\ meta[a].record \in Records /\ meta[a].record.retry \in 0..MaxWait
            /\ meta[a].record.recover \in 0..MaxWait
        BY <3>1, MetaFacts, RecordFacts
      <4>2. EntryIsTrue(entry[a], meta[a].record) /\ entry[a].next \in Int
        BY <2>1, <2>4, <3>1, ShardFacts DEF SoundOf
      <4>. QED
        BY <1>1, <2>2, <3>1, <4>1, <4>2, ShardFacts DEF EntryIsTrue, Elapse
    <3>. QED
      BY <2>1, <3>2, <3>3, <3>4, <3>5, ShardFacts DEF SoundOf
  <2>. QED
    BY <2>3, <2>4
<1>5. meta' \in [Auths -> Metas \cup {NoAuth}]
  BY <1>1, <1>2 DEF ShardTick
<1>6. built' = built /\ index' = index /\ entry' = [a \in Auths |-> entry'[a]]
  BY DEF ShardTick
<1>7. cadence' \in [Auths -> 0..Cadence]
  <2>1. \A n \in 0..Cadence : Elapse(n) \in 0..Cadence
    BY ShardFacts DEF Elapse
  <2>. QED
    BY <2>1 DEF ShardTick
<1>. QED
  BY <1>4, <1>5, <1>6, <1>7, ShardIs

\* Every entry tells why its auth is not free, the shards hold an entry of each
\* auth they should, and the index sorts it by what it is now: inductive, for
\* any auths, providers, waits and knowledge of the quotas.
THEOREM ShardInvariance == ShardSpec => []ShardInv
<1>1. ShardInit => ShardInv
  <2>. SUFFICES ASSUME ShardInit PROVE ShardInv
    OBVIOUS
  <2>1. ShardTypeOK
    BY ShardFacts DEF ShardInit, ShardTypeOK
  <2>2. ShardComplete /\ EntriesTrue
    BY DEF ShardInit, ShardComplete, EntriesTrue, IndexOf, Listed, NoEntry
  <2>. QED
    BY <2>1, <2>2 DEF ShardInv
<1>2. ASSUME ShardInv, [ShardNext]_shardVars PROVE ShardInv'
  <2>1. ASSUME NEW a \in Auths, UpsertAuth(a) PROVE ShardInv'
    BY <1>2, <2>1, UpsertKeeps
  <2>2. ASSUME NEW a \in Auths, RemoveAuth(a) PROVE ShardInv'
    BY <1>2, <2>2, RemoveKeeps
  <2>3. CASE RebuildAll
    BY <1>2, <2>3, RebuildKeeps
  <2>4. ASSUME NEW p \in Served, NEW tried \in SUBSET Auths, NEW r \in Routings,
               PickSingle(p, tried, r)
        PROVE  ShardInv'
    <3>1. {p} \in SUBSET Providers
      BY DEF Served
    <3>2. cadence' \in [Auths -> 0..Cadence]
      BY <1>2, <2>4, TypesAre, ShardFacts DEF PickSingle
    <3>. QED
      BY <1>2, <2>4, <3>1, <3>2, PickKeeps DEF PickSingle
  <2>5. CASE PickMixed
    <3>1. Served \in SUBSET Providers
      BY DEF Served
    <3>. QED
      BY <1>2, <2>5, <3>1, PickKeeps, TypesAre DEF PickMixed
  <2>6. CASE ShardTick
    BY <1>2, <2>6, TickKeeps
  <2>7. CASE UNCHANGED shardVars
    BY <1>2, <2>7 DEF shardVars, ShardInv, ShardTypeOK, ShardComplete, EntriesTrue, IndexOf, Listed
  <2>. QED
    BY <1>2, <2>1, <2>2, <2>3, <2>4, <2>5, <2>6, <2>7 DEF ShardNext
<1>. QED
  BY <1>1, <1>2, PTL DEF ShardSpec

-----------------------------------------------------------------------------
(* SchedulerShard: the lowest and the highest of what an auth can have.    *)

LEMMA LowestIs ==
    ASSUME NEW T \in SUBSET Nat, T # {}
    PROVE  Lowest(T) \in T /\ \A u \in T : Lowest(T) <= u
<1>1. PICK t \in T : \A u \in T : <<u, t>> \notin OpToRel(<, Nat)
  BY NatLessThanWellFounded, WFMin, Zenon
<1>2. \A u \in T : ~(u < t)
  BY <1>1 DEF OpToRel
<1>3. \A u \in T : t <= u
  BY <1>2
<1>. QED
  BY <1>3 DEF Lowest

\* Among finitely many auths one has the highest number: the fewest auths that
\* have none would have one if the one that is left out had not.
LEMMA OneIsHighest ==
    ASSUME NEW f \in [Auths -> Int], NEW those \in SUBSET Auths, those # {}
    PROVE  \E a \in those : \A b \in those : f[a] >= f[b]
<1>. DEFINE Without == {bs \in FiniteSubsetsOf(Auths) :
                           bs # {} /\ \A a \in bs : \E b \in bs : ~(f[a] >= f[b])}
<1>1. those \in FiniteSubsetsOf(Auths)
  BY ShardAssumption, FS_Subset DEF FiniteSubsetsOf
<1>2. CASE Without = {}
  BY <1>1, <1>2
<1>3. CASE Without # {}
  <2>1. IsWellFoundedOn(StrictSubsetOrdering(Auths), FiniteSubsetsOf(Auths))
    BY FS_StrictSubsetOrderingWellFounded
  <2>2. PICK bs \in Without : \A cs \in Without : <<cs, bs>> \notin StrictSubsetOrdering(Auths)
    <3>1. Without \subseteq FiniteSubsetsOf(Auths)
      OBVIOUS
    <3>. HIDE DEF Without
    <3>. QED
      BY <1>3, <2>1, <3>1, WFMin, Zenon
  <2>3. PICK x : x \in bs
    BY <2>2
  <2>. DEFINE cs == bs \ {x}
  <2>4. cs \in FiniteSubsetsOf(Auths) /\ cs # bs /\ cs \subseteq bs /\ bs \subseteq Auths
    BY <2>2, <2>3, FS_Subset DEF FiniteSubsetsOf
  <2>5. <<cs, bs>> \in StrictSubsetOrdering(Auths)
    BY <2>4 DEF StrictSubsetOrdering
  <2>6. cs \notin Without
    BY <2>2, <2>5
  <2>7. CASE cs = {}
    <3>1. bs = {x} /\ f[x] \in Int
      BY <2>3, <2>4, <2>7
    <3>. QED
      BY <2>2, <3>1
  <2>8. CASE cs # {}
    <3>1. PICK t \in cs : \A b \in cs : f[t] >= f[b]
      BY <2>4, <2>6, <2>8
    <3>2. \A b \in bs : f[b] \in Int
      BY <2>4
    <3>3. PICK u \in {t, x} : f[u] >= f[t] /\ f[u] >= f[x]
      BY <2>3, <2>4, <3>1, <3>2
    <3>4. \A b \in bs : f[u] >= f[b]
      BY <2>3, <2>4, <3>1, <3>2, <3>3
    <3>5. u \in bs
      BY <2>3, <2>4, <3>1, <3>3
    <3>. QED
      BY <2>2, <3>4, <3>5
  <2>. QED
    BY <2>7, <2>8
<1>. QED
  BY <1>2, <1>3

-----------------------------------------------------------------------------
(* SchedulerShard: what a pick finds.                                      *)

\* An auth whose entry is ready is free, and one that is free is ready unless the
\* time its quota recovers at is still to come.
LEMMA ReadyIsFree ==
    ASSUME ShardInv, NEW ps \in SUBSET Providers, NEW a \in Auths
    PROVE  /\ EnsuredEntry(ps)[a].state = "ready" => Free(a) /\ meta[a] \in Metas
           /\ EnsuredIndex(ps)[a].view = "ready" =>
                  EnsuredEntry(ps)[a].state = "ready" /\ EnsuredIndex(ps)[a].class = meta[a].class
           /\ EnsuredEntry(ps)[a].state = "ready" => EnsuredIndex(ps)[a].view = "ready"
           /\ Free(a) /\ meta[a].supports /\ meta[a].provider \in ps /\ meta[a].record.recover = 0 =>
                  EnsuredEntry(ps)[a].state = "ready"
<1>. DEFINE en == EnsuredEntry(ps)
            ix == EnsuredIndex(ps)
            now == a \in Expired(ps) \/ (meta[a].provider \in ps \ built /\ Listed(a, meta))
<1>1. SoundOf(a, meta, built \cup ps, en, ix)
  BY EnsuredIsSound
<1>2. /\ SoundOf(a, meta, built, entry, index) /\ (Listed(a, meta) => meta[a] \in Metas)
  BY ShardSays
<1>3. en[a] = IF now THEN Evaluated(meta[a].record) ELSE entry[a]
  BY DEF EnsuredEntry
<1>. HIDE DEF en, ix
<1>4. ASSUME en[a].state = "ready" PROVE Free(a) /\ meta[a] \in Metas
  <2>1. en[a] # NoEntry
    BY <1>4 DEF NoEntry
  <2>. QED
    BY <1>1, <1>2, <1>4, <2>1 DEF SoundOf, Listed, EntryIsTrue, Free
<1>5. ASSUME ix[a].view = "ready" PROVE en[a].state = "ready" /\ ix[a].class = meta[a].class
  BY <1>1, <1>5 DEF SoundOf, IndexOf, Waiting, Unindexed
<1>6. ASSUME en[a].state = "ready" PROVE ix[a].view = "ready"
  BY <1>1, <1>6 DEF SoundOf, IndexOf
<1>7. ASSUME Free(a), meta[a].supports, meta[a].provider \in ps, meta[a].record.recover = 0
      PROVE  en[a].state = "ready"
  <2>1. Listed(a, meta) /\ meta[a] \in Metas /\ meta[a].record \in Records
    BY <1>2, <1>7, MetaFacts DEF Free, Listed
  <2>2. /\ meta[a].record.kind # "off" /\ meta[a].record.retry = 0
    BY <1>7 DEF Free
  <2>3. CASE now
    BY <1>3, <2>1, <2>2, <2>3, EvaluatedIsTrue
  <2>4. CASE ~now
    <3>1. en[a] = entry[a] /\ entry[a] # NoEntry /\ entry[a] \in Entries
      BY <1>2, <1>3, <1>7, <2>1, <2>4 DEF SoundOf
    <3>2. EntryIsTrue(entry[a], meta[a].record)
      BY <1>2, <3>1 DEF SoundOf
    <3>3. ASSUME entry[a].state \in {"cooldown", "blocked"} PROVE FALSE
      <4>1. index[a] = Waiting
        BY <1>2, <3>3 DEF SoundOf, IndexOf
      <4>2. entry[a].next = 0
        BY <1>7, <2>2, <3>2, <3>3 DEF EntryIsTrue
      <4>. QED
        BY <1>7, <2>4, <4>1, <4>2 DEF Expired
    <3>4. entry[a].state # "disabled"
      BY <2>2, <3>2 DEF EntryIsTrue
    <3>. QED
      BY <3>1, <3>3, <3>4 DEF Entries
  <2>. QED
    BY <2>3, <2>4
<1>. QED
  BY <1>4, <1>5, <1>6, <1>7 DEF en, ix

LEMMA PreferredIs ==
    ASSUME NEW those \in SUBSET Auths, NEW r \in Routings
    PROVE  Preferred(those, r) \subseteq those /\ (those # {} => Preferred(those, r) # {})
<1>. DEFINE pools == {r.pool[a] : a \in those} \ {0}
<1>1. pools \in SUBSET Nat
  <2>1. r.pool \in [Auths -> 0..4]
    BY ShardAssumption
  <2>2. ASSUME NEW a \in those PROVE r.pool[a] \in Nat
    <3>1. a \in Auths
      OBVIOUS
    <3>2. r.pool[a] \in 0..4
      BY <2>1, <3>1
    <3>. QED
      BY <3>2
  <2>. QED
    BY <2>2
<1>2. CASE pools = {}
  BY <1>2 DEF Preferred
<1>3. CASE pools # {}
  <2>1. Lowest(pools) \in pools
    BY <1>1, <1>3, LowestIs
  <2>2. PICK a \in those : r.pool[a] = Lowest(pools)
    BY <2>1
  <2>. HIDE DEF pools
  <2>3. Preferred(those, r) = {b \in those : r.pool[b] = Lowest(pools)}
    BY <1>3 DEF Preferred, pools
  <2>. QED
    BY <2>2, <2>3
<1>. QED
  BY <1>2, <1>3

\* Transport, priority and an urgent pool choose among the auths and leave one.
LEMMA OrdinaryIs ==
    ASSUME NEW those \in SUBSET Auths, NEW ix, \A a \in those : ix[a].class.priority \in Int,
           NEW ws, NEW r \in Routings
    PROVE  Ordinary(those, ix, ws, r) \subseteq those /\ (those # {} => Ordinary(those, ix, ws, r) # {})
<1>. DEFINE likely == Transport(Preferred(those, r), ix, ws)
            best == {a \in likely : ix[a].class.priority = Highest({ix[b].class.priority : b \in likely})}
<1>1. likely \subseteq those /\ (those # {} => likely # {})
  BY PreferredIs DEF Transport
<1>2. Ordinary(those, ix, ws, r) \in {likely, best}
  BY DEF Ordinary
<1>. HIDE DEF likely
<1>3. ASSUME likely # {} PROVE best # {}
  <2>. DEFINE f == [a \in Auths |-> IF a \in those THEN ix[a].class.priority ELSE 0]
  <2>1. f \in [Auths -> Int]
    <3>1. ASSUME NEW a \in Auths PROVE (IF a \in those THEN ix[a].class.priority ELSE 0) \in Int
      <4>1. CASE a \in those
        BY <4>1
      <4>. QED
        BY <4>1
    <3>. QED
      BY <3>1
  <2>2. \A a \in likely : f[a] = ix[a].class.priority
    BY <1>1
  <2>. HIDE DEF f
  <2>3. PICK t \in likely : \A b \in likely : f[t] >= f[b]
    BY <1>1, <1>3, <2>1, OneIsHighest
  <2>. DEFINE N == {ix[b].class.priority : b \in likely}
  <2>4. f[t] \in N /\ \A n \in N : f[t] >= n
    BY <2>2, <2>3
  <2>. HIDE DEF N
  <2>5. Highest(N) \in N
    BY <2>4 DEF Highest
  <2>6. PICK u \in likely : ix[u].class.priority = Highest(N)
    BY <2>5 DEF N
  <2>. QED
    BY <2>6 DEF N
<1>. QED
  BY <1>1, <1>2, <1>3

\* What a pick for one provider may return, and why it finds nothing.
LEMMA SinglePick ==
    ASSUME ShardInv, NEW p \in Served, NEW tried \in SUBSET Auths, NEW ws \in BOOLEAN,
           NEW r \in Routings
    PROVE  LET found == Candidates(p, tried, ws, r) IN
           /\ \A a \in found : Free(a) /\ a \notin tried \cup r.spent
           /\ found = {} => \A a \in Of(p, meta) \ tried : Free(a) /\ meta[a].supports =>
                   a \in r.spent \/ cadence[a] > 0 \/ meta[a].record.recover > 0
<1>. DEFINE those == Of(p, meta) \ tried
            en == EnsuredEntry({p})
            ix == EnsuredIndex({p})
            manual == Manual(those, en, r)
            allowed == Allowed(Views(ix, those), r)
<1>. {p} \in SUBSET Providers /\ those \in SUBSET Auths
  BY DEF Served, Of
<1>1. Candidates(p, tried, ws, r) = IF manual # {} THEN manual ELSE Ordinary(allowed, ix, ws, r)
  BY DEF Candidates
<1>2. ASSUME NEW a \in manual PROVE Free(a) /\ a \notin tried \cup r.spent
  <2>. DEFINE pinned == {b \in Ready(en, those) : b \in r.pinned /\ r.pool[b] # 0}
  <2>1. pinned \in SUBSET Auths /\ \A b \in pinned : b \in those /\ en[b].state = "ready" /\ r.pool[b] # 0
    BY DEF Ready
  <2>2. manual \subseteq Preferred(pinned, r)
    BY DEF Manual
  <2>. HIDE DEF pinned, manual
  <2>3. a \in pinned
    BY <1>2, <2>1, <2>2, PreferredIs
  <2>4. Free(a)
    BY <2>1, <2>3, ReadyIsFree
  <2>5. a \notin r.spent
    BY <2>1, <2>3, ShardAssumption
  <2>. QED
    BY <2>1, <2>3, <2>4, <2>5
<1>3. /\ allowed \in SUBSET Auths
      /\ \A a \in allowed : a \in those /\ a \notin r.spent /\ ix[a].view = "ready"
      /\ \A a \in those : ix[a].view = "ready" => a \in allowed \/ a \in r.spent \/ cadence[a] # 0
  BY DEF Allowed, Views
<1>4. ASSUME NEW a \in allowed PROVE Free(a) /\ a \notin tried \cup r.spent /\ ix[a].class.priority \in Int
  <2>1. Free(a) /\ meta[a] \in Metas /\ ix[a].class = meta[a].class
    BY <1>3, <1>4, ReadyIsFree
  <2>2. ix[a].class.priority \in Int
    BY <2>1, MetaFacts, ShardAssumption
  <2>. QED
    BY <1>3, <1>4, <2>1, <2>2
<1>. HIDE DEF those, en, ix, manual, allowed
<1>5. Ordinary(allowed, ix, ws, r) \subseteq allowed /\
          (allowed # {} => Ordinary(allowed, ix, ws, r) # {})
  BY <1>3, <1>4, OrdinaryIs
<1>6. \A a \in Candidates(p, tried, ws, r) : Free(a) /\ a \notin tried \cup r.spent
  BY <1>1, <1>2, <1>4, <1>5
<1>7. ASSUME Candidates(p, tried, ws, r) = {}, NEW a \in those, Free(a), meta[a].supports
      PROVE  a \in r.spent \/ cadence[a] > 0 \/ meta[a].record.recover > 0
  <2>1. allowed = {}
    BY <1>1, <1>5, <1>7
  <2>2. a \in Auths /\ meta[a].provider = p /\ meta[a] \in Metas
    BY <1>7, ShardSays DEF those, Of, Free, Listed
  <2>3. CASE meta[a].record.recover = 0
    <3>1. ix[a].view = "ready"
      BY <1>7, <2>2, <2>3, ReadyIsFree DEF en, ix
    <3>2. cadence[a] \in 0..Cadence
      BY <2>2, TypesAre
    <3>3. a \in r.spent \/ cadence[a] # 0
      BY <1>3, <1>7, <2>1, <3>1
    <3>. QED
      BY <3>2, <3>3, ShardFacts
  <2>4. CASE meta[a].record.recover # 0
    BY <2>2, <2>4, MetaFacts, RecordFacts, ShardFacts
  <2>. QED
    BY <2>3, <2>4
<1>. QED
  BY <1>6, <1>7 DEF those

LEMMA MixedPick ==
    ASSUME ShardInv, NEW tried \in SUBSET Auths, NEW r \in Routings,
           NEW a \in MixedCandidates(Served, tried, r)
    PROVE  Free(a) /\ a \notin tried \cup r.spent
<1>. DEFINE ix == EnsuredIndex(Served)
            ready == Views(ix, {b \in Auths \ tried : meta[b].provider \in Served})
            top == {b \in ready : ix[b].class.priority = Highest({ix[c].class.priority : c \in ready})}
<1>1. MixedCandidates(Served, tried, r) =
          UNION {Preferred((top \cap Of(p, meta)) \ r.spent, r) : p \in Served}
  BY DEF MixedCandidates
<1>2. top \subseteq ready /\ ready \subseteq Auths \ tried /\ \A b \in ready : ix[b].view = "ready"
  BY DEF Views
<1>. HIDE DEF ix, ready, top
<1>3. PICK p \in Served : a \in Preferred((top \cap Of(p, meta)) \ r.spent, r)
  BY <1>1
<1>4. a \in top /\ a \notin r.spent
  <2>1. (top \cap Of(p, meta)) \ r.spent \in SUBSET Auths
    BY <1>2
  <2>. QED
    BY <1>3, <2>1, PreferredIs
<1>5. Free(a)
  BY <1>2, <1>4, ReadyIsFree DEF ix, Served
<1>. QED
  BY <1>2, <1>4, <1>5

\* Whoever a pick may return is free, untried and has quota left, however stale
\* the shards are, and a pick that finds nobody could have found nobody: for any
\* auths, providers, priorities and knowledge of the quotas.
THEOREM PicksAreRight == ShardSpec => []PickIsRight
<1>1. ShardInv => PickIsRight
  <2>1. ASSUME ShardInv PROVE ShardComplete
    BY <2>1 DEF ShardInv
  <2>. QED
    BY <2>1, SinglePick, MixedPick DEF PickIsRight
<1>. QED
  BY <1>1, ShardInvariance, PTL

\* A cooldown error names a time until which every auth asked for waits for its
\* quota: for any auths, providers and times.
THEOREM CooldownsAreTold == ShardSpec => []CooldownIsTold
<1>1. ASSUME ShardInv, NEW p \in Served, NEW tried \in SUBSET Auths,
             Failure(Of(p, meta) \ tried, EnsuredEntry({p})).kind = "model_cooldown",
             NEW a \in Of(p, meta) \ tried, meta[a].supports
      PROVE  LET named == Failure(Of(p, meta) \ tried, EnsuredEntry({p})) IN
             /\ meta[a].record.kind = "quota"
             /\ named.reset <= meta[a].record.retry \/ named.reset <= meta[a].record.recover
  <2>. DEFINE those == Of(p, meta) \ tried
              en == EnsuredEntry({p})
              found == {b \in those : en[b] # NoEntry}
              cooling == {b \in found : en[b].state = "cooldown"}
              N == {en[b].next : b \in cooling}
  <2>1. cooling = found /\ Failure(those, en) = Cooldown(Lowest(N))
    <3>1. \/ Failure(those, en) = NotFound \/ Failure(those, en) = Unavailable
          \/ cooling = found /\ Failure(those, en) = Cooldown(Lowest(N))
      BY DEF Failure
    <3>2. Failure(those, en).kind = "model_cooldown"
      BY <1>1
    <3>3. NotFound.kind # "model_cooldown" /\ Unavailable.kind # "model_cooldown"
      BY DEF NotFound, Unavailable
    <3>. HIDE DEF those, en, cooling, found, N
    <3>. QED
      BY <3>1, <3>2, <3>3
  <2>2. ASSUME NEW b \in those
        PROVE  SoundOf(b, meta, built \cup {p}, en, EnsuredIndex({p})) /\ b \in Auths
    BY <1>1, <2>2, EnsuredIsSound DEF Served, Of
  <2>. HIDE DEF en
  <2>3. ASSUME NEW b \in cooling
        PROVE  /\ en[b].next \in Nat /\ meta[b].record.kind = "quota"
               /\ en[b].next \in {meta[b].record.retry, meta[b].record.recover}
    BY <2>2, <2>3, ShardFacts DEF SoundOf, EntryIsTrue
  <2>4. a \in cooling
    <3>1. meta[a] # NoAuth
      BY <1>1, ShardAssumption DEF Of, Served, NoAuth
    <3>2. en[a] # NoEntry
      BY <1>1, <2>2, <3>1 DEF SoundOf, Listed, Of
    <3>. QED
      BY <1>1, <2>1, <3>2
  <2>5. N \in SUBSET Nat /\ en[a].next \in N
    BY <2>3, <2>4
  <2>. HIDE DEF cooling, N
  <2>6. Lowest(N) <= en[a].next
    BY <2>5, LowestIs
  <2>7. Failure(those, en).reset = Lowest(N)
    BY <2>1 DEF Cooldown
  <2>. QED
    BY <2>3, <2>4, <2>6, <2>7 DEF en
<1>2. ShardInv => CooldownIsTold
  BY <1>1 DEF CooldownIsTold
<1>. QED
  BY <1>2, ShardInvariance, PTL

-----------------------------------------------------------------------------
(* ModelRegistry: occurrences.                                             *)

\* How often clients list a model, by the number of times each one does.
TimesListed(b, m, cs) == Cardinality({e \in cs \X (1..MaxListed) : e[2] <= b[e[1]][m]})

Bounds == [Clients -> [Models -> 0..MaxListed]]

\* The occurrences in the lists of all these clients are those of one of them and
\* those of the others.
LEMMA OneAndOthers ==
    ASSUME NEW b \in Bounds, NEW m \in Models, NEW cs \in SUBSET Clients
    PROVE  /\ TimesListed(b, m, cs) \in Nat
           /\ \A c \in cs : TimesListed(b, m, cs) = TimesListed(b, m, cs \ {c}) + b[c][m]
           /\ \A ds \in SUBSET cs : TimesListed(b, m, ds) <= TimesListed(b, m, cs)
<1>. DEFINE Listings(ds) == {e \in ds \X (1..MaxListed) : e[2] <= b[e[1]][m]}
<1>0. MaxListed \in Nat /\ IsFiniteSet(1..MaxListed)
  BY RegistryAssumption, FS_Interval
<1>1. \A ds \in SUBSET cs : IsFiniteSet(Listings(ds)) /\ Cardinality(Listings(ds)) \in Nat
  <2>. SUFFICES ASSUME NEW ds \in SUBSET cs
                PROVE  IsFiniteSet(Listings(ds)) /\ Cardinality(Listings(ds)) \in Nat
    OBVIOUS
  <2>1. IsFiniteSet(ds)
    BY RegistryAssumption, FS_Subset
  <2>2. IsFiniteSet(ds \X (1..MaxListed))
    BY <1>0, <2>1, FS_Product
  <2>3. Listings(ds) \subseteq ds \X (1..MaxListed)
    OBVIOUS
  <2>. HIDE DEF Listings
  <2>. QED
    BY <2>2, <2>3, FS_Subset, FS_CardinalityType
<1>2. ASSUME NEW c \in cs PROVE Cardinality(Listings(cs)) = Cardinality(Listings(cs \ {c})) + b[c][m]
  <2>. DEFINE n == b[c][m]
              f == [i \in 1..n |-> <<c, i>>]
  <2>1. n \in 0..MaxListed
    BY DEF Bounds
  <2>2. f \in Bijection(1..n, Listings({c}))
    <3>1. \A i \in 1..n : f[i] \in Listings({c})
      BY <1>0, <2>1
    <3>2. \A e \in Listings({c}) : e[2] \in 1..n /\ f[e[2]] = e
      BY <1>0, <2>1
    <3>3. \A i, j \in 1..n : f[i] = f[j] => i = j
      OBVIOUS
    <3>. HIDE DEF Listings
    <3>4. f \in [1..n -> Listings({c})]
      BY <3>1
    <3>. QED
      BY <3>2, <3>3, <3>4 DEF Bijection, Injection, Surjection, IsInjective
  <2>3. Cardinality(Listings({c})) = n
    <3>. HIDE DEF n, f, Listings
    <3>1. n \in Nat /\ 1 \in Int /\ n \in Int
      BY <1>0, <2>1
    <3>2. IsFiniteSet(1..n) /\ Cardinality(1..n) = IF 1 > n THEN 0 ELSE n - 1 + 1
      BY <3>1, FS_Interval
    <3>3. Cardinality(1..n) = n
      BY <3>1, <3>2
    <3>. QED
      BY <2>2, <3>2, <3>3, FS_Bijection DEF ExistsBijection
  <2>4. /\ Listings(cs) = Listings({c}) \cup Listings(cs \ {c})
        /\ Listings({c}) \cap Listings(cs \ {c}) = {}
    OBVIOUS
  <2>5. /\ IsFiniteSet(Listings({c})) /\ IsFiniteSet(Listings(cs \ {c}))
        /\ Cardinality(Listings(cs \ {c})) \in Nat
    BY <1>1
  <2>6. n \in Int
    BY <1>0, <2>1
  <2>. HIDE DEF Listings, n
  <2>7. Cardinality(Listings(cs)) = Cardinality(Listings({c})) + Cardinality(Listings(cs \ {c}))
                                      - Cardinality({})
    BY <2>4, <2>5, FS_Union
  <2>8. Cardinality(Listings(cs)) = Cardinality(Listings(cs \ {c})) + n
    BY <2>3, <2>5, <2>6, <2>7, FS_EmptySet
  <2>. QED
    BY <2>8 DEF n
<1>3. ASSUME NEW ds \in SUBSET cs PROVE Cardinality(Listings(ds)) <= Cardinality(Listings(cs))
  <2>1. Listings(ds) \subseteq Listings(cs) /\ IsFiniteSet(Listings(cs))
    BY <1>1
  <2>. HIDE DEF Listings
  <2>. QED
    BY <2>1, FS_Subset
<1>4. \A ds : TimesListed(b, m, ds) = Cardinality(Listings(ds))
  BY DEF TimesListed
<1>. HIDE DEF Listings
<1>. QED
  BY <1>1, <1>2, <1>3, <1>4

\* What one client adds to the counters of a model, and what the others do.
ProvidersOf == [Clients -> Providers \cup {NoProvider}]
ClientsOf(pr, q) == {d \in Clients : pr[d] = q}
Share(q, p, n) == IF q = p THEN n ELSE 0

LEMMA OneClient ==
    ASSUME NEW b \in Bounds, NEW pr \in ProvidersOf, NEW c \in Clients, NEW m \in Models
    PROVE  /\ TimesListed(b, m, Clients \ {c}) \in Nat
           /\ TimesListed(b, m, Clients) = TimesListed(b, m, Clients \ {c}) + b[c][m]
           /\ \A q \in Providers :
                     /\ TimesListed(b, m, ClientsOf(pr, q) \ {c}) \in Nat
                     /\ TimesListed(b, m, ClientsOf(pr, q) \ {c}) <= TimesListed(b, m, Clients \ {c})
                     /\ TimesListed(b, m, ClientsOf(pr, q))
                          = TimesListed(b, m, ClientsOf(pr, q) \ {c}) + Share(q, pr[c], b[c][m])
<1>1. /\ TimesListed(b, m, Clients \ {c}) \in Nat
      /\ TimesListed(b, m, Clients) = TimesListed(b, m, Clients \ {c}) + b[c][m]
  BY OneAndOthers
<1>2. ASSUME NEW q \in Providers
      PROVE  /\ TimesListed(b, m, ClientsOf(pr, q) \ {c}) \in Nat
             /\ TimesListed(b, m, ClientsOf(pr, q) \ {c}) <= TimesListed(b, m, Clients \ {c})
             /\ TimesListed(b, m, ClientsOf(pr, q))
                  = TimesListed(b, m, ClientsOf(pr, q) \ {c}) + Share(q, pr[c], b[c][m])
  <2>1. /\ ClientsOf(pr, q) \in SUBSET Clients /\ ClientsOf(pr, q) \ {c} \in SUBSET (Clients \ {c})
        /\ Clients \ {c} \in SUBSET Clients
    BY DEF ClientsOf
  <2>2. TimesListed(b, m, ClientsOf(pr, q) \ {c}) <= TimesListed(b, m, Clients \ {c})
    BY <2>1, OneAndOthers
  <2>3. TimesListed(b, m, ClientsOf(pr, q) \ {c}) \in Nat
    BY <2>1, OneAndOthers
  <2>4. CASE pr[c] = q
    BY <2>1, <2>2, <2>3, <2>4, OneAndOthers DEF ClientsOf, Share
  <2>5. CASE pr[c] # q
    <3>1. ClientsOf(pr, q) \ {c} = ClientsOf(pr, q)
      BY <2>5 DEF ClientsOf
    <3>. QED
      BY <2>2, <2>3, <2>5, <3>1 DEF Share
  <2>. QED
    BY <2>4, <2>5
<1>. QED
  BY <1>1, <1>2

\* Another list of one client changes nothing of what the others add.
LEMMA OthersStay ==
    ASSUME NEW b \in Bounds, NEW b2 \in Bounds, NEW c \in Clients, NEW m \in Models,
           \A d \in Clients \ {c} : b2[d] = b[d], NEW cs \in SUBSET (Clients \ {c})
    PROVE  TimesListed(b2, m, cs) = TimesListed(b, m, cs)
<1>1. \A e \in cs \X (1..MaxListed) : b2[e[1]] = b[e[1]]
  OBVIOUS
<1>. QED
  BY <1>1 DEF TimesListed

-----------------------------------------------------------------------------
(* ModelRegistry: registrations.                                           *)

LEMMA RegistrationIs ==
    ASSUME NEW reg \in Registration
    PROVE  /\ reg.count \in Nat /\ reg.providers \in [Providers -> Nat]
           /\ reg.quota \in [Clients -> 0..Window]
           /\ reg.suspended \in [Clients -> {"no", "quota", "other"}]
BY DEF Registration

LEMMA UnmarkedIs ==
    ASSUME NEW reg \in Registration, NEW c \in Clients
    PROVE  /\ Unmarked(reg, c) \in Registration
           /\ Unmarked(reg, c).count = reg.count /\ Unmarked(reg, c).providers = reg.providers
<1>1. 0 \in 0..Window
  BY RegistryAssumption
<1>. QED
  BY <1>1 DEF Unmarked, Registration

LEMMA AddedIs ==
    ASSUME NEW reg \in Registration, NEW p, NEW n \in Nat
    PROVE  /\ Added(reg, p, n) \in Registration
           /\ Added(reg, p, n).count = reg.count + n
           /\ \A q \in Providers :
                 Added(reg, p, n).providers[q] = reg.providers[q] + Share(q, p, n)
<1>. DEFINE served == [q \in Providers |-> IF q = p THEN reg.providers[q] + n ELSE reg.providers[q]]
<1>1. Added(reg, p, n) = [reg EXCEPT !.count = reg.count + n, !.providers = served]
  BY DEF Added
<1>2. reg.count + n \in Nat /\ served \in [Providers -> Nat]
  BY RegistrationIs
<1>3. \A q \in Providers : served[q] = reg.providers[q] + Share(q, p, n)
  BY RegistrationIs DEF Share
<1>. HIDE DEF served
<1>. QED
  BY <1>1, <1>2, <1>3 DEF Registration

LEMMA ProvidedIs ==
    ASSUME NEW reg \in Registration, NEW p, NEW n \in Nat
    PROVE  /\ Provided(reg, p, n) \in Registration
           /\ Provided(reg, p, n).count = reg.count
           /\ \A q \in Providers :
                 Provided(reg, p, n).providers[q] = reg.providers[q] + Share(q, p, n)
BY DEF Provided, Registration, Share

LEMMA WithdrawnIs ==
    ASSUME NEW reg \in Registration, NEW p, NEW n \in Nat
    PROVE  /\ Withdrawn(reg, p, n) \in Registration
           /\ Withdrawn(reg, p, n).count = reg.count
           /\ \A q \in Providers :
                 Withdrawn(reg, p, n).providers[q] = IF q = p THEN Less(reg.providers[q], n)
                                                     ELSE reg.providers[q]
<1>1. \A k \in Nat : Less(k, n) \in Nat
  BY DEF Less
<1>. QED
  BY <1>1 DEF Withdrawn, Registration

\* What remains of a registration whose counters are n above x and y.
LEMMA RemovedIs ==
    ASSUME NEW reg \in Registration, NEW c \in Clients, NEW p, NEW n \in Nat,
           NEW x \in Nat, NEW y \in [Providers -> Nat], \A q \in Providers : y[q] <= x,
           reg.count = x + n,
           \A q \in Providers : reg.providers[q] = y[q] + Share(q, p, n)
    PROVE  /\ Removed(reg, c, p, n) \in Registration
           /\ Removed(reg, c, p, n).count = x
           /\ \A q \in Providers : Removed(reg, c, p, n).providers[q] = y[q]
<1>1. CASE reg.count <= n
  <2>1. x = 0 /\ \A q \in Providers : y[q] = 0
    BY <1>1
  <2>2. 0 \in 0..Window
    BY RegistryAssumption
  <2>. QED
    BY <1>1, <2>1, <2>2 DEF Removed, Unregistered, Registration
<1>2. CASE ~(reg.count <= n)
  <2>. DEFINE u == Unmarked(reg, c)
  <2>1. u \in Registration /\ u.count = reg.count /\ u.providers = reg.providers
    BY UnmarkedIs
  <2>2. Removed(reg, c, p, n) =
          [u EXCEPT !.count = @ - n,
                    !.providers = [q \in Providers |-> IF q = p THEN Less(@[q], n) ELSE @[q]]]
    BY <1>2 DEF Removed
  <2>. HIDE DEF u
  <2>3. \A q \in Providers : (IF q = p THEN Less(u.providers[q], n) ELSE u.providers[q]) = y[q]
    BY <2>1 DEF Less, Share
  <2>4. [q \in Providers |-> IF q = p THEN Less(u.providers[q], n) ELSE u.providers[q]] = y
    BY <2>3
  <2>5. u.count - n = x
    BY <2>1
  <2>6. Removed(reg, c, p, n) = [u EXCEPT !.count = x, !.providers = y]
    BY <2>2, <2>4, <2>5
  <2>. QED
    BY <2>1, <2>6 DEF Registration
<1>. QED
  BY <1>1, <1>2

\* The counters are n for p above those of the others.
OfOthers(x, y) == x \in Nat /\ y \in [Providers -> Nat] /\ \A q \in Providers : y[q] <= x
Counts(reg, x, y, p, n) ==
    /\ reg \in Registration /\ reg.count = x + n
    /\ \A q \in Providers : reg.providers[q] = y[q] + Share(q, p, n)

\* RegisterClient replaces, in the counters of a model, what the client listed by
\* what it lists now.
LEMMA ReconciledIs ==
    ASSUME NEW reg, NEW c \in Clients, NEW p, NEW old \in Nat, NEW new \in Nat, NEW x, NEW y,
           OfOthers(x, y), Counts(reg, x, y, provider[c], old)
    PROVE  Counts(Reconciled(reg, c, old, new, p), x, y, p, new)
<1>. SUFFICES ASSUME x \in Nat, y \in [Providers -> Nat], \A q \in Providers : y[q] <= x,
                     reg \in Registration, reg.count = x + old,
                     \A q \in Providers : reg.providers[q] = y[q] + Share(q, provider[c], old)
              PROVE  /\ Reconciled(reg, c, old, new, p) \in Registration
                     /\ Reconciled(reg, c, old, new, p).count = x + new
                     /\ \A q \in Providers :
                           Reconciled(reg, c, old, new, p).providers[q] = y[q] + Share(q, p, new)
  BY DEF OfOthers, Counts
<1>. DEFINE moving == IF p # provider[c] /\ new > 0
                      THEN Withdrawn(reg, provider[c], Least(old, new)) ELSE reg
            fewer == IF old > new THEN Removed(moving, c, provider[c], old - new) ELSE moving
            more == IF new > old THEN Added(fewer, p, new - old) ELSE fewer
            result == IF new > 0 THEN Moved(more, c, old, new, p) ELSE more
            \* The counters of the others and what stays with the old provider.
            kept == [q \in Providers |-> y[q] + (IF q = provider[c] /\ p = provider[c] THEN Least(old, new) ELSE 0)]
<1>0. Reconciled(reg, c, old, new, p) = result
  BY DEF Reconciled
<1>1. Least(old, new) \in Nat /\ Least(old, new) <= old /\ Least(old, new) <= new
  BY DEF Least
<1>2. /\ kept \in [Providers -> Nat]
      /\ \A q \in Providers : kept[q] <= x + Least(old, new)
      /\ \A q \in Providers :
            kept[q] = y[q] + (IF q = provider[c] /\ p = provider[c] THEN Least(old, new) ELSE 0)
  BY <1>1
<1>. HIDE DEF kept
<1>3. /\ moving \in Registration /\ moving.count = x + old
      /\ \A q \in Providers : moving.providers[q]
            = kept[q] + Share(q, provider[c], old - Least(old, new))
  <2>1. CASE p # provider[c] /\ new > 0
    <3>1. moving = Withdrawn(reg, provider[c], Least(old, new))
      BY <2>1
    <3>. HIDE DEF moving
    <3>2. moving \in Registration /\ moving.count = x + old
      BY <1>1, <3>1, WithdrawnIs
    <3>3. ASSUME NEW q \in Providers
          PROVE  moving.providers[q] = kept[q] + Share(q, provider[c], old - Least(old, new))
      <4>1. moving.providers[q] = IF q = provider[c] THEN Less(reg.providers[q], Least(old, new))
                                  ELSE reg.providers[q]
        BY <1>1, <3>1, WithdrawnIs
      <4>2. y[q] \in Nat
        OBVIOUS
      <4>3. reg.providers[q] = y[q] + Share(q, provider[c], old) /\ kept[q] = y[q]
        BY <1>2, <2>1
      <4>4. CASE q = provider[c]
        BY <1>1, <4>1, <4>2, <4>3, <4>4 DEF Less, Share
      <4>5. CASE q # provider[c]
        BY <4>1, <4>2, <4>3, <4>5 DEF Share
      <4>. QED
        BY <4>4, <4>5
    <3>. QED
      BY <3>2, <3>3
  <2>2. CASE ~(p # provider[c] /\ new > 0)
    <3>1. moving = reg
      BY <2>2
    <3>. HIDE DEF moving
    <3>2. ASSUME NEW q \in Providers
          PROVE  reg.providers[q] = kept[q] + Share(q, provider[c], old - Least(old, new))
      <4>1. y[q] \in Nat
        OBVIOUS
      <4>2. CASE p = provider[c]
        BY <1>1, <1>2, <4>1, <4>2 DEF Share
      <4>3. CASE p # provider[c]
        <5>1. Least(old, new) = 0
          BY <2>2, <4>3 DEF Least
        <5>. QED
          BY <1>2, <4>1, <4>3, <5>1
      <4>. QED
        BY <4>2, <4>3
    <3>. QED
      BY <3>1, <3>2
  <2>. QED
    BY <2>1, <2>2
<1>. HIDE DEF moving
<1>4. /\ fewer \in Registration /\ fewer.count = x + Least(old, new)
      /\ \A q \in Providers : fewer.providers[q] = kept[q]
  <2>1. CASE old > new
    <3>1. fewer = Removed(moving, c, provider[c], old - new) /\ Least(old, new) = new
      BY <2>1 DEF Least
    <3>2. old - new \in Nat /\ x + new \in Nat /\ x + old = (x + new) + (old - new)
      BY <2>1
    <3>. HIDE DEF fewer
    <3>. QED
      BY <1>2, <1>3, <3>1, <3>2, RemovedIs
  <2>2. CASE ~(old > new)
    <3>1. fewer = moving /\ Least(old, new) = old
      BY <2>2 DEF Least
    <3>. HIDE DEF fewer
    <3>2. \A q \in Providers : kept[q] \in Nat
      BY <1>2
    <3>. QED
      BY <1>3, <3>1, <3>2 DEF Share
  <2>. QED
    BY <2>1, <2>2
<1>. HIDE DEF fewer
<1>5. /\ more \in Registration /\ more.count = x + new
      /\ \A q \in Providers : more.providers[q]
            = kept[q] + Share(q, p, new - Least(old, new))
  <2>1. CASE new > old
    <3>1. more = Added(fewer, p, new - old) /\ Least(old, new) = old /\ new - old \in Nat
      BY <2>1 DEF Least
    <3>. HIDE DEF more
    <3>. QED
      BY <1>4, <3>1, AddedIs
  <2>2. CASE ~(new > old)
    <3>1. more = fewer /\ Least(old, new) = new
      BY <2>2 DEF Least
    <3>. HIDE DEF more
    <3>2. \A q \in Providers : kept[q] \in Nat
      BY <1>2
    <3>. QED
      BY <1>4, <3>1, <3>2 DEF Share
  <2>. QED
    BY <2>1, <2>2
<1>. HIDE DEF more
<1>6. /\ result \in Registration /\ result.count = x + new
      /\ \A q \in Providers : result.providers[q] = y[q] + Share(q, p, new)
  <2>. DEFINE fresh == Unmarked(more, c)
  <2>1. fresh \in Registration /\ fresh.count = more.count /\ fresh.providers = more.providers
    BY <1>5, UnmarkedIs
  <2>2. CASE new > 0 /\ p # provider[c]
    <3>1. result = Provided(fresh, p, Least(old, new))
      BY <2>2 DEF Moved
    <3>. HIDE DEF result, fresh
    <3>2. ASSUME NEW q \in Providers PROVE result.providers[q] = y[q] + Share(q, p, new)
      <4>1. result.providers[q] = more.providers[q] + Share(q, p, Least(old, new))
        BY <1>1, <2>1, <3>1, ProvidedIs
      <4>2. kept[q] = y[q] /\ y[q] \in Nat
        BY <1>2, <2>2
      <4>. QED
        BY <1>1, <1>5, <4>1, <4>2 DEF Share
    <3>. QED
      BY <1>1, <1>5, <2>1, <3>1, <3>2, ProvidedIs
  <2>3. CASE ~(new > 0 /\ p # provider[c])
    <3>1. result = fresh \/ result = more
      BY <2>3 DEF Moved
    <3>. HIDE DEF result, fresh
    <3>2. ASSUME NEW q \in Providers PROVE more.providers[q] = y[q] + Share(q, p, new)
      <4>1. y[q] \in Nat
        OBVIOUS
      <4>2. CASE p = provider[c]
        BY <1>1, <1>2, <1>5, <4>1, <4>2 DEF Share
      <4>3. CASE p # provider[c]
        <5>1. new = 0 /\ Least(old, new) = 0
          BY <1>1, <2>3, <4>3
        <5>. QED
          BY <1>2, <1>5, <4>1, <4>3, <5>1
      <4>. QED
        BY <4>2, <4>3
    <3>. QED
      BY <1>5, <2>1, <3>1, <3>2
  <2>. QED
    BY <2>2, <2>3
<1>. QED
  BY <1>0, <1>6

-----------------------------------------------------------------------------
(* ModelRegistry: the invariant.                                           *)

\* The cached list is the present one, and is dropped before a mark expires.
CacheIsTimely ==
    cache # NoCache => \A m \in Models, c \in Clients :
        models[m].quota[c] = 0 \/ models[m].quota[c] >= cache.expires

\* Who still has calls to make knows for which client.
ReportersKnow == \A r \in Reporters : report[r].calls # <<>> => report[r].client \in Clients

RegistryInv == RegistryTypeOK /\ CountsMatch /\ CacheFresh /\ CacheIsTimely /\ ReportersKnow

\* The counters, for lists b and providers pr.
CountsAre(ms, b, pr) ==
    \A m \in Models :
        /\ ms[m].count = TimesListed(b, m, Clients)
        /\ \A p \in Providers : ms[m].providers[p] = TimesListed(b, m, ClientsOf(pr, p))

LEMMA CountsMatchIs ==
    /\ CountsMatch <=> CountsAre(models, bound, provider)
    /\ CountsMatch' <=> CountsAre(models', bound', provider')
<1>1. \A m, cs : Occurrences(m, cs) = TimesListed(bound, m, cs)
  BY DEF Occurrences, TimesListed
<1>2. \A m, cs : Occurrences(m, cs)' = TimesListed(bound', m, cs)
  BY DEF Occurrences, TimesListed
<1>3. CountsMatch <=> CountsAre(models, bound, provider)
  BY <1>1 DEF CountsMatch, ClientsOf, CountsAre
<1>4. CountsMatch' <=> CountsAre(models', bound', provider')
  BY <1>2 DEF CountsMatch, ClientsOf, CountsAre
<1>. QED
  BY <1>3, <1>4

\* The counters before and after one client's list is replaced.
LEMMA ListReplaced ==
    ASSUME NEW c \in Clients, NEW m \in Models,
           bound \in Bounds, bound' \in Bounds, provider \in ProvidersOf, provider' \in ProvidersOf,
           \A d \in Clients \ {c} : bound'[d] = bound[d] /\ provider'[d] = provider[d]
    PROVE  /\ TimesListed(bound, m, Clients \ {c}) \in Nat
           /\ TimesListed(bound, m, Clients) = TimesListed(bound, m, Clients \ {c}) + bound[c][m]
           /\ TimesListed(bound', m, Clients) = TimesListed(bound', m, Clients \ {c}) + bound'[c][m]
           /\ TimesListed(bound', m, Clients \ {c}) = TimesListed(bound, m, Clients \ {c})
           /\ \A q \in Providers :
                 /\ TimesListed(bound, m, ClientsOf(provider, q) \ {c}) \in Nat
                 /\ TimesListed(bound, m, ClientsOf(provider, q) \ {c}) <= TimesListed(bound, m, Clients \ {c})
                 /\ TimesListed(bound, m, ClientsOf(provider, q))
                      = TimesListed(bound, m, ClientsOf(provider, q) \ {c}) + Share(q, provider[c], bound[c][m])
                 /\ TimesListed(bound', m, ClientsOf(provider', q))
                      = TimesListed(bound', m, ClientsOf(provider', q) \ {c})
                          + Share(q, provider'[c], bound'[c][m])
                 /\ TimesListed(bound', m, ClientsOf(provider', q) \ {c})
                      = TimesListed(bound, m, ClientsOf(provider, q) \ {c})
<1>1. /\ TimesListed(bound, m, Clients \ {c}) \in Nat
      /\ TimesListed(bound, m, Clients) = TimesListed(bound, m, Clients \ {c}) + bound[c][m]
  BY OneClient
<1>2. TimesListed(bound', m, Clients) = TimesListed(bound', m, Clients \ {c}) + bound'[c][m]
  BY OneClient
<1>3. TimesListed(bound', m, Clients \ {c}) = TimesListed(bound, m, Clients \ {c})
  BY OthersStay
<1>4. ASSUME NEW q \in Providers
      PROVE  /\ TimesListed(bound, m, ClientsOf(provider, q) \ {c}) \in Nat
             /\ TimesListed(bound, m, ClientsOf(provider, q) \ {c}) <= TimesListed(bound, m, Clients \ {c})
  BY OneClient
<1>5. ASSUME NEW q \in Providers
      PROVE  TimesListed(bound, m, ClientsOf(provider, q))
               = TimesListed(bound, m, ClientsOf(provider, q) \ {c}) + Share(q, provider[c], bound[c][m])
  BY OneClient
<1>6. ASSUME NEW q \in Providers
      PROVE  TimesListed(bound', m, ClientsOf(provider', q))
               = TimesListed(bound', m, ClientsOf(provider', q) \ {c}) + Share(q, provider'[c], bound'[c][m])
  BY OneClient
<1>7. ASSUME NEW q \in Providers
      PROVE  TimesListed(bound', m, ClientsOf(provider', q) \ {c})
               = TimesListed(bound, m, ClientsOf(provider, q) \ {c})
  <2>1. /\ ClientsOf(provider', q) \ {c} = ClientsOf(provider, q) \ {c}
        /\ ClientsOf(provider, q) \ {c} \in SUBSET (Clients \ {c})
    BY DEF ClientsOf
  <2>2. TimesListed(bound', m, ClientsOf(provider, q) \ {c}) = TimesListed(bound, m, ClientsOf(provider, q) \ {c})
    BY <2>1, OthersStay
  <2>. QED
    BY <2>1, <2>2
<1>. QED
  BY <1>1, <1>2, <1>3, <1>4, <1>5, <1>6, <1>7

\* A client registers a list, another one, the same under another provider, or none.
LEMMA RegisterKeeps ==
    ASSUME RegistryTypeOK, CountsMatch, ReportersKnow, NEW c \in Clients, NEW p \in Providers \cup {NoProvider},
           NEW list \in [Models -> 0..MaxListed], RegisterClient(c, p, list)
    PROVE  RegistryInv'
<1>. DEFINE np == IF list = EmptyList THEN NoProvider ELSE p
<1>1. /\ bound \in Bounds /\ bound' = [bound EXCEPT ![c] = list] /\ bound' \in Bounds
      /\ provider' = [provider EXCEPT ![c] = np]
      /\ provider \in ProvidersOf /\ provider' \in ProvidersOf
  BY DEF RegistryTypeOK, RegisterClient, Bounds, ProvidersOf
<1>2. \A d \in Clients \ {c} : bound'[d] = bound[d] /\ provider'[d] = provider[d]
  BY <1>1 DEF Bounds, ProvidersOf
<1>3. bound'[c] = list /\ provider'[c] = np
  BY <1>1 DEF Bounds, ProvidersOf
<1>4. ASSUME NEW m \in Models
      PROVE  /\ models'[m] \in Registration
             /\ models'[m].count = TimesListed(bound', m, Clients)
             /\ \A q \in Providers :
                   models'[m].providers[q] = TimesListed(bound', m, ClientsOf(provider', q))
  <2>1. /\ TimesListed(bound, m, Clients \ {c}) \in Nat
        /\ TimesListed(bound, m, Clients) = TimesListed(bound, m, Clients \ {c}) + bound[c][m]
        /\ TimesListed(bound', m, Clients) = TimesListed(bound', m, Clients \ {c}) + bound'[c][m]
        /\ TimesListed(bound', m, Clients \ {c}) = TimesListed(bound, m, Clients \ {c})
    BY <1>1, <1>2, ListReplaced
  <2>2. ASSUME NEW q \in Providers
        PROVE  /\ TimesListed(bound, m, ClientsOf(provider, q) \ {c}) \in Nat
               /\ TimesListed(bound, m, ClientsOf(provider, q) \ {c}) <= TimesListed(bound, m, Clients \ {c})
               /\ TimesListed(bound, m, ClientsOf(provider, q))
                    = TimesListed(bound, m, ClientsOf(provider, q) \ {c}) + Share(q, provider[c], bound[c][m])
    BY <1>1, <1>2, ListReplaced
  <2>3. ASSUME NEW q \in Providers
        PROVE  /\ TimesListed(bound', m, ClientsOf(provider', q))
                    = TimesListed(bound', m, ClientsOf(provider', q) \ {c})
                        + Share(q, provider'[c], bound'[c][m])
               /\ TimesListed(bound', m, ClientsOf(provider', q) \ {c})
                    = TimesListed(bound, m, ClientsOf(provider, q) \ {c})
    <3>1. bound \in Bounds /\ bound' \in Bounds /\ provider \in ProvidersOf /\ provider' \in ProvidersOf
      BY <1>1
    <3>. QED
      BY <1>2, <3>1, ListReplaced
  <2>4. /\ models[m].count = TimesListed(bound, m, Clients)
        /\ \A q \in Providers : models[m].providers[q] = TimesListed(bound, m, ClientsOf(provider, q))
    BY CountsMatchIs DEF CountsAre
  <2>. DEFINE reg == models[m]
              old == bound[c][m]
              new == list[m]
              x == TimesListed(bound, m, Clients \ {c})
              y == [q \in Providers |-> TimesListed(bound, m, ClientsOf(provider, q) \ {c})]
  <2>5. reg \in Registration /\ old \in Nat /\ new \in Nat
    BY <1>1, RegistryAssumption DEF RegistryTypeOK, Bounds
  <2>6. x \in Nat /\ y \in [Providers -> Nat] /\ \A q \in Providers : y[q] <= x
    BY <2>1, <2>2
  <2>7. /\ reg.count = x + old
        /\ \A q \in Providers : reg.providers[q] = y[q] + Share(q, provider[c], old)
    BY <2>1, <2>2, <2>4
  <2>8. TimesListed(bound', m, Clients) = x + new
    BY <1>3, <2>1
  <2>9. ASSUME NEW q \in Providers
        PROVE  TimesListed(bound', m, ClientsOf(provider', q)) = y[q] + Share(q, np, new)
    <3>1. y[q] = TimesListed(bound', m, ClientsOf(provider', q) \ {c})
      BY <2>3
    <3>. HIDE DEF y, np
    <3>. QED
      BY <1>3, <2>3, <3>1
  <2>. HIDE DEF x, y, reg, old, new
  <2>10. /\ models'[m] \in Registration /\ models'[m].count = x + new
        /\ \A q \in Providers : models'[m].providers[q] = y[q] + Share(q, np, new)
    <3>1. CASE list = EmptyList
      <4>1. new = 0 /\ np = NoProvider
        BY <3>1 DEF EmptyList, new
      <4>2. models'[m] = IF old > 0 THEN Removed(reg, c, provider[c], old) ELSE reg
        BY <3>1 DEF RegisterClient, Deregistered, reg, old
      <4>. HIDE DEF np
      <4>3. CASE old > 0
        <5>1. models'[m] = Removed(reg, c, provider[c], old)
          BY <4>2, <4>3
        <5>2. /\ models'[m] \in Registration /\ models'[m].count = x
              /\ \A q \in Providers : models'[m].providers[q] = y[q]
          BY <2>5, <2>6, <2>7, <5>1, RemovedIs
        <5>. QED
          BY <2>6, <4>1, <5>2 DEF Share
      <4>4. CASE ~(old > 0)
        <5>1. models'[m] = reg /\ old = 0
          BY <2>5, <4>2, <4>4
        <5>. QED
          BY <2>5, <2>6, <2>7, <4>1, <5>1 DEF Share
      <4>. QED
        BY <4>3, <4>4
    <3>2. CASE list # EmptyList /\ bound[c] # EmptyList
      <4>1. models'[m] = Reconciled(reg, c, old, new, p) /\ np = p
        BY <3>2 DEF RegisterClient, reg, old, new
      <4>. HIDE DEF np
      <4>2. OfOthers(x, y) /\ Counts(reg, x, y, provider[c], old)
        BY <2>5, <2>6, <2>7 DEF OfOthers, Counts
      <4>3. Counts(models'[m], x, y, np, new)
        BY <2>5, <4>1, <4>2, ReconciledIs
      <4>. QED
        BY <4>3 DEF Counts
    <3>3. CASE list # EmptyList /\ bound[c] = EmptyList
      <4>1. /\ models'[m] = IF new > 0 THEN Added(reg, p, new) ELSE reg
            /\ np = p /\ old = 0
        BY <3>3 DEF RegisterClient, EmptyList, reg, old, new
      <4>. HIDE DEF np
      <4>2. CASE new > 0
        <5>1. /\ models'[m] \in Registration /\ models'[m].count = reg.count + new
              /\ \A q \in Providers :
                    models'[m].providers[q] = reg.providers[q] + Share(q, p, new)
          BY <2>5, <4>1, <4>2, AddedIs
        <5>2. \A q \in Providers : reg.providers[q] = y[q]
          BY <2>6, <2>7, <4>1 DEF Share
        <5>. QED
          BY <2>5, <2>6, <2>7, <4>1, <5>1, <5>2
      <4>3. CASE ~(new > 0)
        <5>1. models'[m] = reg /\ new = 0
          BY <2>5, <4>1, <4>3
        <5>. QED
          BY <2>5, <2>6, <2>7, <4>1, <5>1 DEF Share
      <4>. QED
        BY <4>2, <4>3
    <3>. QED
      BY <3>1, <3>2, <3>3
  <2>. HIDE DEF np
  <2>. QED
    BY <2>8, <2>9, <2>10
<1>5. CountsMatch'
  BY <1>4, CountsMatchIs DEF CountsAre
<1>6. models' \in [Models -> Registration]
  <2>1. models' = [m \in Models |-> models'[m]]
    BY DEF RegisterClient, Deregistered
  <2>. QED
    BY <1>4, <2>1
<1>7. RegistryTypeOK'
  BY <1>1, <1>6 DEF RegistryTypeOK, RegisterClient, Bounds, ProvidersOf
<1>8. cache' = NoCache
  BY DEF RegisterClient
<1>. QED
  BY <1>5, <1>7, <1>8 DEF RegistryInv, CacheFresh, CacheIsTimely, RegisterClient, ReportersKnow

-----------------------------------------------------------------------------
(* ModelRegistry: marks, the cached list and time.                         *)

\* What leaves the counters and the lists alone keeps them right.
LEMMA CountersStay ==
    ASSUME CountsMatch, UNCHANGED <<bound, provider>>,
           \A m \in Models : models'[m].count = models[m].count /\ models'[m].providers = models[m].providers
    PROVE  CountsMatch'
BY CountsMatchIs DEF CountsAre

LEMMA AvailableAlike ==
    ASSUME NEW r \in Registration, NEW s \in Registration, r.count = s.count,
           r.suspended = s.suspended, \A c \in Clients : r.quota[c] > 0 <=> s.quota[c] > 0
    PROVE  Available(r) <=> Available(s)
<1>1. OverQuota(r) = OverQuota(s) /\ \A reasons : Suspended(r, reasons) = Suspended(s, reasons)
  BY DEF OverQuota, Suspended
<1>. QED
  BY <1>1 DEF Available

LEMMA MarkedIs ==
    ASSUME NEW reg \in Registration, NEW c \in Clients, NEW call
    PROVE  /\ Marked(reg, c, call) \in Registration
           /\ Marked(reg, c, call).count = reg.count
           /\ Marked(reg, c, call).providers = reg.providers
<1>1. 0 \in 0..Window /\ Window \in 0..Window
  BY RegistryAssumption
<1>. QED
  BY <1>1 DEF Marked, Registration

LEMMA ReportsAre ==
    ASSUME RegistryTypeOK, ReportersKnow, NEW r \in Reporters, report[r].calls # <<>>
    PROVE  /\ report[r].model \in Models /\ report[r].client \in Clients
           /\ Tail(report[r].calls) \in Seq(Calls) /\ NoReport.calls = <<>>
           /\ NoReport \in [client: Clients \cup {NoClient}, model: Models, calls: Seq(Calls)]
<1>1. (CHOOSE m \in Models : TRUE) \in Models
  BY RegistryAssumption
<1>. QED
  BY <1>1 DEF RegistryTypeOK, NoReport, ReportersKnow

LEMMA MakeCallKeeps == ASSUME RegistryInv, NEW r \in Reporters, MakeCall(r) PROVE RegistryInv'
<1>. DEFINE m == report[r].model
            call == Head(report[r].calls)
            reg == Marked(models[m], report[r].client, call)
<1>1. /\ report[r].calls # <<>> /\ UNCHANGED <<bound, provider>>
      /\ models' = IF models[m].count > 0 THEN [models EXCEPT ![m] = reg] ELSE models
      /\ cache' = IF Invalidated(m, reg, call) THEN NoCache ELSE cache
      /\ report' = [report EXCEPT ![r] = IF Len(report[r].calls) = 1 THEN NoReport
                       ELSE [report[r] EXCEPT !.calls = Tail(report[r].calls)]]
  <2>1. report[r].calls # <<>> /\ UNCHANGED <<bound, provider>>
    BY DEF MakeCall
  <2>2. models' = IF models[m].count > 0 THEN [models EXCEPT ![m] = reg] ELSE models
    BY Zenon DEF MakeCall
  <2>3. cache' = IF Invalidated(m, reg, call) THEN NoCache ELSE cache
    BY Zenon DEF MakeCall
  <2>4. report' = [report EXCEPT ![r] = IF Len(report[r].calls) = 1 THEN NoReport
                      ELSE [report[r] EXCEPT !.calls = Tail(report[r].calls)]]
    BY DEF MakeCall
  <2>. QED
    BY <2>1, <2>2, <2>3, <2>4
<1>2. m \in Models /\ report[r].client \in Clients /\ Tail(report[r].calls) \in Seq(Calls)
  BY <1>1, ReportsAre DEF RegistryInv
<1>3. models \in [Models -> Registration] /\ models[m] \in Registration
  BY <1>2 DEF RegistryInv, RegistryTypeOK
<1>4. reg \in Registration /\ reg.count = models[m].count /\ reg.providers = models[m].providers
  BY <1>2, <1>3, MarkedIs
<1>. HIDE DEF m, reg, call
<1>5. /\ models' \in [Models -> Registration]
      /\ \A n \in Models : models'[n].count = models[n].count /\ models'[n].providers = models[n].providers
  BY <1>1, <1>2, <1>3, <1>4
<1>6. CountsMatch'
  BY <1>1, <1>5, CountersStay DEF RegistryInv
<1>7. /\ report' \in [Reporters -> [client: Clients \cup {NoClient}, model: Models, calls: Seq(Calls)]]
      /\ ReportersKnow'
  <2>. DEFINE entry2 == IF Len(report[r].calls) = 1 THEN NoReport
                        ELSE [report[r] EXCEPT !.calls = Tail(report[r].calls)]
  <2>1. report' = [report EXCEPT ![r] = entry2]
    BY <1>1
  <2>2. /\ entry2 \in [client: Clients \cup {NoClient}, model: Models, calls: Seq(Calls)]
        /\ entry2.calls # <<>> => entry2.client \in Clients
    BY <1>1, <1>2, ReportsAre DEF RegistryInv, RegistryTypeOK
  <2>. HIDE DEF entry2
  <2>. QED
    BY <2>1, <2>2 DEF RegistryInv, RegistryTypeOK, ReportersKnow
<1>8. RegistryTypeOK'
  BY <1>1, <1>5, <1>7 DEF RegistryInv, RegistryTypeOK
<1>9. CacheFresh' /\ CacheIsTimely'
  <2>1. CASE Invalidated(m, reg, call)
    <3>1. cache' = NoCache
      BY <1>1, <2>1
    <3>. QED
      BY <3>1 DEF CacheFresh, CacheIsTimely
  <2>2. CASE ~Invalidated(m, reg, call)
    <3>1. models[m].count > 0 => reg = models[m]
      BY <2>2 DEF Invalidated
    <3>2. models' = models
      BY <1>1, <1>2, <1>3, <3>1
    <3>3. cache' = cache
      BY <1>1, <2>2
    <3>. QED
      BY <3>2, <3>3 DEF RegistryInv, CacheFresh, CacheIsTimely, ListedNow
  <2>. QED
    BY <2>1, <2>2
<1>. QED
  BY <1>6, <1>7, <1>8, <1>9 DEF RegistryInv

LEMMA GetKeeps == ASSUME RegistryInv, GetAvailableModels PROVE RegistryInv'
<1>. DEFINE times == {models[m].quota[c] : m \in Models, c \in Clients} \ {0}
<1>1. /\ cache' = [listed |-> ListedNow, expires |-> Expiry]
      /\ UNCHANGED <<bound, provider, models, report>>
  BY DEF GetAvailableModels
<1>2. Window \in Nat \ {0} /\ Never = Window + 1
  BY RegistryAssumption DEF Never
<1>3. \A m \in Models, c \in Clients : models[m].quota[c] \in 0..Window
  BY DEF RegistryInv, RegistryTypeOK, Registration
<1>4. times \in SUBSET (1..Window)
  BY <1>2, <1>3
<1>5. Expiry \in 1..Never /\ \A t \in times : t >= Expiry
  <2>0. Expiry = IF times = {} THEN Never ELSE CHOOSE t \in times : \A u \in times : t <= u
    BY DEF Expiry
  <2>. HIDE DEF times
  <2>1. CASE times = {}
    <3>1. Expiry = Never
      BY <2>0, <2>1
    <3>. QED
      BY <1>2, <2>1, <3>1
  <2>2. CASE times # {}
    <3>1. Expiry = CHOOSE t \in times : \A u \in times : t <= u
      BY <2>0, <2>2
    <3>2. \E t \in times : \A u \in times : t <= u
      <4>1. times \in SUBSET Nat
        BY <1>2, <1>4
      <4>. QED
        BY <2>2, <4>1, LowestIs
    <3>3. Expiry \in times /\ \A u \in times : Expiry <= u
      BY <3>1, <3>2
    <3>4. \A u \in times : u \in 1..Window
      BY <1>4
    <3>5. \A u \in times : u >= Expiry
      BY <1>2, <3>3, <3>4
    <3>. QED
      BY <1>2, <3>3, <3>4, <3>5
  <2>. QED
    BY <2>1, <2>2
<1>6. RegistryTypeOK'
  <2>1. ListedNow \in SUBSET Models
    BY DEF ListedNow
  <2>. QED
    BY <1>1, <1>5, <2>1 DEF RegistryInv, RegistryTypeOK, Cache
<1>7. ListedNow' = ListedNow
  BY <1>1 DEF ListedNow
<1>8. CacheFresh'
  BY <1>1, <1>7 DEF CacheFresh
<1>9. CacheIsTimely'
  <2>1. cache'.expires = Expiry
    BY <1>1
  <2>2. \A m \in Models, c \in Clients : models[m].quota[c] = 0 \/ models[m].quota[c] >= Expiry
    BY <1>5
  <2>. QED
    BY <1>1, <2>1, <2>2 DEF CacheIsTimely
<1>10. CountsMatch'
  BY <1>1, CountersStay DEF RegistryInv
<1>11. ReportersKnow'
  BY <1>1 DEF RegistryInv, ReportersKnow
<1>. QED
  BY <1>6, <1>8, <1>9, <1>10, <1>11 DEF RegistryInv

LEMMA RegistryTickKeeps == ASSUME RegistryInv, RegistryTick PROVE RegistryInv'
<1>1. /\ models' = [m \in Models |->
            [models[m] EXCEPT !.quota = [c \in Clients |-> Elapse(models[m].quota[c])]]]
      /\ cache' = CASE cache.expires = Never -> cache
                    [] cache.expires \in {0, 1} -> NoCache
                    [] OTHER -> [cache EXCEPT !.expires = cache.expires - 1]
      /\ UNCHANGED <<bound, provider, report>>
  BY DEF RegistryTick
<1>2. Window \in Nat \ {0} /\ Never = Window + 1 /\ Never \in Nat
  BY RegistryAssumption DEF Never
<1>3. models \in [Models -> Registration]
  BY DEF RegistryInv, RegistryTypeOK
<1>4. \A t \in 0..Window : Elapse(t) \in 0..Window /\ (Elapse(t) = t - 1 \/ (t = 0 /\ Elapse(t) = 0))
  <2>. SUFFICES ASSUME NEW t \in 0..Window
                PROVE  Elapse(t) \in 0..Window /\ (Elapse(t) = t - 1 \/ (t = 0 /\ Elapse(t) = 0))
    OBVIOUS
  <2>1. CASE t = 0
    BY <1>2, <2>1 DEF Elapse
  <2>2. CASE t > 0
    BY <1>2, <2>2 DEF Elapse
  <2>. QED
    BY <1>2, <2>1, <2>2
<1>5. ASSUME NEW m \in Models
      PROVE  /\ models'[m] \in Registration /\ models'[m].count = models[m].count
             /\ models'[m].providers = models[m].providers
             /\ models'[m].suspended = models[m].suspended
             /\ \A c \in Clients : /\ models[m].quota[c] \in 0..Window
                                   /\ models'[m].quota[c] = Elapse(models[m].quota[c])
  <2>1. models[m] \in Registration
    BY <1>3
  <2>2. \A c \in Clients : models[m].quota[c] \in 0..Window
    BY <2>1 DEF Registration
  <2>3. models'[m] = [models[m] EXCEPT !.quota = [c \in Clients |-> Elapse(models[m].quota[c])]]
    BY <1>1
  <2>4. [c \in Clients |-> Elapse(models[m].quota[c])] \in [Clients -> 0..Window]
    BY <1>4, <2>2
  <2>. QED
    BY <2>1, <2>2, <2>3, <2>4 DEF Registration
<1>6. models' \in [Models -> Registration]
  BY <1>1, <1>5
<1>7. CountsMatch'
  BY <1>1, <1>5, CountersStay DEF RegistryInv
<1>8. cache \in Cache \cup {NoCache}
  BY DEF RegistryInv, RegistryTypeOK
<1>9. CASE cache.expires = Never
  <2>1. cache' = cache /\ cache # NoCache
    <3>1. NoCache.expires # Never
      BY <1>2 DEF NoCache
    <3>. QED
      BY <1>1, <1>2, <1>9, <3>1
  <2>2. ASSUME NEW m \in Models, NEW c \in Clients PROVE models[m].quota[c] = 0 /\ models'[m].quota[c] = 0
    <3>1. models[m].quota[c] = 0 \/ models[m].quota[c] >= Never
      BY <1>9, <2>1 DEF RegistryInv, CacheIsTimely
    <3>. QED
      BY <1>2, <1>4, <1>5, <3>1
  <2>3. \A m \in Models : Available(models'[m]) <=> Available(models[m])
    <3>. SUFFICES ASSUME NEW m \in Models PROVE Available(models'[m]) <=> Available(models[m])
      OBVIOUS
    <3>1. \A c \in Clients : models'[m].quota[c] > 0 <=> models[m].quota[c] > 0
      BY <2>2
    <3>. QED
      BY <1>3, <1>5, <3>1, AvailableAlike
  <2>4. CacheFresh'
    BY <2>1, <2>3 DEF RegistryInv, CacheFresh, ListedNow
  <2>5. CacheIsTimely'
    BY <2>2 DEF CacheIsTimely
  <2>. QED
    BY <1>1, <1>6, <1>7, <2>1, <2>4, <2>5 DEF RegistryInv, RegistryTypeOK, ReportersKnow
<1>10. CASE cache.expires # Never /\ cache.expires \in {0, 1}
  <2>1. cache' = NoCache
    BY <1>1, <1>10
  <2>2. CacheFresh' /\ CacheIsTimely'
    BY <2>1 DEF CacheFresh, CacheIsTimely
  <2>. QED
    BY <1>1, <1>6, <1>7, <2>1, <2>2 DEF RegistryInv, RegistryTypeOK, ReportersKnow
<1>11. CASE cache.expires # Never /\ cache.expires \notin {0, 1}
  <2>1. cache # NoCache /\ cache \in Cache /\ cache.expires \in 2..Window
    <3>1. NoCache.expires = 0
      BY DEF NoCache
    <3>2. cache # NoCache /\ cache \in Cache
      BY <1>8, <1>11, <3>1
    <3>. QED
      BY <1>2, <1>11, <3>2 DEF Cache
  <2>2. cache' = [cache EXCEPT !.expires = cache.expires - 1]
    BY <1>1, <1>11
  <2>3. cache' \in Cache /\ cache'.listed = cache.listed /\ cache'.expires = cache.expires - 1
    BY <1>2, <2>1, <2>2 DEF Cache
  <2>4. ASSUME NEW m \in Models, NEW c \in Clients
        PROVE  /\ models'[m].quota[c] > 0 <=> models[m].quota[c] > 0
               /\ models'[m].quota[c] = 0 \/ models'[m].quota[c] >= cache.expires - 1
    <3>1. models[m].quota[c] = 0 \/ models[m].quota[c] >= cache.expires
      BY <2>1 DEF RegistryInv, CacheIsTimely
    <3>2. models[m].quota[c] \in 0..Window /\ models'[m].quota[c] = Elapse(models[m].quota[c])
      BY <1>5
    <3>. QED
      BY <1>2, <2>1, <3>1, <3>2 DEF Elapse
  <2>5. \A m \in Models : Available(models'[m]) <=> Available(models[m])
    BY <1>3, <1>5, <2>4, AvailableAlike
  <2>6. CacheFresh'
    BY <2>1, <2>3, <2>5 DEF RegistryInv, CacheFresh, ListedNow
  <2>7. CacheIsTimely'
    BY <2>3, <2>4 DEF CacheIsTimely
  <2>. QED
    BY <1>1, <1>6, <1>7, <2>3, <2>6, <2>7 DEF RegistryInv, RegistryTypeOK, ReportersKnow
<1>. QED
  BY <1>9, <1>10, <1>11

\* Whatever clients register and leave, and whatever marks come late, the counters
\* are those of the lists the clients have, and the cached list is the present one.
THEOREM RegistryInvariance == RegistrySpec => []RegistryInv
<1>1. RegistryInit => RegistryInv
  <2>. SUFFICES ASSUME RegistryInit PROVE RegistryInv
    OBVIOUS
  <2>1. /\ bound = [c \in Clients |-> EmptyList] /\ provider = [c \in Clients |-> NoProvider]
        /\ models = [m \in Models |-> Unregistered] /\ report = [r \in Reporters |-> NoReport]
        /\ cache = NoCache
    BY DEF RegistryInit
  <2>2. Unregistered \in Registration
    <3>1. 0 \in 0..Window
      BY RegistryAssumption
    <3>. QED
      BY <3>1 DEF Unregistered, Registration
  <2>3. NoReport \in [client: Clients \cup {NoClient}, model: Models, calls: Seq(Calls)]
    <3>1. (CHOOSE m \in Models : TRUE) \in Models
      BY RegistryAssumption
    <3>. QED
      BY <3>1 DEF NoReport
  <2>4. bound \in [Clients -> [Models -> 0..MaxListed]]
    BY <2>1, RegistryAssumption DEF EmptyList
  <2>5. RegistryTypeOK
    BY <2>1, <2>2, <2>3, <2>4 DEF RegistryTypeOK
  <2>6. ASSUME NEW m \in Models, NEW cs PROVE cs \subseteq Clients => TimesListed(bound, m, cs) = 0
    <3>1. cs \subseteq Clients => {e \in cs \X (1..MaxListed) : e[2] <= bound[e[1]][m]} = {}
      BY <2>1, RegistryAssumption DEF EmptyList
    <3>. QED
      BY <3>1, FS_EmptySet DEF TimesListed
  <2>7. CountsMatch
    <3>1. \A p : ClientsOf(provider, p) \subseteq Clients
      BY DEF ClientsOf
    <3>. QED
      BY <2>1, <2>6, <3>1, CountsMatchIs DEF CountsAre, Unregistered
  <2>. QED
    BY <2>1, <2>5, <2>7 DEF RegistryInv, CacheFresh, CacheIsTimely, ReportersKnow, NoReport
<1>2. RegistryInv /\ [RegistryNext]_registryVars => RegistryInv'
  <2>. SUFFICES ASSUME RegistryInv, [RegistryNext]_registryVars PROVE RegistryInv'
    OBVIOUS
  <2>1. RegistryTypeOK /\ CountsMatch /\ ReportersKnow
    BY DEF RegistryInv
  <2>2. ASSUME NEW c \in Clients, NEW p \in Providers \cup {NoProvider}, NEW list \in Lists,
               RegisterClient(c, p, list)
        PROVE  RegistryInv'
    <3>1. list \in [Models -> 0..MaxListed]
      BY DEF Lists
    <3>. QED
      BY <2>1, <2>2, <3>1, RegisterKeeps
  <2>3. ASSUME NEW c \in Clients, UnregisterClient(c) PROVE RegistryInv'
    <3>1. EmptyList \in [Models -> 0..MaxListed]
      BY RegistryAssumption DEF EmptyList
    <3>2. RegisterClient(c, NoProvider, EmptyList)
      BY <2>3 DEF RegisterClient, UnregisterClient
    <3>. QED
      BY <2>1, <3>1, <3>2, RegisterKeeps
  <2>4. ASSUME NEW c \in Clients, NEW r \in Reporters, NEW m \in Models, ReportResult(r, c, m)
        PROVE  RegistryInv'
    <3>1. PICK calls \in Outcomes :
             report' = [report EXCEPT ![r] = [client |-> c, model |-> m, calls |-> calls]]
      BY <2>4 DEF ReportResult
    <3>2. calls \in Seq(Calls)
      <4>1. /\ <<"clearQuota", "resume">> \in Seq(Calls)
            /\ <<"setQuota", "suspendQuota">> \in Seq(Calls)
            /\ <<"suspendOther">> \in Seq(Calls)
        BY DEF Calls
      <4>. QED
        BY <4>1 DEF Outcomes
    <3>3. UNCHANGED <<bound, provider, models, cache>>
      BY <2>4 DEF ReportResult
    <3>4. /\ report' \in [Reporters -> [client: Clients \cup {NoClient}, model: Models, calls: Seq(Calls)]]
          /\ ReportersKnow'
      BY <2>1, <3>1, <3>2 DEF RegistryTypeOK, ReportersKnow
    <3>5. CountsMatch'
      BY <2>1, <3>3, CountersStay
    <3>. QED
      BY <2>1, <3>3, <3>4, <3>5
      DEF RegistryInv, RegistryTypeOK, CacheFresh, CacheIsTimely, ListedNow
  <2>5. CASE UNCHANGED registryVars
    <3>1. CountsMatch'
      BY <2>1, <2>5, CountersStay DEF registryVars
    <3>. QED
      BY <2>5, <3>1 DEF registryVars, RegistryInv, RegistryTypeOK, CacheFresh, CacheIsTimely,
         ListedNow, ReportersKnow
  <2>. QED
    BY <2>2, <2>3, <2>4, <2>5, MakeCallKeeps, GetKeeps, RegistryTickKeeps DEF RegistryNext
<1>. QED
  BY <1>1, <1>2, PTL DEF RegistrySpec

\* The counters and the cached list of the registry are right, for any clients,
\* providers, models and length of a list.
THEOREM RegistryTrue == RegistrySpec => []RegistryIsTrue
<1>1. RegistryInv => RegistryIsTrue
  BY DEF RegistryInv, RegistryIsTrue
<1>. QED
  BY <1>1, RegistryInvariance, PTL
==============================================================================
