------------------------- MODULE SchedulerSyncProofs -------------------------
(***************************************************************************)
(* Proofs about which auth a request is given: SchedulerSync, for any      *)
(* auths, callers, pickers and cooldown, and SessionAffinity, for any      *)
(* auths, sessions, requests and time a binding lasts.                     *)
(***************************************************************************)
EXTENDS SchedulerSync, SessionAffinity, TLAPS

Present == Values \cup {Gone}

LEMMA ValueFacts ==
    /\ 0 \in Values /\ Off \in Values /\ Cooldown \in Values /\ Gone \notin Values
    /\ 0..Cooldown \subseteq Values
    /\ \A v \in Values : v # Off => v \in 0..Cooldown
    /\ \A v \in Values : Elapse(v) \in Values
    /\ \A v \in Present : Elapse(v) \in Present
    /\ \A n \in 0..Cooldown : Elapse(n) \in 0..Cooldown
    /\ Elapse(0) = 0 /\ Off # 0 /\ Gone # 0
BY SyncAssumption DEF Values, Present, Off, Gone, Elapse

LEMMA CopyType == \A v \in Values : Copy(v) \in Ref
BY DEF Copy, Ref

LEMMA ScheduledType ==
    ASSUME NEW r \in Ref, NEW v \in Values
    PROVE  /\ Scheduled(r, v) \in Entry
           /\ v = 0 => Scheduled(r, v).state = "ready"
<1>1. NoEntry \in Entry
  BY ValueFacts, CopyType, SyncAssumption DEF NoEntry, Entry
<1>. QED
  BY <1>1, ValueFacts DEF Scheduled, Entry

\* A live reference of a is only followed while a is there: by then it is a value.
LEMMA KeptType ==
    ASSUME TypeOK, NEW a \in Auths, Here(a), NEW r \in Ref
    PROVE  Kept(a, r) \in Ref /\ Deref(a, r) \in Values /\ Deref(a, Kept(a, r)) = Deref(a, r)
<1>1. auths[a] \in Values
  BY DEF TypeOK, Here
<1>. QED
  BY <1>1, CopyType DEF Kept, Deref, Ref, Copy

\* The type of what a call carries, and of an entry rebuilt from a snapshot.
LEMMA PresentType ==
    ASSUME TypeOK, NEW a \in Auths, Here(a)
    PROVE  auths[a] \in Values /\ Scheduled(Copy(auths[a]), auths[a]) \in Entry
<1>1. auths[a] \in Values
  BY DEF TypeOK, Here
<1>. QED
  BY <1>1, CopyType, ScheduledType

LEMMA CallType ==
    ASSUME NEW a \in Auths, NEW r \in Ref, NEW op \in {"upsert", "remove"},
           NEW calls \in [Callers -> Call \cup {NoCall}], NEW c \in Callers
    PROVE  Calling(calls, c, op, a, r) \in [Callers -> Call \cup {NoCall}]
BY DEF Calling, Call

LEMMA KeptTypes ==
    ASSUME TypeOK, LiveIsHere, NEW a \in Auths
    PROVE  /\ SchedKept(a) \in [Auths -> Entry]
           /\ CallsKept(a) \in [Callers -> Call \cup {NoCall}]
<1>1. SchedKept(a) \in [Auths -> Entry]
  <2>1. sched[a] \in Entry /\ sched[a].ref \in Ref
    BY DEF TypeOK, Entry
  <2>2. Kept(a, sched[a].ref) \in Ref
    <3>1. CASE Here(a)
      BY <2>1, <3>1, KeptType
    <3>2. CASE ~Here(a)
      BY <2>1, <3>2 DEF LiveIsHere, Kept
    <3>. QED
      BY <3>1, <3>2
  <2>. QED
    BY <2>1, <2>2 DEF SchedKept, TypeOK, Entry
<1>2. ASSUME NEW c \in Callers, About(c, a)
      PROVE  [call[c] EXCEPT !.ref = Kept(a, @)] \in Call
  <2>1. call[c] \in Call /\ call[c].ref \in Ref
    BY <1>2 DEF TypeOK, Call, About, Idle
  <2>2. Kept(a, call[c].ref) \in Ref
    <3>1. CASE Here(a)
      BY <2>1, <3>1, KeptType
    <3>2. CASE ~Here(a)
      BY <1>2, <2>1, <3>2 DEF LiveIsHere, Kept
    <3>. QED
      BY <3>1, <3>2
  <2>. QED
    BY <2>1, <2>2 DEF Call
<1>. QED
  BY <1>1, <1>2 DEF CallsKept, TypeOK

LEMMA DoubtedType ==
    ASSUME TypeOK, NEW a \in Auths, NEW v
    PROVE  Doubted(a, v) \in [Pickers -> Pick]
BY DEF TypeOK, Doubted, Pick

LEMMA PromotedType ==
    ASSUME TypeOK, LiveIsHere
    PROVE  Promoted \in [Auths -> Entry]
<1>1. ASSUME NEW a \in Auths
      PROVE  Scheduled(sched[a].ref, Deref(a, sched[a].ref)) \in Entry
  <2>1. sched[a].ref \in Ref
    BY DEF TypeOK, Entry
  <2>2. Deref(a, sched[a].ref) \in Values
    BY <2>1 DEF LiveIsHere, TypeOK, Here, Deref, Ref
  <2>. QED
    BY <2>1, <2>2, ScheduledType
<1>. QED
  BY <1>1 DEF Promoted, TypeOK

LEMMA TypesKept == TypeOK /\ LiveIsHere /\ [Next]_vars => TypeOK'
<1>. SUFFICES ASSUME TypeOK, LiveIsHere, [Next]_vars PROVE TypeOK'
  OBVIOUS
<1>. USE DEF TypeOK
<1>1. ASSUME NEW c \in Callers, NEW a \in Auths, MarkResult(c, a) PROVE TypeOK'
  <2>1. PICK v \in Values :
            /\ auths' = [auths EXCEPT ![a] = v]
            /\ call' = Calling(call, c, "upsert", a, Copy(v))
            /\ pick' = Doubted(a, v)
    BY <1>1, ValueFacts DEF MarkResult
  <2>. QED
    BY <1>1, <2>1, CopyType, CallType, DoubtedType DEF MarkResult
<1>2. ASSUME NEW c \in Callers, NEW a \in Auths, Store(c, a) PROVE TypeOK'
  <2>1. PICK v \in Values :
            /\ auths' = [auths EXCEPT ![a] = v]
            /\ call' = Calling(CallsKept(a), c, "upsert", a, [live |-> TRUE, val |-> 0])
            /\ pick' = Doubted(a, v)
    BY <1>2, ValueFacts DEF Store
  <2>2. [live |-> TRUE, val |-> 0] \in Ref
    BY ValueFacts DEF Ref
  <2>3. call' \in [Callers -> Call \cup {NoCall}]
    BY <2>1, <2>2, KeptTypes, CallType
  <2>. QED
    BY <1>2, <2>1, <2>3, KeptTypes, DoubtedType DEF Store
<1>3. ASSUME NEW c \in Callers, NEW a \in Auths, Remove(c, a) PROVE TypeOK'
  <2>1. call' \in [Callers -> Call \cup {NoCall}]
    BY <1>3, ValueFacts, CopyType, KeptTypes, CallType DEF Remove
  <2>. QED
    BY <1>3, <2>1, KeptTypes, DoubtedType DEF Remove
<1>4. ASSUME NEW c \in Callers, NEW a \in Auths, RefreshEntry(c, a) PROVE TypeOK'
  BY <1>4, PresentType, CopyType, CallType DEF RefreshEntry
<1>5. ASSUME NEW a \in Auths, RefreshFailed(a) PROVE TypeOK'
  BY <1>5, PresentType DEF RefreshFailed
<1>6. ASSUME NEW c \in Callers, Deliver(c) PROVE TypeOK'
  <2>1. call[c] \in Call
    BY <1>6 DEF Deliver, Idle
  <2>2. PICK a \in Auths : call[c].auth = a
    BY <2>1 DEF Call
  <2>3. call[c].ref \in Ref /\ Deref(a, call[c].ref) \in Values
    BY <1>6, <2>1, <2>2 DEF Call, Ref, Deref, LiveIsHere, About, Here, Deliver
  <2>4. NoEntry \in Entry /\ Scheduled(call[c].ref, Deref(a, call[c].ref)) \in Entry
    BY <2>3, ScheduledType, ValueFacts, CopyType DEF NoEntry, Entry, Scheduled
  <2>. QED
    BY <1>6, <2>2, <2>4 DEF Deliver
<1>7. ASSUME NEW p \in Pickers, BeginPick(p) PROVE TypeOK'
  BY <1>7, ZenonT(40) DEF BeginPick, Pick, Certain
<1>8. ASSUME NEW p \in Pickers, TryPick(p) PROVE TypeOK'
  <2>. DEFINE found == \E a \in Auths : Promoted[a].state = "ready"
  <2>1. sched' \in [Auths -> Entry]
    BY <1>8, PromotedType DEF TryPick
  <2>2. pick' = [pick EXCEPT
             ![p].pc = IF found THEN "idle" ELSE IF @ = "first" THEN "sync" ELSE "failed",
             ![p].sure = IF found THEN {} ELSE @]
    BY <1>8 DEF TryPick
  <2>. HIDE DEF found
  <2>3. pick' \in [Pickers -> Pick]
    <3>1. pick[p] \in Pick
      OBVIOUS
    <3>2. CASE found
      <4>1. pick' = [pick EXCEPT ![p] = [@ EXCEPT !.pc = "idle", !.sure = {}]]
        BY <2>2, <3>2
      <4>2. [pick[p] EXCEPT !.pc = "idle", !.sure = {}] \in Pick
        BY <3>1 DEF Pick
      <4>. QED
        BY <4>1, <4>2
    <3>3. CASE ~found
      <4>. DEFINE pc == IF pick[p].pc = "first" THEN "sync" ELSE "failed"
      <4>1. pick' = [pick EXCEPT ![p] = [pick[p] EXCEPT !.pc = pc]]
        BY <2>2, <3>3
      <4>2. [pick[p] EXCEPT !.pc = pc] \in Pick
        BY <3>1 DEF Pick
      <4>. QED
        BY <4>1, <4>2
    <3>. QED
      BY <3>2, <3>3
  <2>. QED
    BY <1>8, <2>1, <2>3 DEF TryPick
<1>9. ASSUME NEW p \in Pickers, Snapshot(p) PROVE TypeOK'
  BY <1>9, ZenonT(40) DEF Snapshot, Pick
<1>10. ASSUME NEW p \in Pickers, Rebuild(p) PROVE TypeOK'
  <2>1. pick[p].snap \in [Auths -> Present]
    BY DEF Pick, Present
  <2>2. ASSUME NEW a \in Auths, pick[p].snap[a] # Gone
        PROVE  Scheduled(Copy(pick[p].snap[a]), pick[p].snap[a]) \in Entry
    BY <2>1, <2>2, CopyType, ScheduledType DEF Present
  <2>3. NoEntry \in Entry
    BY ValueFacts, CopyType, SyncAssumption DEF NoEntry, Entry
  <2>4. NoSnap \in [Auths -> Values \cup {Gone}]
    BY DEF NoSnap
  <2>. QED
    BY <1>10, <2>2, <2>3, <2>4, ZenonT(40) DEF Rebuild, Pick
<1>11. ASSUME NEW p \in Pickers, Answer(p) PROVE TypeOK'
  BY <1>11, ZenonT(40) DEF Answer, Pick
<1>12. ASSUME Tick PROVE TypeOK'
  <2>1. ASSUME NEW r \in Ref PROVE RefLater(r) \in Ref
    BY ValueFacts DEF RefLater, Ref
  <2>2. auths' \in [Auths -> Values \cup {Gone}]
    BY <1>12, ValueFacts DEF Tick, Present
  <2>3. sched' \in [Auths -> Entry]
    BY <1>12, <2>1, ValueFacts DEF Tick, Entry
  <2>4. call' \in [Callers -> Call \cup {NoCall}]
    BY <1>12, <2>1 DEF Tick, Call, Idle
  <2>5. pick' \in [Pickers -> Pick]
    <3>1. ASSUME NEW p \in Pickers
          PROVE  [a \in Auths |-> Elapse(pick[p].snap[a])] \in [Auths -> Values \cup {Gone}]
      <4>1. pick[p].snap \in [Auths -> Present]
        BY DEF Pick, Present
      <4>. QED
        BY <4>1, ValueFacts DEF Present
    <3>2. pick' = [p \in Pickers |->
            [pick[p] EXCEPT !.snap = [a \in Auths |-> Elapse(pick[p].snap[a])]]]
      BY <1>12 DEF Tick
    <3>3. ASSUME NEW p \in Pickers
          PROVE  [pick[p] EXCEPT !.snap = [a \in Auths |-> Elapse(pick[p].snap[a])]] \in Pick
      <4>. DEFINE later == [a \in Auths |-> Elapse(pick[p].snap[a])]
      <4>1. later \in [Auths -> Values \cup {Gone}] /\ pick[p] \in Pick
        BY <3>1
      <4>. HIDE DEF later
      <4>2. [pick[p] EXCEPT !.snap = later] \in Pick
        BY <4>1 DEF Pick
      <4>. QED
        BY <4>2 DEF later
    <3>. QED
      BY <3>2, <3>3
  <2>. QED
    BY <2>2, <2>3, <2>4, <2>5
<1>13. CASE UNCHANGED vars
  BY <1>13 DEF vars
<1>. QED
  BY <1>1, <1>2, <1>3, <1>4, <1>5, <1>6, <1>7, <1>8, <1>9, <1>10, <1>11, <1>12, <1>13
  DEF Next

LEMMA LiveKept == TypeOK /\ LiveIsHere /\ [Next]_vars => LiveIsHere'
<1>. SUFFICES ASSUME TypeOK, LiveIsHere, [Next]_vars PROVE LiveIsHere'
  OBVIOUS
<1>. USE DEF TypeOK, LiveIsHere
<1>1. ASSUME NEW c \in Callers, NEW a \in Auths, MarkResult(c, a) PROVE LiveIsHere'
  <2>1. PICK v \in Values :
            /\ auths' = [auths EXCEPT ![a] = v]
            /\ call' = Calling(call, c, "upsert", a, Copy(v))
    BY <1>1, ValueFacts DEF MarkResult
  <2>. QED
    BY <1>1, <2>1, ValueFacts DEF MarkResult, Calling, Copy, About, Idle, Here
<1>2. ASSUME NEW c \in Callers, NEW a \in Auths, Store(c, a) PROVE LiveIsHere'
  <2>1. PICK v \in Values :
            /\ auths' = [auths EXCEPT ![a] = v]
            /\ call' = Calling(CallsKept(a), c, "upsert", a, [live |-> TRUE, val |-> 0])
            /\ sched' = SchedKept(a)
    BY <1>2, ValueFacts DEF Store
  <2>2. \A b \in Auths : Here(b)' <=> b = a \/ Here(b)
    BY <2>1, ValueFacts DEF Here
  <2>3. ASSUME NEW b \in Auths, sched'[b].ref.live PROVE Here(b)'
    <3>1. CASE b = a
      BY <2>2, <3>1
    <3>2. CASE b # a
      <4>1. sched'[b] = sched[b]
        BY <2>1, <3>2 DEF SchedKept
      <4>. QED
        BY <2>2, <2>3, <4>1
    <3>. QED
      BY <3>1, <3>2
  <2>4. ASSUME NEW d \in Callers, NEW b \in Auths, About(d, b)', call'[d].ref.live
        PROVE  Here(b)'
    <3>1. CASE b = a
      BY <2>2, <3>1
    <3>2. CASE b # a
      <4>1. d # c
        BY <2>1, <2>4, <3>2 DEF Calling, CallsKept, About
      <4>2. call'[d] = IF About(d, a) THEN [call[d] EXCEPT !.ref = Kept(a, @)] ELSE call[d]
        BY <2>1, <4>1 DEF Calling, CallsKept
      <4>3. CASE About(d, a)
        <5>1. call[d] \in Call
          BY <4>3 DEF About, Idle
        <5>. QED
          BY <2>4, <3>2, <4>2, <4>3, <5>1 DEF Call, About
      <4>4. CASE ~About(d, a)
        BY <2>2, <2>4, <4>2, <4>4 DEF About, Idle
      <4>. QED
        BY <4>3, <4>4
    <3>. QED
      BY <3>1, <3>2
  <2>. QED
    BY <2>3, <2>4
<1>3. ASSUME NEW c \in Callers, NEW a \in Auths, Remove(c, a) PROVE LiveIsHere'
  <2>1. \A b \in Auths : Here(b)' <=> b # a /\ Here(b)
    BY <1>3 DEF Remove, Here
  <2>2. \A r : ~Kept(a, r).live
    BY DEF Kept, Copy
  <2>3. ASSUME NEW b \in Auths, sched'[b].ref.live PROVE Here(b)'
    <3>1. CASE b = a
      <4>1. sched'[b].ref = Kept(a, sched[a].ref)
        BY <1>3, <3>1 DEF Remove, SchedKept, Entry
      <4>. QED
        BY <2>2, <2>3, <4>1
    <3>2. CASE b # a
      BY <1>3, <2>1, <2>3, <3>2 DEF Remove, SchedKept
    <3>. QED
      BY <3>1, <3>2
  <2>4. ASSUME NEW d \in Callers, NEW b \in Auths, About(d, b)', call'[d].ref.live
        PROVE  Here(b)'
    <3>1. CASE d = c
      BY <1>3, <2>4, <3>1 DEF Remove, Calling, CallsKept, Copy
    <3>2. CASE d # c /\ About(d, a)
      <4>1. call'[d] = [call[d] EXCEPT !.ref = Kept(a, @)]
        BY <1>3, <3>2 DEF Remove, Calling, CallsKept
      <4>2. call[d] \in Call
        BY <3>2 DEF About, Idle
      <4>. QED
        BY <2>2, <2>4, <4>1, <4>2 DEF Call
    <3>3. CASE d # c /\ ~About(d, a)
      <4>1. call'[d] = call[d]
        BY <1>3, <3>3 DEF Remove, Calling, CallsKept
      <4>. QED
        BY <2>1, <2>4, <3>3, <4>1 DEF About, Idle
    <3>. QED
      BY <3>1, <3>2, <3>3
  <2>. QED
    BY <2>3, <2>4
<1>4. ASSUME NEW c \in Callers, NEW a \in Auths, RefreshEntry(c, a) PROVE LiveIsHere'
  BY <1>4 DEF RefreshEntry, Calling, Copy, About, Idle, Here
<1>5. ASSUME NEW a \in Auths, RefreshFailed(a) PROVE LiveIsHere'
  BY <1>5 DEF RefreshFailed, About, Idle, Here
<1>6. ASSUME NEW c \in Callers, Deliver(c) PROVE LiveIsHere'
  <2>1. call[c] \in Call
    BY <1>6 DEF Deliver, Idle
  <2>2. \A r, v : Scheduled(r, v).ref \in {r, Copy(0)}
    BY DEF Scheduled, NoEntry
  <2>3. NoEntry.ref = Copy(0) /\ ~Copy(0).live
    BY DEF NoEntry, Copy
  <2>4. ASSUME NEW a \in Auths, sched'[a].ref.live PROVE Here(a)'
    <3>1. CASE a = call[c].auth
      <4>1. sched'[a].ref \in {call[c].ref, Copy(0)}
        BY <1>6, <2>2, <2>3, <3>1 DEF Deliver
      <4>. QED
        BY <1>6, <2>3, <2>4, <3>1, <4>1 DEF Deliver, About, Here
    <3>2. CASE a # call[c].auth
      BY <1>6, <2>4, <3>2 DEF Deliver, Here
    <3>. QED
      BY <3>1, <3>2
  <2>. QED
    BY <1>6, <2>4 DEF Deliver, About, Idle, Here
<1>7. ASSUME NEW p \in Pickers, BeginPick(p) PROVE LiveIsHere'
  BY <1>7 DEF BeginPick, About, Idle, Here
<1>8. ASSUME NEW p \in Pickers, TryPick(p) PROVE LiveIsHere'
  <2>1. \A a \in Auths : Promoted[a].ref.live => sched[a].ref.live
    BY DEF Promoted, Scheduled, NoEntry, Copy
  <2>. QED
    BY <1>8, <2>1 DEF TryPick, About, Idle, Here
<1>9. ASSUME NEW p \in Pickers, Snapshot(p) PROVE LiveIsHere'
  BY <1>9 DEF Snapshot, About, Idle, Here
<1>10. ASSUME NEW p \in Pickers, Rebuild(p) PROVE LiveIsHere'
  <2>1. \A a \in Auths : ~sched'[a].ref.live
    BY <1>10 DEF Rebuild, Scheduled, NoEntry, Copy
  <2>. QED
    BY <1>10, <2>1 DEF Rebuild, About, Idle, Here
<1>11. ASSUME NEW p \in Pickers, Answer(p) PROVE LiveIsHere'
  BY <1>11 DEF Answer, About, Idle, Here
<1>12. ASSUME Tick PROVE LiveIsHere'
  <2>1. \A a \in Auths : Here(a)' <=> Here(a)
    <3>1. \A v \in Present : Elapse(v) = Gone <=> v = Gone
      BY SyncAssumption DEF Elapse, Present, Values, Off, Gone
    <3>. QED
      BY <1>12, <3>1 DEF Tick, Here, Present
  <2>2. \A r \in Ref : RefLater(r).live = r.live
    BY DEF RefLater, Ref
  <2>3. \A a \in Auths : sched'[a].ref.live = sched[a].ref.live
    BY <1>12, <2>2 DEF Tick, Entry
  <2>4. ASSUME NEW c \in Callers, NEW a \in Auths, About(c, a)'
        PROVE  About(c, a) /\ call'[c].ref.live = call[c].ref.live
    <3>1. ~Idle(c) /\ call[c] \in Call /\ call'[c] = [call[c] EXCEPT !.ref = RefLater(@)]
      BY <1>12, <2>4 DEF Tick, About, Idle
    <3>. QED
      BY <2>2, <2>4, <3>1 DEF Call, About
  <2>. QED
    BY <2>1, <2>3, <2>4
<1>13. CASE UNCHANGED vars
  BY <1>13 DEF vars, About, Idle, Here
<1>. QED
  BY <1>1, <1>2, <1>3, <1>4, <1>5, <1>6, <1>7, <1>8, <1>9, <1>10, <1>11, <1>12, <1>13
  DEF Next

\* What a pick is sure of: every call, every snapshot and in the end the scheduler say it.
LEMMA SureKept == TypeOK /\ LiveIsHere /\ SureIsKnown /\ [Next]_vars => SureIsKnown'
<1>. SUFFICES ASSUME TypeOK, LiveIsHere, SureIsKnown, [Next]_vars,
                     NEW q \in Pickers, NEW a \in pick'[q].sure
              PROVE  /\ a \in Certain'
                     /\ pick'[q].pc = "again" => sched'[a].state = "ready"
                     /\ pick'[q].pc # "failed"
  BY DEF SureIsKnown
<1>. DEFINE Goal == /\ a \in Certain'
                    /\ pick'[q].pc = "again" => sched'[a].state = "ready"
                    /\ pick'[q].pc # "failed"
<1>0. a \in Auths
  BY TypesKept DEF TypeOK, Pick
<1>. USE <1>0
<1>a. a \in pick[q].sure =>
        /\ auths[a] = 0
        /\ \A d \in Callers : About(d, a) => call[d].op = "upsert" /\ Deref(a, call[d].ref) = 0
        /\ \A p \in Pickers : pick[p].pc = "rebuild" => pick[p].snap[a] = 0
        /\ pick[q].pc = "again" => sched[a].state = "ready"
        /\ pick[q].pc # "failed"
  BY DEF SureIsKnown, Certain
<1>1. ASSUME NEW c \in Callers, NEW b \in Auths, MarkResult(c, b) PROVE Goal
  <2>1. PICK v \in Values :
            /\ auths' = [auths EXCEPT ![b] = v]
            /\ call' = Calling(call, c, "upsert", b, Copy(v))
            /\ pick' = Doubted(b, v)
    BY <1>1, ValueFacts DEF MarkResult
  <2>a. \A p \in Pickers :
            /\ pick'[p].pc = pick[p].pc
            /\ pick'[p].snap = pick[p].snap
            /\ pick'[p].sure = IF v = 0 THEN pick[p].sure ELSE pick[p].sure \ {b}
    BY <2>1 DEF Doubted, TypeOK, Pick
  <2>2. a \in pick[q].sure /\ (a = b => v = 0)
    BY <2>a
  <2>3. auths'[a] = 0
    BY <1>a, <2>1, <2>2 DEF TypeOK
  <2>4. ASSUME NEW d \in Callers, About(d, a)'
        PROVE  call'[d].op = "upsert" /\ Deref(a, call[d].ref)' = 0
    <3>1. CASE d = c
      BY <2>1, <2>2, <2>4, <3>1 DEF Calling, TypeOK, About, Deref, Copy
    <3>2. CASE d # c
      <4>1. call'[d] = call[d] /\ About(d, a)
        BY <2>1, <2>4, <3>2 DEF Calling, TypeOK, About, Idle
      <4>. QED
        BY <1>a, <2>2, <2>3, <4>1 DEF Deref
    <3>. QED
      BY <3>1, <3>2
  <2>6. \A p \in Pickers : pick'[p].pc = "rebuild" => pick'[p].snap[a] = 0
    BY <1>a, <2>2, <2>a
  <2>7. a \in Certain'
    BY <1>0, <2>3, <2>4, <2>6 DEF Certain
  <2>. QED
    BY <1>a, <1>1, <2>2, <2>a, <2>7 DEF MarkResult
<1>2. ASSUME NEW c \in Callers, NEW b \in Auths, Store(c, b) PROVE Goal
  <2>1. PICK v \in Values :
            /\ auths' = [auths EXCEPT ![b] = v]
            /\ call' = Calling(CallsKept(b), c, "upsert", b, [live |-> TRUE, val |-> 0])
            /\ pick' = Doubted(b, v)
    BY <1>2, ValueFacts DEF Store, TypeOK
  <2>a. \A p \in Pickers :
            /\ pick'[p].pc = pick[p].pc
            /\ pick'[p].snap = pick[p].snap
            /\ pick'[p].sure = IF v = 0 THEN pick[p].sure ELSE pick[p].sure \ {b}
    BY <2>1 DEF Doubted, TypeOK, Pick
  <2>2. a \in pick[q].sure /\ (a = b => v = 0)
    BY <2>a
  <2>3. auths'[a] = 0
    BY <1>a, <2>1, <2>2 DEF TypeOK
  <2>4. ASSUME NEW d \in Callers, About(d, a)'
        PROVE  call'[d].op = "upsert" /\ Deref(a, call[d].ref)' = 0
    <3>1. CASE d = c
      BY <2>1, <2>3, <3>1 DEF Calling, CallsKept, Deref
    <3>2. CASE d # c
      <4>1. call'[d] = IF About(d, b) THEN [call[d] EXCEPT !.ref = Kept(b, @)] ELSE call[d]
        BY <2>1, <3>2 DEF Calling, CallsKept
      <4>2. CASE About(d, b)
        <5>1. call[d] \in Call
          BY <4>2 DEF TypeOK, About, Idle
        <5>2. About(d, a) /\ a = b /\ call'[d].op = call[d].op
                /\ call'[d].ref = Kept(a, call[d].ref)
          BY <2>4, <4>1, <4>2, <5>1 DEF Call, About, Idle
        <5>. QED
          BY <1>a, <2>2, <5>2 DEF Deref, Kept, Copy
      <4>3. CASE ~About(d, b)
        <5>1. call'[d] = call[d] /\ About(d, a)
          BY <2>4, <4>1, <4>3 DEF About, Idle
        <5>. QED
          BY <1>a, <2>2, <2>3, <5>1 DEF Deref
      <4>. QED
        BY <4>2, <4>3
    <3>. QED
      BY <3>1, <3>2
  <2>5. sched'[a].state = sched[a].state
    BY <1>2 DEF Store, SchedKept, TypeOK, Entry
  <2>6. \A p \in Pickers : pick'[p].pc = "rebuild" => pick'[p].snap[a] = 0
    BY <1>a, <2>2, <2>a
  <2>7. a \in Certain'
    BY <1>0, <2>3, <2>4, <2>6 DEF Certain
  <2>. QED
    BY <1>a, <2>2, <2>5, <2>a, <2>7
<1>3. ASSUME NEW c \in Callers, NEW b \in Auths, Remove(c, b) PROVE Goal
  <2>a. \A p \in Pickers :
            /\ pick'[p].pc = pick[p].pc
            /\ pick'[p].snap = pick[p].snap
            /\ pick'[p].sure = IF Gone = 0 THEN pick[p].sure ELSE pick[p].sure \ {b}
    BY <1>3 DEF Remove, Doubted, TypeOK, Pick
  <2>1. a \in pick[q].sure /\ a # b
    BY <2>a, ValueFacts
  <2>2. auths'[a] = 0
    BY <1>3, <1>a, <2>1 DEF Remove, TypeOK
  <2>3. ASSUME NEW d \in Callers, About(d, a)'
        PROVE  call'[d].op = "upsert" /\ Deref(a, call[d].ref)' = 0
    <3>1. d # c
      BY <1>3, <2>1, <2>3 DEF Remove, Calling, CallsKept, About
    <3>2. call'[d] = IF About(d, b) THEN [call[d] EXCEPT !.ref = Kept(b, @)] ELSE call[d]
      BY <1>3, <3>1 DEF Remove, Calling, CallsKept
    <3>3. ~About(d, b)
      <4>1. SUFFICES ASSUME About(d, b) PROVE FALSE
        OBVIOUS
      <4>2. call[d] \in Call
        BY <4>1 DEF TypeOK, About, Idle
      <4>. QED
        BY <2>1, <2>3, <3>2, <4>1, <4>2 DEF Call, About
    <3>4. call'[d] = call[d] /\ About(d, a)
      BY <2>3, <3>2, <3>3 DEF About, Idle
    <3>. QED
      BY <1>a, <2>1, <2>2, <3>4 DEF Deref
  <2>4. sched'[a].state = sched[a].state
    BY <1>3 DEF Remove, SchedKept, TypeOK, Entry
  <2>6. \A p \in Pickers : pick'[p].pc = "rebuild" => pick'[p].snap[a] = 0
    BY <1>a, <2>1, <2>a
  <2>7. a \in Certain'
    BY <1>0, <2>2, <2>3, <2>6 DEF Certain
  <2>. QED
    BY <1>a, <2>1, <2>4, <2>a, <2>7
<1>4. ASSUME NEW c \in Callers, NEW b \in Auths, RefreshEntry(c, b) PROVE Goal
  <2>1. a \in pick[q].sure /\ auths'[a] = 0
    BY <1>4, <1>a DEF RefreshEntry
  <2>2. ASSUME NEW d \in Callers, About(d, a)'
        PROVE  call'[d].op = "upsert" /\ Deref(a, call[d].ref)' = 0
    <3>1. CASE d = c
      BY <1>4, <2>1, <2>2, <3>1 DEF RefreshEntry, Calling, TypeOK, About, Deref, Copy
    <3>2. CASE d # c
      <4>1. call'[d] = call[d] /\ About(d, a)
        BY <1>4, <2>2, <3>2 DEF RefreshEntry, Calling, TypeOK, About, Idle
      <4>. QED
        BY <1>4, <1>a, <2>1, <4>1 DEF RefreshEntry, Deref
    <3>. QED
      BY <3>1, <3>2
  <2>. QED
    BY <1>4, <1>a, <2>1, <2>2 DEF RefreshEntry, Certain
<1>5. ASSUME NEW b \in Auths, RefreshFailed(b) PROVE Goal
  <2>1. a \in pick[q].sure /\ auths[a] = 0
    BY <1>5, <1>a DEF RefreshFailed
  <2>2. a = b => sched'[a].state = "ready"
    BY <1>5, <2>1, ValueFacts DEF RefreshFailed, Scheduled, TypeOK
  <2>3. a # b => sched'[a] = sched[a]
    BY <1>5 DEF RefreshFailed
  <2>. QED
    BY <1>5, <1>a, <2>1, <2>2, <2>3 DEF RefreshFailed, Certain, About, Idle, Deref
<1>6. ASSUME NEW c \in Callers, Deliver(c) PROVE Goal
  <2>1. a \in pick[q].sure /\ auths'[a] = 0
    BY <1>6, <1>a DEF Deliver
  <2>2. ASSUME NEW d \in Callers, About(d, a)' PROVE call'[d] = call[d] /\ About(d, a)
    BY <1>6, <2>2 DEF Deliver, About, Idle, TypeOK
  <2>3. CASE About(c, a)
    <3>1. call[c].op = "upsert" /\ Deref(a, call[c].ref) = 0 /\ call[c].auth = a
      BY <1>a, <2>1, <2>3 DEF About
    <3>2. sched'[a] = Scheduled(call[c].ref, 0)
      BY <1>6, <3>1 DEF Deliver, TypeOK
    <3>3. sched'[a].state = "ready"
      BY <3>2, ValueFacts DEF Scheduled
    <3>. QED
      BY <1>6, <1>a, <2>1, <2>2, <3>3 DEF Deliver, Certain, Deref
  <2>4. CASE ~About(c, a)
    <3>1. sched'[a] = sched[a]
      BY <1>6, <2>4 DEF Deliver, About, TypeOK
    <3>. QED
      BY <1>6, <1>a, <2>1, <2>2, <3>1 DEF Deliver, Certain, Deref
  <2>. QED
    BY <2>3, <2>4
<1>7. ASSUME NEW p \in Pickers, BeginPick(p) PROVE Goal
  <2>1. CASE q = p
    <3>1. pick'[q].sure = Certain /\ pick'[q].pc = "first"
      BY <1>7, <2>1 DEF BeginPick, TypeOK, Pick
    <3>2. \A r \in Pickers : pick'[r].pc = "rebuild" =>
            pick[r].pc = "rebuild" /\ pick'[r].snap = pick[r].snap
      BY <1>7 DEF BeginPick, TypeOK, Pick
    <3>. QED
      BY <1>7, <3>1, <3>2 DEF BeginPick, Certain, About, Idle, Deref
  <2>2. CASE q # p
    <3>1. pick'[q] = pick[q]
      BY <1>7, <2>2 DEF BeginPick, TypeOK
    <3>2. \A r \in Pickers : pick'[r].pc = "rebuild" =>
            pick[r].pc = "rebuild" /\ pick'[r].snap = pick[r].snap
      BY <1>7 DEF BeginPick, TypeOK, Pick
    <3>. QED
      BY <1>7, <1>a, <3>1, <3>2 DEF BeginPick, Certain, About, Idle, Deref
  <2>. QED
    BY <2>1, <2>2
<1>8. ASSUME NEW p \in Pickers, TryPick(p) PROVE Goal
  <2>. DEFINE found == \E b \in Auths : Promoted[b].state = "ready"
  <2>1. pick' = [pick EXCEPT
             ![p].pc = IF found THEN "idle" ELSE IF @ = "first" THEN "sync" ELSE "failed",
             ![p].sure = IF found THEN {} ELSE @]
    BY <1>8 DEF TryPick
  <2>2. sched[a].state = "ready" => Promoted[a] = sched[a] /\ found
    BY DEF Promoted
  <2>. HIDE DEF found
  <2>3. a \in pick[q].sure
    BY <2>1 DEF TypeOK, Pick
  <2>4. \A r \in Pickers : pick'[r].pc = "rebuild" =>
          pick[r].pc = "rebuild" /\ pick'[r].snap = pick[r].snap
    BY <2>1 DEF TypeOK, Pick
  <2>5. a \in Certain'
    BY <1>8, <1>a, <2>3, <2>4 DEF TryPick, Certain, About, Idle, Deref
  <2>6. CASE q = p
    <3>1. ~found
      BY <2>1, <2>6 DEF TypeOK, Pick
    <3>2. pick[q].pc = "first"
      BY <1>8, <1>a, <2>2, <2>3, <2>6, <3>1 DEF TryPick
    <3>3. pick'[q].pc = "sync"
      BY <2>1, <2>6, <3>1, <3>2 DEF TypeOK, Pick
    <3>. QED
      BY <2>5, <3>3
  <2>7. CASE q # p
    <3>1. pick'[q] = pick[q]
      BY <2>1, <2>7 DEF TypeOK
    <3>. QED
      BY <1>8, <1>a, <2>2, <2>3, <2>5, <3>1 DEF TryPick
  <2>. QED
    BY <2>6, <2>7
<1>9. ASSUME NEW p \in Pickers, Snapshot(p) PROVE Goal
  <2>1. \A r \in Pickers : pick'[r].sure = pick[r].sure
    BY <1>9 DEF Snapshot, TypeOK, Pick
  <2>2. \A r \in Pickers : r # p => pick'[r] = pick[r]
    BY <1>9 DEF Snapshot, TypeOK
  <2>3. pick'[p].snap = auths /\ pick'[p].pc = "rebuild"
    BY <1>9 DEF Snapshot, TypeOK, Pick
  <2>. QED
    BY <1>9, <1>a, <2>1, <2>2, <2>3 DEF Snapshot, Certain, About, Idle, Deref
<1>10. ASSUME NEW p \in Pickers, Rebuild(p) PROVE Goal
  <2>1. \A r \in Pickers : pick'[r].sure = pick[r].sure
    BY <1>10 DEF Rebuild, TypeOK, Pick
  <2>2. \A r \in Pickers : r # p => pick'[r] = pick[r]
    BY <1>10 DEF Rebuild, TypeOK
  <2>3. pick'[p].pc = "again"
    BY <1>10 DEF Rebuild, TypeOK, Pick
  <2>4. pick[p].snap[a] = 0
    BY <1>10, <1>a, <2>1 DEF Rebuild
  <2>5. sched'[a] = Scheduled(Copy(0), 0)
    BY <1>10, <2>4, ValueFacts DEF Rebuild
  <2>6. sched'[a].state = "ready"
    BY <2>5, ValueFacts DEF Scheduled
  <2>. QED
    BY <1>10, <1>a, <2>1, <2>2, <2>3, <2>6 DEF Rebuild, Certain, About, Idle, Deref
<1>11. ASSUME NEW p \in Pickers, Answer(p) PROVE Goal
  <2>1. \A r \in Pickers : r # p => pick'[r] = pick[r]
    BY <1>11 DEF Answer, TypeOK
  <2>2. pick'[p].pc = "idle" /\ pick'[p].sure = {}
    BY <1>11 DEF Answer, TypeOK, Pick
  <2>. QED
    BY <1>11, <1>a, <2>1, <2>2 DEF Answer, Certain, About, Idle, Deref
<1>12. ASSUME Tick PROVE Goal
  <2>1. ASSUME NEW p \in Pickers
        PROVE  /\ pick'[p].pc = pick[p].pc /\ pick'[p].sure = pick[p].sure
               /\ pick'[p].snap[a] = Elapse(pick[p].snap[a])
    BY <1>12 DEF Tick, TypeOK, Pick
  <2>2. a \in pick[q].sure /\ auths'[a] = 0 /\ sched'[a].state = sched[a].state
    BY <1>12, <1>a, <2>1, ValueFacts DEF Tick, TypeOK, Entry
  <2>3. ASSUME NEW d \in Callers, About(d, a)'
        PROVE  call'[d].op = "upsert" /\ Deref(a, call[d].ref)' = 0
    <3>1. ~Idle(d) /\ call[d] \in Call /\ call'[d] = [call[d] EXCEPT !.ref = RefLater(@)]
      BY <1>12, <2>3 DEF Tick, About, Idle, TypeOK
    <3>2. About(d, a) /\ call'[d].op = call[d].op /\ call'[d].ref = RefLater(call[d].ref)
      BY <2>3, <3>1 DEF Call, About
    <3>3. call[d].op = "upsert" /\ Deref(a, call[d].ref) = 0 /\ call[d].ref \in Ref
      BY <1>a, <2>2, <3>1, <3>2 DEF Call
    <3>4. /\ RefLater(call[d].ref).live = call[d].ref.live
          /\ RefLater(call[d].ref).val = Elapse(call[d].ref.val)
      BY <3>3 DEF RefLater, Ref
    <3>. QED
      BY <2>2, <3>2, <3>3, <3>4, ValueFacts DEF Deref
  <2>. QED
    BY <1>a, <2>1, <2>2, <2>3, ValueFacts DEF Certain
<1>13. CASE UNCHANGED vars
  BY <1>13, <1>a DEF vars, Certain, About, Idle, Deref
<1>. QED
  BY <1>1, <1>2, <1>3, <1>4, <1>5, <1>6, <1>7, <1>8, <1>9, <1>10, <1>11, <1>12, <1>13
  DEF Next

LEMMA InitSync == Init => SyncInv
<1>. SUFFICES ASSUME Init PROVE SyncInv
  OBVIOUS
<1>1. NoEntry \in Entry /\ ~NoEntry.ref.live
  BY ValueFacts, CopyType, SyncAssumption DEF NoEntry, Entry, Copy
<1>2. NoSnap \in [Auths -> Values \cup {Gone}]
  BY DEF NoSnap
<1>3. TypeOK
  BY <1>1, <1>2 DEF Init, TypeOK, Pick
<1>4. LiveIsHere
  BY <1>1 DEF Init, LiveIsHere, About, Idle
<1>5. SureIsKnown
  BY DEF Init, SureIsKnown
<1>. QED
  BY <1>3, <1>4, <1>5 DEF SyncInv

\* The inductive invariant of the manager, the calls under way, the scheduler's
\* copies and the picks holds in every reachable state.
THEOREM SyncInvariance == Spec => []SyncInv
<1>1. Init => SyncInv
  BY InitSync
<1>2. SyncInv /\ [Next]_vars => SyncInv'
  BY TypesKept, LiveKept, SureKept DEF SyncInv
<1>. QED
  BY <1>1, <1>2, PTL DEF Spec

\* Whatever order the calls of the scheduler arrive in, its entries and the
\* references they hold keep their types.
THEOREM SyncTypes == Spec => []TypeOK
<1>1. SyncInv => TypeOK
  BY DEF SyncInv
<1>. QED
  BY <1>1, SyncInvariance, PTL

\* pickNext tells a client that no auth is available only when every auth was
\* set aside, edited or spoken about while the pick went on.
THEOREM PickErrorsJustified == Spec => []PickFindsReady
<1>1. SyncInv => PickFindsReady
  <2>1. SyncInv => \A p \in Pickers : pick[p].sure \in SUBSET Auths
    BY DEF SyncInv, TypeOK, Pick
  <2>. QED
    BY <2>1 DEF SyncInv, SureIsKnown, PickFindsReady
<1>. QED
  BY <1>1, SyncInvariance, PTL

LEMMA ForgottenStep ==
    TypeOK /\ [Next]_vars =>
        \A a \in Auths : Forgotten(a) => Forgotten(a)' \/ \E c \in Callers : Store(c, a)
<1>. SUFFICES ASSUME TypeOK, [Next]_vars, NEW a \in Auths, Forgotten(a),
                     \A c \in Callers : ~Store(c, a)
              PROVE  Forgotten(a)'
  OBVIOUS
<1>. USE DEF Forgotten, Here, TypeOK
<1>1. ASSUME NEW c \in Callers, NEW b \in Auths, MarkResult(c, b) PROVE Forgotten(a)'
  <2>1. a # b
    BY <1>1 DEF MarkResult
  <2>2. PICK v : /\ auths' = [auths EXCEPT ![b] = v]
                 /\ call' = Calling(call, c, "upsert", b, Copy(v))
                 /\ pick' = Doubted(b, v)
    BY <1>1 DEF MarkResult
  <2>3. \A d \in Callers : ~About(d, a)'
    BY <2>1, <2>2 DEF Calling, About, Idle
  <2>4. \A p \in Pickers : pick'[p].pc = pick[p].pc /\ pick'[p].snap = pick[p].snap
    BY <2>2 DEF Doubted, Pick
  <2>. QED
    BY <1>1, <2>1, <2>2, <2>3, <2>4 DEF MarkResult
<1>2. ASSUME NEW c \in Callers, NEW b \in Auths, Store(c, b) PROVE Forgotten(a)'
  <2>1. a # b
    BY <1>2
  <2>2. PICK v : /\ auths' = [auths EXCEPT ![b] = v]
                 /\ call' = Calling(CallsKept(b), c, "upsert", b, [live |-> TRUE, val |-> 0])
                 /\ pick' = Doubted(b, v)
    BY <1>2 DEF Store
  <2>3. ASSUME NEW d \in Callers PROVE ~About(d, a)'
    <3>1. CASE d = c
      BY <2>1, <2>2, <3>1 DEF Calling, CallsKept, About
    <3>2. CASE d # c /\ About(d, b)
      <4>1. call'[d] = [call[d] EXCEPT !.ref = Kept(b, @)] /\ call[d] \in Call
        BY <2>2, <3>2 DEF Calling, CallsKept, About, Idle
      <4>. QED
        BY <2>1, <3>2, <4>1 DEF About, Call
    <3>3. CASE d # c /\ ~About(d, b)
      BY <2>2, <3>3 DEF Calling, CallsKept, About, Idle
    <3>. QED
      BY <3>1, <3>2, <3>3
  <2>4. \A p \in Pickers : pick'[p].pc = pick[p].pc /\ pick'[p].snap = pick[p].snap
    BY <2>2 DEF Doubted, Pick
  <2>5. sched'[a] = sched[a]
    BY <1>2, <2>1 DEF Store, SchedKept
  <2>. QED
    BY <2>1, <2>2, <2>3, <2>4, <2>5
<1>3. ASSUME NEW c \in Callers, NEW b \in Auths, Remove(c, b) PROVE Forgotten(a)'
  <2>1. a # b
    BY <1>3 DEF Remove
  <2>2. ASSUME NEW d \in Callers PROVE ~About(d, a)'
    <3>1. CASE d = c
      BY <1>3, <2>1, <3>1 DEF Remove, Calling, CallsKept, About
    <3>2. CASE d # c /\ About(d, b)
      <4>1. call'[d] = [call[d] EXCEPT !.ref = Kept(b, @)] /\ call[d] \in Call
        BY <1>3, <3>2 DEF Remove, Calling, CallsKept, About, Idle
      <4>. QED
        BY <2>1, <3>2, <4>1 DEF About, Call
    <3>3. CASE d # c /\ ~About(d, b)
      BY <1>3, <3>3 DEF Remove, Calling, CallsKept, About, Idle
    <3>. QED
      BY <3>1, <3>2, <3>3
  <2>3. \A p \in Pickers : pick'[p].pc = pick[p].pc /\ pick'[p].snap = pick[p].snap
    BY <1>3 DEF Remove, Doubted, Pick
  <2>4. sched'[a] = sched[a] /\ auths'[a] = auths[a]
    BY <1>3, <2>1 DEF Remove, SchedKept
  <2>. QED
    BY <2>2, <2>3, <2>4
<1>4. ASSUME NEW c \in Callers, NEW b \in Auths, RefreshEntry(c, b) PROVE Forgotten(a)'
  BY <1>4 DEF RefreshEntry, Calling, About, Idle
<1>5. ASSUME NEW b \in Auths, RefreshFailed(b) PROVE Forgotten(a)'
  BY <1>5 DEF RefreshFailed, About, Idle
<1>6. ASSUME NEW c \in Callers, Deliver(c) PROVE Forgotten(a)'
  <2>1. sched'[a] = sched[a]
    BY <1>6 DEF Deliver, About
  <2>. QED
    BY <1>6, <2>1 DEF Deliver, About, Idle
<1>7. ASSUME NEW p \in Pickers, BeginPick(p) PROVE Forgotten(a)'
  BY <1>7 DEF BeginPick, Pick, About, Idle
<1>8. ASSUME NEW p \in Pickers, TryPick(p) PROVE Forgotten(a)'
  <2>1. sched'[a] = sched[a]
    BY <1>8 DEF TryPick, Promoted
  <2>2. \A r \in Pickers : pick'[r].pc = "rebuild" =>
          pick[r].pc = "rebuild" /\ pick'[r].snap = pick[r].snap
    BY <1>8 DEF TryPick, Pick
  <2>. QED
    BY <1>8, <2>1, <2>2 DEF TryPick, About, Idle
<1>9. ASSUME NEW p \in Pickers, Snapshot(p) PROVE Forgotten(a)'
  BY <1>9 DEF Snapshot, Pick, About, Idle
<1>10. ASSUME NEW p \in Pickers, Rebuild(p) PROVE Forgotten(a)'
  <2>1. sched'[a] = NoEntry /\ NoEntry.state = "none"
    BY <1>10 DEF Rebuild, NoEntry
  <2>2. \A r \in Pickers : pick'[r].pc = "rebuild" =>
          pick[r].pc = "rebuild" /\ pick'[r].snap = pick[r].snap
    BY <1>10 DEF Rebuild, Pick
  <2>. QED
    BY <1>10, <2>1, <2>2 DEF Rebuild, About, Idle
<1>11. ASSUME NEW p \in Pickers, Answer(p) PROVE Forgotten(a)'
  BY <1>11 DEF Answer, Pick, About, Idle
<1>12. ASSUME Tick PROVE Forgotten(a)'
  <2>1. Elapse(Gone) = Gone
    BY DEF Elapse, Gone
  <2>2. auths'[a] = Gone /\ sched'[a].state = "none"
    BY <1>12, <2>1 DEF Tick, Entry
  <2>3. ASSUME NEW d \in Callers PROVE ~About(d, a)'
    <3>1. CASE Idle(d)
      BY <1>12, <3>1 DEF Tick, About, Idle
    <3>2. CASE ~Idle(d)
      <4>1. call'[d] = [call[d] EXCEPT !.ref = RefLater(@)] /\ call[d] \in Call
        BY <1>12, <3>2 DEF Tick, Idle
      <4>. QED
        BY <3>2, <4>1 DEF About, Call
    <3>. QED
      BY <3>1, <3>2
  <2>4. \A p \in Pickers : /\ pick'[p].pc = pick[p].pc
                           /\ pick'[p].snap[a] = Elapse(pick[p].snap[a])
    BY <1>12 DEF Tick, Pick
  <2>. QED
    BY <2>1, <2>2, <2>3, <2>4
<1>13. CASE UNCHANGED vars
  BY <1>13 DEF vars, About, Idle
<1>. QED
  BY <1>1, <1>2, <1>3, <1>4, <1>5, <1>6, <1>7, <1>8, <1>9, <1>10, <1>11, <1>12, <1>13
  DEF Next

\* An auth that neither the manager nor the scheduler knows, and that no call and
\* no snapshot still carries, is scheduled again only after a Register or Update.
THEOREM ForgottenForGood == Spec => ForgottenStays
<1>1. TypeOK /\ [Next]_vars =>
        [\A a \in Auths : Forgotten(a) =>
            Forgotten(a)' \/ \E c \in Callers : Store(c, a)]_vars
  BY ForgottenStep
<1>. QED
  BY <1>1, SyncTypes, PTL DEF Spec, ForgottenStays

-----------------------------------------------------------------------------
(* The refinement of CredentialPool.                                       *)

Known == {a \in Auths : ~Forgotten(a)}
PhaseOf == [p \in Pickers |-> Phase[pick[p].pc]]
SureOf == [p \in Pickers |-> pick[p].sure]

\* What a pick is sure of, the pool knows.
LEMMA SureInKnown == SyncInv => \A p \in Pickers : SureOf[p] \subseteq Known
<1>. SUFFICES ASSUME SyncInv, NEW p \in Pickers, NEW a \in pick[p].sure PROVE a \in Known
  BY DEF SureOf
<1>1. a \in Auths /\ auths[a] = 0
  BY DEF SyncInv, SureIsKnown, Certain
<1>. QED
  BY <1>1, ValueFacts DEF Known, Forgotten, Here

LEMMA SureInKnownNext == SyncInv' => \A p \in Pickers : SureOf'[p] \subseteq Known'
<1>. SUFFICES ASSUME SyncInv', NEW p \in Pickers, NEW a \in pick'[p].sure PROVE a \in Known'
  BY DEF SureOf
<1>1. a \in Auths /\ auths'[a] = 0
  BY DEF SyncInv, SureIsKnown, Certain
<1>. QED
  BY <1>1, ValueFacts DEF Known, Forgotten, Here

LEMMA PoolInitially == Init => Pool!PoolInit
<1>. SUFFICES ASSUME Init PROVE Pool!PoolInit
  OBVIOUS
<1>1. \A a \in Auths : Forgotten(a)
  BY DEF Init, Forgotten, Here, About, Idle, NoEntry
<1>. QED
  BY <1>1 DEF Init, Pool!PoolInit, Phase

\* Register and Update give the pool one auth, and leave what it knows of others.
LEMMA StoreGives ==
    ASSUME SyncInv, SyncInv', NEW c \in Callers, NEW a \in Auths, Store(c, a)
    PROVE  Pool!Give(a)
<1>. USE DEF SyncInv, TypeOK
<1>0. PICK v \in Values :
          /\ auths' = [auths EXCEPT ![a] = v]
          /\ call' = Calling(CallsKept(a), c, "upsert", a, [live |-> TRUE, val |-> 0])
          /\ pick' = Doubted(a, v)
          /\ sched' = SchedKept(a)
  BY DEF Store
<1>1. Here(a)'
  BY <1>0, ValueFacts DEF Here
<1>2. ASSUME NEW b \in Auths, b # a, Forgotten(b) PROVE Forgotten(b)'
  <2>1. auths'[b] = auths[b] /\ sched'[b] = sched[b]
    BY <1>0, <1>2 DEF SchedKept
  <2>2. \A x \in Callers : ~About(x, b)'
    BY <1>0, <1>2 DEF Forgotten, About, Idle, Calling, CallsKept, NoCall, Call
  <2>3. \A p \in Pickers : pick'[p].pc = pick[p].pc /\ pick'[p].snap = pick[p].snap
    BY <1>0 DEF Doubted, Pick
  <2>. QED
    BY <1>2, <2>1, <2>2, <2>3 DEF Forgotten, Here
<1>3. Known' \subseteq Known \cup {a} /\ a \in Known'
  BY <1>1, <1>2 DEF Known, Forgotten
<1>4. SureOf' \in {SureOf, [p \in Pickers |-> SureOf[p] \ {a}]}
  <2>1. CASE v = 0
    BY <1>0, <2>1 DEF SureOf, Doubted, Pick
  <2>2. CASE v # 0
    BY <1>0, <2>2 DEF SureOf, Doubted, Pick
  <2>. QED
    BY <2>1, <2>2
<1>5. PhaseOf' = PhaseOf
  BY <1>0 DEF PhaseOf, Doubted, Pick
<1>6. \A p \in Pickers : SureOf'[p] \subseteq Known'
  BY SureInKnownNext DEF SyncInv, TypeOK
<1>. QED
  BY <1>3, <1>4, <1>5, <1>6 DEF Pool!Give, Known, SureOf, PhaseOf

\* Every other step lets the pool forget, at most.
LEMMA OthersForget ==
    ASSUME SyncInv, SyncInv', [Next]_vars,
           \A c \in Callers, a \in Auths : ~Store(c, a)
    PROVE  Pool!Forgetting
<1>1. \A a \in Auths : Forgotten(a) => Forgotten(a)'
  BY ForgottenStep DEF SyncInv
<1>2. Known' \in SUBSET Known
  BY <1>1 DEF Known
<1>. QED
  BY <1>2, SureInKnownNext DEF Pool!Forgetting, Known, SureOf

\* A step of the manager, or of time, makes one auth doubtful or none.
LEMMA DoubtedDoubts ==
    ASSUME TypeOK, NEW a \in Auths, NEW v, pick' = Doubted(a, v)
    PROVE  Pool!Doubt(a) \/ (PhaseOf' = PhaseOf /\ SureOf' = SureOf)
<1>1. PhaseOf' = PhaseOf
  BY DEF PhaseOf, Doubted, TypeOK, Pick
<1>2. CASE v = 0
  <2>1. SureOf' = SureOf
    BY <1>2 DEF SureOf, Doubted, TypeOK, Pick
  <2>. QED
    BY <1>1, <2>1
<1>3. CASE v # 0
  <2>1. SureOf' = [p \in Pickers |-> SureOf[p] \ {a}]
    BY <1>3 DEF SureOf, Doubted, TypeOK, Pick
  <2>. QED
    BY <1>1, <2>1 DEF Pool!Doubt, PhaseOf, SureOf
<1>. QED
  BY <1>2, <1>3

\* A request that finds an auth, or none.
LEMMA TryPickImplements ==
    ASSUME SyncInv, SyncInv', NEW p \in Pickers, TryPick(p)
    PROVE  Pool!Found(p) \/ Pool!NoneReady(p) \/ (PhaseOf' = PhaseOf /\ SureOf' = SureOf)
<1>. DEFINE found == \E a \in Auths : Promoted[a].state = "ready"
<1>0. /\ pick[p].pc \in {"first", "again"}
      /\ sched' = Promoted
      /\ pick' = [pick EXCEPT
                ![p].pc = IF found THEN "idle" ELSE IF @ = "first" THEN "sync" ELSE "failed",
                ![p].sure = IF found THEN {} ELSE @]
  BY DEF TryPick
<1>. HIDE DEF found
<1>t. pick \in [Pickers -> Pick]
  BY DEF SyncInv, TypeOK
<1>1. CASE found
  <2>1. PhaseOf' = [PhaseOf EXCEPT ![p] = "idle"] /\ SureOf' = [SureOf EXCEPT ![p] = {}]
    BY <1>0, <1>t, <1>1 DEF PhaseOf, SureOf, Phase, Pick
  <2>2. PhaseOf[p] = "picking"
    BY <1>0, <1>t DEF PhaseOf, Phase
  <2>3. PICK a \in Auths : Promoted[a].state = "ready"
    BY <1>1 DEF found
  <2>4. a \in Known
    <3>1. sched[a].state # "none"
      BY <2>3 DEF Promoted
    <3>. QED
      BY <3>1 DEF Known, Forgotten
  <2>. QED
    BY <2>1, <2>2, <2>4 DEF Pool!Found, Known, PhaseOf, SureOf
<1>2. CASE ~found /\ pick[p].pc = "first"
  <2>1. PhaseOf' = PhaseOf /\ SureOf' = SureOf
    BY <1>0, <1>t, <1>2 DEF PhaseOf, SureOf, Phase, Pick
  <2>. QED
    BY <2>1
<1>3. CASE ~found /\ pick[p].pc = "again"
  <2>1. PhaseOf' = [PhaseOf EXCEPT ![p] = "failed"] /\ SureOf' = SureOf
    BY <1>0, <1>t, <1>3 DEF PhaseOf, SureOf, Phase, Pick
  <2>2. PhaseOf[p] = "picking"
    BY <1>0, <1>t DEF PhaseOf, Phase
  <2>3. pick'[p].pc = "failed"
    BY <1>0, <1>t, <1>3 DEF Pick
  <2>4. pick'[p].sure = {}
    BY <2>3 DEF SyncInv, SureIsKnown
  <2>5. SureOf[p] = {}
    BY <2>1, <2>4 DEF SureOf
  <2>. QED
    BY <2>1, <2>2, <2>5 DEF Pool!NoneReady, PhaseOf, SureOf
<1>. QED
  BY <1>0, <1>1, <1>2, <1>3

LEMMA PoolStep ==
    ASSUME SyncInv, SyncInv', [Next]_vars
    PROVE  [Pool!PoolNext]_(Pool!poolVars)
<1>. DEFINE Still == PhaseOf' = PhaseOf /\ SureOf' = SureOf
<1>t. TypeOK
  BY DEF SyncInv
<1>1. CASE \E c \in Callers, a \in Auths : Store(c, a)
  BY <1>1, StoreGives DEF Pool!PoolNext
<1>2. CASE \A c \in Callers, a \in Auths : ~Store(c, a)
  <2>0. Pool!Forgetting
    BY <1>2, OthersForget
  <2>. SUFFICES \/ \E a \in Auths : Pool!Doubt(a)
               \/ Still
               \/ \E p \in Pickers : \/ Pool!Begin(p) \/ Pool!Found(p)
                                     \/ Pool!NoneReady(p) \/ Pool!Told(p)
    BY <2>0 DEF Pool!PoolNext, PhaseOf, SureOf
  <2>1. ASSUME NEW c \in Callers, NEW a \in Auths, MarkResult(c, a)
        PROVE  Pool!Doubt(a) \/ Still
    <3>1. PICK v : pick' = Doubted(a, v)
      BY <2>1 DEF MarkResult
    <3>. QED
      BY <1>t, <3>1, DoubtedDoubts
  <2>2. ASSUME NEW c \in Callers, NEW a \in Auths, Remove(c, a)
        PROVE  Pool!Doubt(a) \/ Still
    BY <1>t, <2>2, DoubtedDoubts DEF Remove
  <2>3. ASSUME pick' = pick PROVE Still
    BY <2>3 DEF PhaseOf, SureOf
  <2>4. ASSUME NEW p \in Pickers, BeginPick(p) PROVE Pool!Begin(p)
    <3>1. pick[p].pc = "idle" /\ pick' = [pick EXCEPT ![p].pc = "first", ![p].sure = Certain]
      BY <2>4 DEF BeginPick
    <3>2. PhaseOf' = [PhaseOf EXCEPT ![p] = "picking"] /\ SureOf' = [SureOf EXCEPT ![p] = Certain]
      BY <1>t, <3>1 DEF PhaseOf, SureOf, Phase, TypeOK, Pick
    <3>3. PhaseOf[p] = "idle"
      BY <3>1 DEF PhaseOf, Phase
    <3>4. Certain \in SUBSET Known
      BY ValueFacts DEF Certain, Known, Forgotten, Here
    <3>. QED
      BY <3>2, <3>3, <3>4 DEF Pool!Begin, PhaseOf, SureOf, Known
  <2>5. ASSUME NEW p \in Pickers, TryPick(p)
        PROVE  Pool!Found(p) \/ Pool!NoneReady(p) \/ Still
    BY <2>5, TryPickImplements
  <2>6. ASSUME NEW p \in Pickers, Snapshot(p) \/ Rebuild(p) PROVE Still
    <3>1. CASE Snapshot(p)
      BY <1>t, <3>1 DEF Snapshot, PhaseOf, SureOf, Phase, TypeOK, Pick
    <3>2. CASE Rebuild(p)
      BY <1>t, <3>2 DEF Rebuild, PhaseOf, SureOf, Phase, TypeOK, Pick
    <3>. QED
      BY <2>6, <3>1, <3>2
  <2>7. ASSUME NEW p \in Pickers, Answer(p) PROVE Pool!Told(p)
    <3>1. pick[p].pc = "failed" /\ pick' = [pick EXCEPT ![p].pc = "idle", ![p].sure = {}]
      BY <2>7 DEF Answer
    <3>2. PhaseOf' = [PhaseOf EXCEPT ![p] = "idle"] /\ SureOf' = [SureOf EXCEPT ![p] = {}]
      BY <1>t, <3>1 DEF PhaseOf, SureOf, Phase, TypeOK, Pick
    <3>. QED
      BY <3>1, <3>2 DEF Pool!Told, PhaseOf, SureOf, Phase
  <2>8. ASSUME Tick PROVE Still
    <3>0. pick' = [p \in Pickers |->
                    [pick[p] EXCEPT !.snap = [a \in Auths |-> Elapse(pick[p].snap[a])]]]
      BY <2>8 DEF Tick
    <3>1. \A p \in Pickers : pick'[p].pc = pick[p].pc /\ pick'[p].sure = pick[p].sure
      BY <1>t, <3>0 DEF TypeOK, Pick
    <3>. QED
      BY <3>1 DEF PhaseOf, SureOf
  <2>9. CASE UNCHANGED vars
    BY <2>3, <2>9 DEF vars
  <2>10. ASSUME NEW c \in Callers, NEW a \in Auths, RefreshEntry(c, a) PROVE Still
    BY <2>3, <2>10 DEF RefreshEntry
  <2>11. ASSUME NEW c \in Callers, Deliver(c) PROVE Still
    BY <2>3, <2>11 DEF Deliver
  <2>12. ASSUME NEW a \in Auths, RefreshFailed(a) PROVE Still
    BY <2>3, <2>12 DEF RefreshFailed
  <2>. QED
    BY <1>2, <2>1, <2>2, <2>4, <2>5, <2>6, <2>7, <2>8, <2>9, <2>10, <2>11, <2>12 DEF Next
<1>. QED
  BY <1>1, <1>2

\* Manager and scheduler implement CredentialPool: seen from a request, the
\* copies, the calls that overtake each other and the rebuilds from old
\* snapshots are one pool that keeps its promise.
THEOREM PoolImplemented == Spec => ImplementsPool
<1>1. Init => Pool!PoolInit
  BY PoolInitially
<1>2. SyncInv /\ SyncInv' /\ [Next]_vars => [Pool!PoolNext]_(Pool!poolVars)
  BY PoolStep
<1>. QED
  BY <1>1, <1>2, SyncInvariance, PTL DEF Spec, ImplementsPool, Pool!PoolSpec

-----------------------------------------------------------------------------
(* SessionAffinity: why a conversation stays with its auth.                *)

\* What an auth is owed to is bound to it, long enough; a key never used is not
\* bound.
BoundInv ==
    \A k \in Keys :
        /\ owed[k] \in Auths => /\ binding[k].auth = owed[k]
                                /\ 0 < span[k] /\ span[k] <= binding[k].left
        /\ owed[k] = Nobody => binding[k].auth = Nobody

\* Where a pick stands that must end with an auth.
Leads(r) ==
    /\ r.alone /\ r.due \in r.list
    /\ \/ r.at = "look" /\ owed[r.key] = r.due
       \/ /\ r.at \in {"look", "inherit"} /\ FirstTurn[r.key] # NoKey
          /\ owed[r.key] = Nobody /\ owed[FirstTurn[r.key]] = r.due
       \/ r.at = "bind" /\ r.got = r.due

\* Nothing is owed to the first turn's key of one that is about to drop it.
PickInv(r) ==
    /\ r.at \in {"inherit", "drop"} => FirstTurn[r.key] # NoKey
    /\ r.at = "bind" => r.got # Nobody
    /\ r.at = "drop" => owed[FirstTurn[r.key]] \notin Auths
    /\ r.due # Unsure => Leads(r)

\* Who picks for a key that another pick is concerned with is not alone, nor is
\* the other.
AloneInv ==
    \A p, q \in Requests :
        p # q /\ picker[q].at # "idle" /\ picker[q].key \in Concerned(p)
            => ~picker[p].alone /\ ~picker[q].alone

AffinityInv ==
    AffinityTypeOK /\ BoundInv /\ AloneInv /\ \A p \in Requests : PickInv(picker[p])

LEMMA RestIs == /\ AtRest \in Picker /\ AtRest.at = "idle" /\ AtRest.due = Unsure
                /\ PickInv(AtRest) /\ PickInv(AtRest)'
<1>1. (CHOOSE k \in Keys : TRUE) \in Keys
  BY AffinityAssumption
<1>2. AtRest \in Picker /\ AtRest.at = "idle" /\ AtRest.due = Unsure
  BY <1>1 DEF AtRest, Picker
<1>. QED
  BY <1>2 DEF PickInv

LEMMA AffinityFields ==
    ASSUME AffinityTypeOK
    PROVE  /\ TTL \in Nat \ {0} /\ Nobody \notin Auths /\ Unsure \notin Auths /\ Unsure # Nobody
           /\ known \in SUBSET Auths
           /\ \A k \in Keys : /\ binding[k] = NoBinding \/ binding[k] \in [auth: Auths, left: 0..TTL]
                              /\ binding[k].left \in 0..TTL /\ binding[k].auth \in Auths \cup {Nobody}
                              /\ owed[k] \in Auths \cup {Nobody, Unsure} /\ span[k] \in 0..TTL
                              /\ FirstTurn[k] # NoKey => FirstTurn[k] \in Keys
           /\ \A p \in Requests : /\ picker[p] \in Picker
                                  /\ picker[p].key \in Keys /\ picker[p].list \in SUBSET Auths
                                  /\ picker[p].got \in Auths \cup {Nobody}
                                  /\ picker[p].due \in Auths \cup {Unsure}
                                  /\ picker[p].alone \in BOOLEAN
<1>1. /\ TTL \in Nat \ {0} /\ Nobody \notin Auths /\ Unsure \notin Auths /\ Unsure # Nobody
      /\ \A k \in Keys : FirstTurn[k] # NoKey => FirstTurn[k] \in Keys
  BY AffinityAssumption
<1>2. \A b \in Bindings : /\ b = NoBinding \/ b \in [auth: Auths, left: 0..TTL]
                          /\ b.left \in 0..TTL /\ b.auth \in Auths \cup {Nobody}
  BY <1>1 DEF Bindings, NoBinding
<1>3. \A k \in Keys : binding[k] \in Bindings
  BY DEF AffinityTypeOK
<1>4. \A p \in Requests : picker[p] \in Picker
  BY DEF AffinityTypeOK
<1>5. \A r \in Picker : /\ r.key \in Keys /\ r.list \in SUBSET Auths /\ r.got \in Auths \cup {Nobody}
                        /\ r.due \in Auths \cup {Unsure} /\ r.alone \in BOOLEAN
  BY DEF Picker
<1>. QED
  BY <1>1, <1>2, <1>3, <1>4, <1>5 DEF AffinityTypeOK

LEMMA AffinityInitially == AffinityInit => AffinityInv
<1>. SUFFICES ASSUME AffinityInit PROVE AffinityInv
  OBVIOUS
<1>1. AffinityTypeOK
  BY RestIs, AffinityAssumption DEF AffinityInit, AffinityTypeOK, Bindings
<1>2. BoundInv
  BY AffinityAssumption DEF AffinityInit, BoundInv, NoBinding
<1>3. AloneInv
  BY RestIs DEF AffinityInit, AloneInv
<1>4. \A p \in Requests : PickInv(picker[p])
  BY RestIs DEF AffinityInit
<1>. QED
  BY <1>1, <1>2, <1>3, <1>4 DEF AffinityInv

-----------------------------------------------------------------------------
(* SessionAffinity: who watches a step.                                    *)

\* In a step, q goes nowhere, is perhaps no longer alone or sure, and if it is
\* sure still, nothing changed that it relies on.
Watches(q) ==
    /\ picker'[q].at = picker[q].at /\ picker'[q].key = picker[q].key
    /\ picker'[q].list = picker[q].list /\ picker'[q].got = picker[q].got
    /\ picker'[q].alone => picker[q].alone
    /\ picker'[q].due # Unsure => /\ picker'[q].due = picker[q].due
                                  /\ picker'[q].alone = picker[q].alone
                                  /\ \A k \in Concerned(q) : owed'[k] = owed[k]
    /\ picker'[q] \in Picker

LEMMA ConcernedIs ==
    ASSUME AffinityTypeOK, NEW p \in Requests
    PROVE  picker[p].at # "idle" =>
              /\ picker[p].key \in Concerned(p)
              /\ FirstTurn[picker[p].key] # NoKey => FirstTurn[picker[p].key] \in Concerned(p)
BY AffinityFields, AffinityAssumption DEF Concerned

LEMMA WatchersKeep ==
    ASSUME AffinityTypeOK, NEW q \in Requests, PickInv(picker[q]), Watches(q),
           picker[q].at = "drop" => owed'[FirstTurn[picker[q].key]] \notin Auths
    PROVE  PickInv(picker[q])'
<1>1. /\ picker[q].at \in {"inherit", "drop"} => FirstTurn[picker[q].key] # NoKey
      /\ picker[q].at = "bind" => picker[q].got # Nobody
      /\ picker[q].due # Unsure => Leads(picker[q])
  BY DEF PickInv
<1>2. ASSUME picker'[q].due # Unsure PROVE Leads(picker[q])'
  <2>1. /\ picker'[q].due = picker[q].due /\ picker'[q].alone = picker[q].alone
        /\ \A k \in Concerned(q) : owed'[k] = owed[k]
        /\ Leads(picker[q])
    BY <1>1, <1>2 DEF Watches
  <2>2. picker[q].at # "idle"
    BY <2>1 DEF Leads
  <2>. QED
    BY <2>1, <2>2, ConcernedIs DEF Leads, Watches
<1>. QED
  BY <1>1, <1>2 DEF PickInv, Watches

\* Where no pick begins, pairs stay as they are.
LEMMA PairsKeep ==
    ASSUME AffinityTypeOK, AloneInv,
           \A q \in Requests : picker'[q].at # "idle" =>
               /\ picker[q].at # "idle" /\ picker'[q].key = picker[q].key
               /\ picker'[q].alone => picker[q].alone
    PROVE  AloneInv'
<1>. SUFFICES ASSUME NEW p \in Requests, NEW q \in Requests, p # q, picker'[q].at # "idle",
                     picker'[q].key \in Concerned(p)'
              PROVE  ~picker'[p].alone /\ ~picker'[q].alone
  BY DEF AloneInv
<1>1. picker'[p].at # "idle"
  BY DEF Concerned
<1>2. picker'[q].key = picker[q].key /\ picker'[p].key = picker[p].key /\ picker[p].at # "idle"
  BY <1>1
<1>3. picker[q].key \in Concerned(p)
  BY <1>1, <1>2 DEF Concerned
<1>4. ~picker[p].alone /\ ~picker[q].alone
  BY <1>3 DEF AloneInv
<1>. QED
  BY <1>1, <1>4

\* Release: who relied on it no longer does.
LEMMA Releases ==
    ASSUME AffinityTypeOK, NEW ks \in SUBSET Keys, Release(ks)
    PROVE  /\ \A q \in Requests : Watches(q)
           /\ picker' \in [Requests -> Picker] /\ owed' \in [Keys -> Auths \cup {Nobody, Unsure}]
           /\ \A k \in Keys : owed'[k] = IF k \in ks THEN Unsure ELSE owed[k]
<1>1. ASSUME NEW q \in Requests PROVE Watches(q)
  <2>1. picker[q] \in Picker
    BY AffinityFields
  <2>2. CASE ks \cap Concerned(q) # {}
    <3>1. picker'[q] = [picker[q] EXCEPT !.due = Unsure]
      BY <2>2 DEF Release
    <3>. QED
      BY <2>1, <3>1 DEF Watches, Picker
  <2>3. CASE ks \cap Concerned(q) = {}
    <3>1. picker'[q] = picker[q]
      BY <2>3 DEF Release
    <3>2. \A k \in Concerned(q) : owed'[k] = owed[k]
      <4>1. \A k \in Concerned(q) : k \in Keys /\ k \notin ks
        BY <2>3, AffinityFields, AffinityAssumption DEF Concerned
      <4>. QED
        BY <4>1 DEF Release
    <3>. QED
      BY <2>1, <3>1, <3>2 DEF Watches
  <2>. QED
    BY <2>2, <2>3
<1>2. picker' \in [Requests -> Picker]
  BY <1>1 DEF Release, Watches
<1>. QED
  BY <1>1, <1>2, AffinityFields DEF Release

\* Return: the others watch.
LEMMA Returned ==
    ASSUME AffinityTypeOK, NEW p \in Requests, NEW a \in Auths, Return(p, a)
    PROVE  /\ \A q \in Requests \ {p} : Watches(q)
           /\ picker'[p] = AtRest
           /\ picker' \in [Requests -> Picker] /\ owed' \in [Keys -> Auths \cup {Nobody, Unsure}]
           /\ span' \in [Keys -> 0..TTL]
           /\ \A k \in Keys \ {picker[p].key} : owed'[k] = owed[k] /\ span'[k] = span[k]
           /\ picker[p].alone => owed'[picker[p].key] = a /\ span'[picker[p].key] = TTL
           /\ ~picker[p].alone => owed'[picker[p].key] = Unsure
<1>. DEFINE k == picker[p].key
            now == IF picker[p].alone THEN a ELSE Unsure
<1>1. /\ owed' = [owed EXCEPT ![k] = now]
      /\ span' = [span EXCEPT ![k] = IF now = Unsure THEN 0 ELSE TTL]
      /\ picker' = [q \in Requests |->
               IF q = p THEN AtRest
               ELSE IF k \in Concerned(q) /\ now # owed[k]
                    THEN [picker[q] EXCEPT !.due = Unsure] ELSE picker[q]]
  BY DEF Return
<1>2. /\ k \in Keys /\ owed \in [Keys -> Auths \cup {Nobody, Unsure}] /\ span \in [Keys -> 0..TTL]
      /\ 0 \in 0..TTL /\ TTL \in 0..TTL /\ now \in Auths \cup {Unsure} /\ a # Unsure
  BY AffinityFields DEF AffinityTypeOK
<1>3. /\ now = IF picker[p].alone THEN a ELSE Unsure
      /\ picker[p].alone => now = a
      /\ ~picker[p].alone => now = Unsure
  OBVIOUS
<1>. HIDE DEF k, now
<1>4. /\ owed' \in [Keys -> Auths \cup {Nobody, Unsure}] /\ span' \in [Keys -> 0..TTL]
      /\ \A j \in Keys \ {k} : owed'[j] = owed[j] /\ span'[j] = span[j]
      /\ owed'[k] = now /\ (now # Unsure => span'[k] = TTL)
  BY <1>1, <1>2
<1>5. ASSUME NEW q \in Requests \ {p} PROVE Watches(q)
  <2>1. picker[q] \in Picker
    BY AffinityFields
  <2>2. CASE k \in Concerned(q) /\ now # owed[k]
    <3>1. picker'[q] = [picker[q] EXCEPT !.due = Unsure]
      BY <1>1, <2>2
    <3>. QED
      BY <2>1, <3>1 DEF Watches, Picker
  <2>3. CASE ~(k \in Concerned(q) /\ now # owed[k])
    <3>1. picker'[q] = picker[q]
      BY <1>1, <2>3
    <3>2. \A j \in Concerned(q) : owed'[j] = owed[j]
      <4>1. \A j \in Concerned(q) : j \in Keys
        BY AffinityFields, AffinityAssumption DEF Concerned
      <4>. QED
        BY <1>4, <2>3, <4>1
    <3>. QED
      BY <2>1, <3>1, <3>2 DEF Watches
  <2>. QED
    BY <2>2, <2>3
<1>6. picker'[p] = AtRest
  BY <1>1
<1>7. picker' \in [Requests -> Picker]
  BY <1>1, <1>5, <1>6, RestIs DEF Watches
<1>. QED
  BY <1>2, <1>3, <1>4, <1>5, <1>6, <1>7 DEF k

\* A step of a pick that goes on.
GoesOn(p) ==
    /\ picker'[p].at # "idle" /\ picker[p].at # "idle" /\ picker'[p] \in Picker
    /\ picker'[p].key = picker[p].key /\ picker'[p].list = picker[p].list
    /\ picker'[p].alone = picker[p].alone /\ picker'[p].due = picker[p].due
    /\ picker' = [picker EXCEPT ![p] = picker'[p]]
    /\ owed' = owed /\ span' = span

LEMMA GoneOn ==
    ASSUME AffinityTypeOK, AloneInv, NEW p \in Requests, GoesOn(p)
    PROVE  /\ \A q \in Requests \ {p} : Watches(q)
           /\ picker' \in [Requests -> Picker] /\ AloneInv'
<1>1. /\ picker \in [Requests -> Picker] /\ \A q \in Requests : picker[q] \in Picker
  BY DEF AffinityTypeOK
<1>2. \A q \in Requests \ {p} : picker'[q] = picker[q]
  BY <1>1 DEF GoesOn
<1>3. picker' \in [Requests -> Picker]
  BY <1>1 DEF GoesOn
<1>4. AloneInv'
  BY <1>2, PairsKeep DEF GoesOn
<1>. QED
  BY <1>1, <1>2, <1>3, <1>4 DEF GoesOn, Watches

LEMMA Steps ==
    ASSUME AffinityTypeOK, NEW p \in Requests, picker[p].at # "idle",
           NEW at \in {"inherit", "drop", "choose", "bind"}, Step(p, at), UNCHANGED <<owed, span>>
    PROVE  GoesOn(p) /\ picker'[p] = [picker[p] EXCEPT !.at = at] /\ picker'[p].at = at
<1>1. picker \in [Requests -> Picker] /\ picker[p] \in Picker
  BY DEF AffinityTypeOK
<1>2. picker'[p] = [picker[p] EXCEPT !.at = at]
  BY <1>1 DEF Step
<1>. QED
  BY <1>1, <1>2 DEF GoesOn, Step, Picker

\* Who is owed an auth finds it.
LEMMA Found ==
    ASSUME AffinityTypeOK, BoundInv, NEW k \in Keys, owed[k] \in Auths
    PROVE  Valid(k) /\ ~Expires(k) /\ binding[k].auth = owed[k]
BY AffinityFields DEF BoundInv, Valid, Expires

\* After Return, with the binding in place.
LEMMA ReturnKeeps ==
    ASSUME AffinityInv, NEW p \in Requests, picker[p].at # "idle", NEW a \in Auths, Return(p, a),
           binding' = [binding EXCEPT ![picker[p].key] = [auth |-> a, left |-> TTL]],
           UNCHANGED <<known, leaving>>
    PROVE  AffinityInv'
<1>. DEFINE k == picker[p].key
<1>0. /\ AffinityTypeOK /\ BoundInv /\ AloneInv /\ \A q \in Requests : PickInv(picker[q])
  BY DEF AffinityInv
<1>1. /\ \A q \in Requests \ {p} : Watches(q)
      /\ picker'[p] = AtRest
      /\ picker' \in [Requests -> Picker] /\ owed' \in [Keys -> Auths \cup {Nobody, Unsure}]
      /\ span' \in [Keys -> 0..TTL]
      /\ \A j \in Keys \ {k} : owed'[j] = owed[j] /\ span'[j] = span[j]
      /\ picker[p].alone => owed'[k] = a /\ span'[k] = TTL
      /\ ~picker[p].alone => owed'[k] = Unsure
  BY <1>0, Returned
<1>2. k \in Keys /\ TTL \in Nat \ {0} /\ Unsure \notin Auths /\ Unsure # Nobody /\ a # Nobody
  BY <1>0, AffinityFields
<1>3. binding \in [Keys -> Bindings] /\ [auth |-> a, left |-> TTL] \in Bindings
  BY <1>0, <1>2 DEF AffinityTypeOK, Bindings
<1>4. /\ binding' \in [Keys -> Bindings] /\ binding'[k].auth = a /\ binding'[k].left = TTL
      /\ \A j \in Keys \ {k} : binding'[j] = binding[j]
  BY <1>2, <1>3
<1>5. AffinityTypeOK'
  BY <1>0, <1>1, <1>4 DEF AffinityTypeOK
<1>. HIDE DEF k
<1>6. BoundInv'
  <2>. SUFFICES ASSUME NEW j \in Keys
                PROVE  /\ owed'[j] \in Auths => /\ binding'[j].auth = owed'[j]
                                                /\ 0 < span'[j] /\ span'[j] <= binding'[j].left
                       /\ owed'[j] = Nobody => binding'[j].auth = Nobody
    BY DEF BoundInv
  <2>1. CASE j = k
    BY <1>1, <1>2, <1>4, <2>1
  <2>2. CASE j # k
    BY <1>0, <1>1, <1>4, <2>2 DEF BoundInv
  <2>. QED
    BY <2>1, <2>2
<1>7. AloneInv'
  BY <1>0, <1>1, RestIs, PairsKeep DEF Watches
<1>8. ASSUME NEW q \in Requests PROVE PickInv(picker[q])'
  <2>1. CASE q = p
    BY <1>1, <2>1, RestIs DEF PickInv
  <2>2. CASE q # p
    <3>1. ASSUME picker[q].at = "drop" PROVE owed'[FirstTurn[picker[q].key]] \notin Auths
      <4>. DEFINE f == FirstTurn[picker[q].key]
      <4>1. f # NoKey /\ owed[f] \notin Auths /\ f \in Keys
        BY <1>0, <3>1, AffinityFields DEF PickInv
      <4>2. f \in Concerned(q)
        BY <1>0, <3>1, <4>1, ConcernedIs
      <4>3. f = k => ~picker[p].alone
        BY <1>0, <2>2, <4>2 DEF AloneInv, k
      <4>. QED
        BY <1>1, <1>2, <4>1, <4>3
    <3>. QED
      BY <1>0, <1>1, <2>2, <3>1, WatchersKeep
  <2>. QED
    BY <2>1, <2>2
<1>. QED
  BY <1>5, <1>6, <1>7, <1>8 DEF AffinityInv

LEMMA SessionBegins ==
    ASSUME AffinityInv, NEW p \in Requests, NEW k \in Keys, NEW list \in SUBSET known,
           BeginSessionPick(p, k, list)
    PROVE  AffinityInv'
<1>. DEFINE shares(q) == \/ k \in Concerned(q)
                         \/ (picker[q].at # "idle" /\ picker[q].key = FirstTurn[k])
            now == [at |-> "look", key |-> k, list |-> list, got |-> Nobody,
                    alone |-> \A o \in Requests : ~shares(o),
                    due |-> IF \E o \in Requests : shares(o) THEN Unsure ELSE Due(k, list)]
<1>0. /\ AffinityTypeOK /\ BoundInv /\ AloneInv /\ \A q \in Requests : PickInv(picker[q])
  BY DEF AffinityInv
<1>1. /\ picker[p].at = "idle" /\ UNCHANGED <<known, leaving, binding, owed, span>>
      /\ picker' = [q \in Requests |->
             IF q = p THEN now
             ELSE IF shares(q) THEN [picker[q] EXCEPT !.alone = FALSE, !.due = Unsure]
             ELSE picker[q]]
  BY DEF BeginSessionPick
<1>2. /\ list \in SUBSET Auths /\ Unsure \notin Auths /\ Unsure # Nobody /\ Nobody \notin Auths
      /\ owed[k] \in Auths \cup {Nobody, Unsure}
      /\ \A q \in Requests : picker[q] \in Picker
  BY <1>0, AffinityFields
<1>3. Due(k, list) # Unsure =>
          /\ Due(k, list) \in list
          /\ \/ owed[k] = Due(k, list)
             \/ owed[k] = Nobody /\ FirstTurn[k] # NoKey /\ owed[FirstTurn[k]] = Due(k, list)
  BY DEF Due
<1>4. /\ now.at = "look" /\ now.key = k /\ now.list = list /\ now.got = Nobody
      /\ now.alone = (\A o \in Requests : ~shares(o))
      /\ now.due # Unsure => now.due = Due(k, list) /\ now.alone
  OBVIOUS
<1>5. now \in Picker
  <2>1. Due(k, list) \in Auths \cup {Unsure}
    BY <1>2, <1>3
  <2>2. (IF \E o \in Requests : shares(o) THEN Unsure ELSE Due(k, list)) \in Auths \cup {Unsure}
    BY <2>1
  <2>3. (\A o \in Requests : ~shares(o)) \in BOOLEAN
    OBVIOUS
  <2>. HIDE DEF shares
  <2>. QED
    BY <1>2, <2>2, <2>3 DEF Picker
<1>6. picker'[p] = now
  BY <1>1
<1>7. ASSUME NEW q \in Requests \ {p}
      PROVE  /\ Watches(q)
             /\ shares(q) => ~picker'[q].alone
  <2>. HIDE DEF now
  <2>1. CASE shares(q)
    <3>1. picker'[q] = [picker[q] EXCEPT !.alone = FALSE, !.due = Unsure]
      BY <1>1, <2>1
    <3>. HIDE DEF shares
    <3>2. picker[q] \in Picker
      BY <1>2
    <3>. QED
      BY <3>1, <3>2 DEF Watches, Picker
  <2>2. CASE ~shares(q)
    <3>1. picker'[q] = picker[q]
      BY <1>1, <2>2
    <3>. HIDE DEF shares
    <3>. QED
      BY <1>1, <1>2, <2>2, <3>1 DEF Watches
  <2>. QED
    BY <2>1, <2>2
<1>8. AffinityTypeOK'
  <2>1. picker' \in [Requests -> Picker]
    <3>1. \A q \in Requests : picker'[q] \in Picker
      BY <1>5, <1>6, <1>7 DEF Watches
    <3>. HIDE DEF now, shares
    <3>. QED
      BY <1>1, <3>1
  <2>. QED
    BY <1>0, <1>1, <2>1 DEF AffinityTypeOK
<1>9. BoundInv'
  BY <1>0, <1>1 DEF BoundInv
<1>10. AloneInv'
  <2>. SUFFICES ASSUME NEW r \in Requests, NEW q \in Requests, r # q, picker'[q].at # "idle",
                       picker'[q].key \in Concerned(r)'
                PROVE  ~picker'[r].alone /\ ~picker'[q].alone
    BY DEF AloneInv
  <2>1. picker'[r].at # "idle"
    BY DEF Concerned
  <2>2. CASE r = p
    <3>1. picker[q].key \in {k, FirstTurn[k]} \ {NoKey} /\ picker[q].at # "idle" /\ q \in Requests \ {p}
      BY <1>4, <1>6, <1>7, <2>2 DEF Concerned, Watches
    <3>2. shares(q)
      BY <3>1 DEF Concerned
    <3>3. ~picker'[q].alone
      BY <1>7, <3>1, <3>2
    <3>4. ~now.alone
      BY <1>4, <3>2
    <3>. QED
      BY <1>6, <2>2, <3>3, <3>4
  <2>3. CASE q = p
    <3>1. k \in Concerned(r) /\ r \in Requests \ {p}
      BY <1>4, <1>6, <1>7, <2>1, <2>3 DEF Concerned, Watches
    <3>2. shares(r)
      BY <3>1
    <3>3. ~picker'[r].alone
      BY <1>7, <3>1, <3>2
    <3>4. ~now.alone
      BY <1>4, <3>2
    <3>. QED
      BY <1>6, <2>3, <3>3, <3>4
  <2>4. CASE r # p /\ q # p
    <3>1. picker[q].at # "idle" /\ picker[q].key \in Concerned(r)
      BY <1>7, <2>1, <2>4 DEF Concerned, Watches
    <3>2. ~picker[r].alone /\ ~picker[q].alone
      BY <1>0, <2>4, <3>1 DEF AloneInv
    <3>. QED
      BY <1>7, <2>4, <3>2 DEF Watches
  <2>. QED
    BY <2>2, <2>3, <2>4
<1>11. ASSUME NEW q \in Requests PROVE PickInv(picker[q])'
  <2>1. CASE q = p
    <3>1. picker'[p] = now /\ owed' = owed
      BY <1>1, <1>6
    <3>. HIDE DEF now
    <3>2. now.due # Unsure => now.alone /\ now.due \in now.list /\ now.at = "look"
            /\ (\/ owed[now.key] = now.due
                \/ owed[now.key] = Nobody /\ FirstTurn[now.key] # NoKey
                   /\ owed[FirstTurn[now.key]] = now.due)
      BY <1>3, <1>4
    <3>. QED
      BY <1>4, <2>1, <3>1, <3>2 DEF PickInv, Leads
  <2>2. CASE q # p
    <3>1. picker[q].at = "drop" => owed'[FirstTurn[picker[q].key]] \notin Auths
      BY <1>0, <1>1 DEF PickInv
    <3>. QED
      BY <1>0, <1>7, <2>2, <3>1, WatchersKeep
  <2>. QED
    BY <2>1, <2>2
<1>. QED
  BY <1>8, <1>9, <1>10, <1>11 DEF AffinityInv

LEMMA Proceeds ==
    ASSUME AffinityInv, NEW p \in Requests, GoesOn(p), UNCHANGED <<known, leaving>>,
           binding' \in [Keys -> Bindings], BoundInv', PickInv(picker'[p])
    PROVE  AffinityInv'
<1>0. /\ AffinityTypeOK /\ AloneInv /\ \A q \in Requests : PickInv(picker[q])
  BY DEF AffinityInv
<1>1. /\ \A q \in Requests \ {p} : Watches(q)
      /\ picker' \in [Requests -> Picker] /\ AloneInv'
  BY <1>0, GoneOn
<1>2. owed' = owed /\ span' = span
  BY DEF GoesOn
<1>3. AffinityTypeOK'
  BY <1>0, <1>1, <1>2 DEF AffinityTypeOK
<1>4. PickInv(picker[p])'
  BY <1>2 DEF PickInv, Leads
<1>5. ASSUME NEW q \in Requests \ {p} PROVE PickInv(picker[q])'
  BY <1>0, <1>1, <1>2, WatchersKeep DEF PickInv
<1>. QED
  BY <1>1, <1>3, <1>4, <1>5 DEF AffinityInv

LEMMA SessionLooks ==
    ASSUME AffinityInv, NEW p \in Requests, Look(p)
    PROVE  /\ AffinityInv'
           /\ picker[p].due # Unsure /\ picker'[p].at = "idle"
                 => owed'[picker[p].key] = picker[p].due
<1>. DEFINE k == picker[p].key
            r == picker[p]
<1>0. /\ AffinityTypeOK /\ BoundInv /\ AloneInv /\ PickInv(r)
  BY DEF AffinityInv
<1>1. /\ r.at = "look" /\ UNCHANGED <<known, leaving>>
      /\ binding' = [binding EXCEPT ![k] = IF Valid(k) THEN [@ EXCEPT !.left = TTL] ELSE NoBinding]
  BY DEF Look
<1>2. /\ k \in Keys /\ r \in Picker /\ r.list \in SUBSET Auths /\ TTL \in Nat \ {0}
      /\ Unsure \notin Auths /\ Nobody \notin Auths
      /\ binding[k] = NoBinding \/ binding[k] \in [auth: Auths, left: 0..TTL]
      /\ \A j \in Keys : span[j] \in 0..TTL /\ binding[j].left \in 0..TTL
  BY <1>0, AffinityFields
<1>3. binding \in [Keys -> Bindings] /\ NoBinding \in Bindings
  BY <1>0 DEF AffinityTypeOK, Bindings
<1>4. r.due # Unsure => /\ r.alone /\ r.due \in Auths /\ r.due \in r.list
                        /\ \/ owed[k] = r.due
                           \/ /\ FirstTurn[k] # NoKey /\ owed[k] = Nobody
                              /\ owed[FirstTurn[k]] = r.due
  BY <1>0, <1>1, <1>2 DEF PickInv, Leads
<1>5. owed[k] = Nobody => ~Valid(k)
  BY <1>0, <1>2 DEF BoundInv, Valid
<1>6. owed[k] \in Auths => Valid(k) /\ binding[k].auth = owed[k]
  BY <1>0, <1>2, Found
<1>7. CASE Valid(k) /\ binding[k].auth \in r.list /\ Return(p, binding[k].auth)
  <2>1. binding[k] \in [auth: Auths, left: 0..TTL] /\ binding[k].auth \in Auths
    BY <1>2, <1>7 DEF Valid, NoBinding
  <2>2. binding' = [binding EXCEPT ![k] = [auth |-> binding[k].auth, left |-> TTL]]
    <3>1. [binding[k] EXCEPT !.left = TTL] = [auth |-> binding[k].auth, left |-> TTL]
      BY <2>1
    <3>. HIDE DEF k
    <3>. QED
      BY <1>1, <1>7, <3>1
  <2>3. AffinityInv'
    BY <1>1, <1>7, <2>1, <2>2, ReturnKeeps
  <2>4. r.due # Unsure => owed'[k] = r.due
    <3>1. r.alone => owed'[k] = binding[k].auth
      BY <1>0, <1>7, <2>1, Returned
    <3>. QED
      BY <1>4, <1>5, <1>6, <1>7, <3>1
  <2>. QED
    BY <2>3, <2>4
<1>8. CASE Valid(k) /\ binding[k].auth \notin r.list /\ Step(p, "choose") /\ UNCHANGED <<owed, span>>
  <2>1. GoesOn(p) /\ picker'[p] = [r EXCEPT !.at = "choose"] /\ picker'[p].at = "choose"
    BY <1>0, <1>1, <1>8, Steps
  <2>2. r.due = Unsure
    BY <1>4, <1>5, <1>6, <1>8
  <2>3. PickInv(picker'[p])
    BY <1>2, <2>1, <2>2 DEF PickInv, GoesOn
  <2>4. binding[k] \in [auth: Auths, left: 0..TTL]
    BY <1>2, <1>8 DEF Valid, NoBinding
  <2>5. [binding[k] EXCEPT !.left = TTL] \in Bindings
    BY <1>2, <2>4 DEF Bindings
  <2>6. /\ binding' \in [Keys -> Bindings] /\ binding'[k] = [binding[k] EXCEPT !.left = TTL]
        /\ \A j \in Keys \ {k} : binding'[j] = binding[j]
    BY <1>1, <1>2, <1>3, <1>8, <2>5
  <2>7. binding'[k].auth = binding[k].auth /\ binding'[k].left = TTL
    BY <2>4, <2>6
  <2>8. BoundInv'
    <3>. SUFFICES ASSUME NEW j \in Keys
                  PROVE  /\ owed[j] \in Auths => /\ binding'[j].auth = owed[j]
                                                 /\ 0 < span[j] /\ span[j] <= binding'[j].left
                         /\ owed[j] = Nobody => binding'[j].auth = Nobody
      BY <1>8 DEF BoundInv
    <3>1. /\ owed[j] \in Auths => /\ binding[j].auth = owed[j]
                                  /\ 0 < span[j] /\ span[j] <= binding[j].left
          /\ owed[j] = Nobody => binding[j].auth = Nobody
      BY <1>0 DEF BoundInv
    <3>2. span[j] <= TTL
      BY <1>2
    <3>3. CASE j = k
      BY <2>7, <3>1, <3>2, <3>3
    <3>4. CASE j # k
      BY <2>6, <3>1, <3>4
    <3>. QED
      BY <3>3, <3>4
  <2>9. AffinityInv'
    BY <1>1, <2>1, <2>3, <2>6, <2>8, Proceeds
  <2>. QED
    BY <2>1, <2>9
<1>9. CASE ~Valid(k) /\ Step(p, IF FirstTurn[k] # NoKey THEN "inherit" ELSE "choose")
           /\ UNCHANGED <<owed, span>>
  <2>. DEFINE at == IF FirstTurn[k] # NoKey THEN "inherit" ELSE "choose"
  <2>1. at \in {"inherit", "drop", "choose", "bind"} /\ at \in {"inherit", "choose"}
    OBVIOUS
  <2>2. GoesOn(p) /\ picker'[p] = [r EXCEPT !.at = at] /\ picker'[p].at = at
    BY <1>0, <1>1, <1>9, <2>1, Steps
  <2>3. PickInv(picker'[p])
    <3>1. /\ picker'[p].key = k /\ picker'[p].list = r.list /\ picker'[p].due = r.due
          /\ picker'[p].alone = r.alone
      BY <2>2 DEF GoesOn
    <3>2. at = "inherit" => FirstTurn[k] # NoKey
      OBVIOUS
    <3>3. r.due # Unsure => /\ at = "inherit" /\ r.alone /\ r.due \in r.list /\ FirstTurn[k] # NoKey
                            /\ owed[k] = Nobody /\ owed[FirstTurn[k]] = r.due
      BY <1>4, <1>6, <1>9
    <3>. HIDE DEF at, k, r
    <3>. QED
      BY <2>1, <2>2, <3>1, <3>2, <3>3 DEF PickInv, Leads
  <2>4. /\ binding' \in [Keys -> Bindings] /\ binding'[k] = NoBinding
        /\ \A j \in Keys \ {k} : binding'[j] = binding[j]
    BY <1>1, <1>2, <1>3, <1>9
  <2>5. BoundInv'
    <3>1. owed[k] \notin Auths /\ NoBinding.auth = Nobody
      BY <1>6, <1>9 DEF NoBinding
    <3>. HIDE DEF k
    <3>. QED
      BY <1>0, <1>9, <2>4, <3>1 DEF BoundInv
  <2>6. AffinityInv'
    BY <1>1, <2>2, <2>3, <2>4, <2>5, Proceeds
  <2>. QED
    BY <2>1, <2>2, <2>6
<1>. QED
  BY <1>7, <1>8, <1>9 DEF Look

\* Where the binding stays.
LEMMA BoundStays ==
    ASSUME BoundInv, UNCHANGED <<binding, owed, span>> PROVE BoundInv'
BY DEF BoundInv

LEMMA SessionInherits ==
    ASSUME AffinityInv, NEW p \in Requests, Inherit(p)
    PROVE  AffinityInv' /\ picker'[p].at # "idle"
<1>. DEFINE r == picker[p]
            k == FirstTurn[r.key]
<1>0. /\ AffinityTypeOK /\ BoundInv /\ AloneInv /\ PickInv(r)
  BY DEF AffinityInv
<1>1. /\ r.at = "inherit" /\ UNCHANGED <<known, leaving, binding, owed, span>>
      /\ IF Valid(k) /\ binding[k].auth \in r.list
         THEN picker' = [picker EXCEPT ![p].at = "bind", ![p].got = binding[k].auth]
         ELSE Step(p, IF Expires(k) THEN "drop" ELSE "choose")
  BY DEF Inherit
<1>2. /\ r \in Picker /\ r.list \in SUBSET Auths /\ picker \in [Requests -> Picker]
      /\ Nobody \notin Auths /\ Unsure \notin Auths
  BY <1>0, AffinityFields DEF AffinityTypeOK
<1>3. k # NoKey /\ k \in Keys
  BY <1>0, <1>1, <1>2, AffinityFields DEF PickInv
<1>4. owed[k] \in Auths => Valid(k) /\ ~Expires(k) /\ binding[k].auth = owed[k]
  BY <1>0, <1>3, Found
<1>5. r.due # Unsure => /\ r.alone /\ r.due \in Auths /\ r.due \in r.list /\ owed[k] = r.due
  BY <1>0, <1>1, <1>2 DEF PickInv, Leads
<1>6. BoundInv' /\ binding' \in [Keys -> Bindings]
  BY <1>0, <1>1, BoundStays DEF AffinityTypeOK
<1>7. CASE Valid(k) /\ binding[k].auth \in r.list
  <2>1. /\ picker'[p] = [r EXCEPT !.at = "bind", !.got = binding[k].auth]
        /\ picker' = [picker EXCEPT ![p] = picker'[p]]
    BY <1>1, <1>2, <1>7
  <2>2. binding[k].auth \in Auths
    BY <1>2, <1>7
  <2>3. /\ GoesOn(p) /\ picker'[p].at = "bind" /\ picker'[p].got = binding[k].auth
    BY <1>1, <1>2, <2>1, <2>2 DEF GoesOn, Picker
  <2>4. PickInv(picker'[p])
    <3>. HIDE DEF k
    <3>. QED
      BY <1>2, <1>4, <1>5, <2>2, <2>3 DEF PickInv, Leads, GoesOn
  <2>. QED
    BY <1>1, <1>6, <2>3, <2>4, Proceeds
<1>8. CASE ~(Valid(k) /\ binding[k].auth \in r.list)
  <2>. DEFINE at == IF Expires(k) THEN "drop" ELSE "choose"
  <2>1. at \in {"inherit", "drop", "choose", "bind"} /\ at \in {"drop", "choose"}
    OBVIOUS
  <2>2. GoesOn(p) /\ picker'[p] = [r EXCEPT !.at = at] /\ picker'[p].at = at
    BY <1>0, <1>1, <1>8, <2>1, Steps
  <2>3. at = "drop" => owed[k] \notin Auths
    BY <1>4
  <2>4. r.due = Unsure
    BY <1>4, <1>5, <1>8
  <2>5. PickInv(picker'[p])
    <3>1. picker'[p].due = Unsure /\ FirstTurn[picker'[p].key] = k
      BY <2>2, <2>4 DEF GoesOn
    <3>. HIDE DEF at, k
    <3>. QED
      BY <1>3, <2>1, <2>2, <2>3, <3>1 DEF PickInv
  <2>. QED
    BY <1>1, <1>6, <2>1, <2>2, <2>5, Proceeds
<1>. QED
  BY <1>7, <1>8

LEMMA SessionDrops ==
    ASSUME AffinityInv, NEW p \in Requests, DropExpired(p)
    PROVE  AffinityInv' /\ picker'[p].at # "idle"
<1>. DEFINE r == picker[p]
            k == FirstTurn[r.key]
<1>0. /\ AffinityTypeOK /\ BoundInv /\ AloneInv /\ PickInv(r)
  BY DEF AffinityInv
<1>1. /\ r.at = "drop" /\ UNCHANGED <<known, leaving, owed, span>> /\ Step(p, "choose")
      /\ binding' = [binding EXCEPT ![k] = NoBinding]
  BY DEF DropExpired
<1>2. k # NoKey /\ k \in Keys /\ owed[k] \notin Auths
  BY <1>0, <1>1, AffinityFields DEF PickInv
<1>3. GoesOn(p) /\ picker'[p].at = "choose"
  BY <1>0, <1>1, Steps
<1>4. r.due = Unsure
  BY <1>0, <1>1 DEF PickInv, Leads
<1>5. PickInv(picker'[p])
  BY <1>3, <1>4 DEF PickInv, GoesOn
<1>6. /\ binding' \in [Keys -> Bindings] /\ binding'[k] = NoBinding
      /\ \A j \in Keys \ {k} : binding'[j] = binding[j]
  BY <1>0, <1>1, <1>2 DEF AffinityTypeOK, Bindings
<1>7. BoundInv'
  <2>1. NoBinding.auth = Nobody
    BY DEF NoBinding
  <2>. HIDE DEF k
  <2>. QED
    BY <1>0, <1>1, <1>2, <1>6, <2>1 DEF BoundInv
<1>. QED
  BY <1>1, <1>3, <1>5, <1>6, <1>7, Proceeds

LEMMA SessionChooses ==
    ASSUME AffinityInv, NEW p \in Requests, Choose(p)
    PROVE  AffinityInv' /\ picker[p].due = Unsure
<1>. DEFINE r == picker[p]
<1>0. /\ AffinityTypeOK /\ BoundInv /\ AloneInv /\ \A q \in Requests : PickInv(picker[q])
  BY DEF AffinityInv
<1>1. /\ r.at = "choose" /\ UNCHANGED <<known, leaving, binding, owed, span>>
      /\ \/ \E a \in r.list : picker' = [picker EXCEPT ![p].at = "bind", ![p].got = a]
         \/ picker' = [picker EXCEPT ![p] = AtRest]
  BY DEF Choose
<1>2. /\ r \in Picker /\ r.list \in SUBSET Auths /\ picker \in [Requests -> Picker]
      /\ Nobody \notin Auths
  BY <1>0, AffinityFields DEF AffinityTypeOK
<1>3. r.due = Unsure
  BY <1>0, <1>1 DEF PickInv, Leads
<1>4. BoundInv' /\ binding' \in [Keys -> Bindings]
  BY <1>0, <1>1, BoundStays DEF AffinityTypeOK
<1>5. ASSUME NEW a \in r.list, picker' = [picker EXCEPT ![p].at = "bind", ![p].got = a]
      PROVE  AffinityInv'
  <2>1. /\ picker'[p] = [r EXCEPT !.at = "bind", !.got = a]
        /\ picker' = [picker EXCEPT ![p] = picker'[p]] /\ a \in Auths
    BY <1>2, <1>5
  <2>2. GoesOn(p) /\ picker'[p].at = "bind" /\ picker'[p].got = a
    BY <1>1, <1>2, <2>1 DEF GoesOn, Picker
  <2>3. PickInv(picker'[p])
    BY <1>2, <1>3, <2>1, <2>2 DEF PickInv, GoesOn
  <2>. QED
    BY <1>1, <1>4, <2>2, <2>3, Proceeds
<1>6. CASE picker' = [picker EXCEPT ![p] = AtRest]
  <2>1. picker'[p] = AtRest /\ \A q \in Requests \ {p} : picker'[q] = picker[q]
    BY <1>2, <1>6
  <2>2. AffinityTypeOK'
    BY <1>0, <1>1, <1>6, RestIs DEF AffinityTypeOK
  <2>3. AloneInv'
    BY <1>0, <2>1, RestIs, PairsKeep
  <2>4. ASSUME NEW q \in Requests PROVE PickInv(picker[q])'
    <3>1. CASE q = p
      BY <2>1, <3>1, RestIs DEF PickInv
    <3>2. CASE q # p
      <4>1. picker'[q] = picker[q] /\ owed' = owed
        BY <1>1, <2>1, <3>2
      <4>. QED
        BY <1>0, <4>1 DEF PickInv, Leads
    <3>. QED
      BY <3>1, <3>2
  <2>. QED
    BY <1>3, <1>4, <2>2, <2>3, <2>4 DEF AffinityInv
<1>. QED
  BY <1>1, <1>3, <1>5, <1>6

LEMMA SessionBinds ==
    ASSUME AffinityInv, NEW p \in Requests, Bind(p)
    PROVE  /\ AffinityInv'
           /\ picker[p].due # Unsure => owed'[picker[p].key] = picker[p].due
<1>. DEFINE r == picker[p]
<1>0. AffinityTypeOK /\ PickInv(r)
  BY DEF AffinityInv
<1>1. /\ r.at = "bind" /\ Return(p, r.got) /\ UNCHANGED <<known, leaving>>
      /\ binding' = [binding EXCEPT ![r.key] = [auth |-> r.got, left |-> TTL]]
  BY DEF Bind
<1>2. r.got \in Auths
  BY <1>0, <1>1, AffinityFields DEF PickInv
<1>3. AffinityInv'
  BY <1>1, <1>2, ReturnKeeps
<1>4. r.alone => owed'[r.key] = r.got
  BY <1>0, <1>1, <1>2, Returned
<1>5. r.due # Unsure => r.alone /\ r.got = r.due
  BY <1>0, <1>1 DEF PickInv, Leads
<1>. QED
  BY <1>3, <1>4, <1>5

\* What the others do.
LEMMA OthersAct ==
    ASSUME AffinityInv,
           \/ \E a \in Auths : AddAuth(a) \/ RemoveAuthOf(a) \/ Invalidate(a)
           \/ CleanUp \/ AffinityTick
    PROVE  AffinityInv' /\ \A q \in Requests : picker'[q].at = picker[q].at
<1>0. /\ AffinityTypeOK /\ BoundInv /\ AloneInv /\ \A q \in Requests : PickInv(picker[q])
  BY DEF AffinityInv
<1>1. /\ picker \in [Requests -> Picker] /\ binding \in [Keys -> Bindings]
      /\ span \in [Keys -> 0..TTL] /\ known \in SUBSET Auths /\ leaving \in SUBSET Auths
      /\ owed \in [Keys -> Auths \cup {Nobody, Unsure}]
  BY <1>0 DEF AffinityTypeOK
<1>2. /\ TTL \in Nat \ {0} /\ Nobody \notin Auths /\ Unsure \notin Auths /\ Unsure # Nobody
      /\ \A k \in Keys : /\ binding[k] = NoBinding \/ binding[k] \in [auth: Auths, left: 0..TTL]
                         /\ binding[k].left \in 0..TTL /\ span[k] \in 0..TTL
                         /\ owed[k] \in Auths \cup {Nobody, Unsure}
      /\ NoBinding \in Bindings /\ NoBinding.auth = Nobody /\ NoBinding.left = 0
  BY <1>0, AffinityFields DEF Bindings, NoBinding
\* Nothing new is owed, and who picks only watches.
<1>3. ASSUME AffinityTypeOK', BoundInv', \A q \in Requests : Watches(q),
             \A k \in Keys : owed'[k] = owed[k] \/ owed'[k] = Unsure
      PROVE  AffinityInv' /\ \A q \in Requests : picker'[q].at = picker[q].at
  <2>1. AloneInv'
    BY <1>0, <1>3, PairsKeep DEF Watches
  <2>2. ASSUME NEW q \in Requests PROVE PickInv(picker[q])'
    <3>1. ASSUME picker[q].at = "drop" PROVE owed'[FirstTurn[picker[q].key]] \notin Auths
      <4>1. FirstTurn[picker[q].key] \in Keys /\ owed[FirstTurn[picker[q].key]] \notin Auths
        BY <1>0, <3>1, AffinityFields DEF PickInv
      <4>. QED
        BY <1>2, <1>3, <4>1
    <3>. QED
      BY <1>0, <1>3, <3>1, WatchersKeep
  <2>. QED
    BY <1>3, <2>1, <2>2 DEF AffinityInv, Watches
<1>4. ASSUME UNCHANGED <<picker, owed>> PROVE \A q \in Requests : Watches(q)
  BY <1>1, <1>4 DEF Watches
<1>5. ASSUME NEW a \in Auths, AddAuth(a) PROVE AffinityInv' /\ \A q \in Requests : picker'[q].at = picker[q].at
  <2>1. AffinityTypeOK' /\ UNCHANGED <<binding, picker, owed, span>>
    BY <1>0, <1>1, <1>5 DEF AddAuth, AffinityTypeOK
  <2>. QED
    BY <1>0, <1>3, <1>4, <2>1, BoundStays
<1>6. ASSUME NEW a \in Auths, RemoveAuthOf(a)
      PROVE  AffinityInv' /\ \A q \in Requests : picker'[q].at = picker[q].at
  <2>1. OwedTo(a) \in SUBSET Keys /\ Release(OwedTo(a)) /\ UNCHANGED <<binding, span>>
    BY <1>6 DEF RemoveAuthOf, OwedTo
  <2>2. /\ \A q \in Requests : Watches(q)
        /\ picker' \in [Requests -> Picker] /\ owed' \in [Keys -> Auths \cup {Nobody, Unsure}]
        /\ \A k \in Keys : owed'[k] = IF k \in OwedTo(a) THEN Unsure ELSE owed[k]
    BY <1>0, <2>1, Releases
  <2>3. AffinityTypeOK'
    BY <1>1, <1>6, <2>1, <2>2 DEF AffinityTypeOK, RemoveAuthOf
  <2>4. BoundInv'
    BY <1>0, <1>2, <2>1, <2>2 DEF BoundInv
  <2>5. \A k \in Keys : owed'[k] = owed[k] \/ owed'[k] = Unsure
    BY <2>2
  <2>. QED
    BY <1>3, <2>2, <2>3, <2>4, <2>5
<1>7. ASSUME NEW a \in Auths, Invalidate(a)
      PROVE  AffinityInv' /\ \A q \in Requests : picker'[q].at = picker[q].at
  <2>1. /\ OwedTo(a) \in SUBSET Keys /\ Release(OwedTo(a)) /\ span' = span /\ known' = known
        /\ leaving' = leaving \ {a}
        /\ binding' = [k \in Keys |-> IF binding[k].auth = a THEN NoBinding ELSE binding[k]]
    BY <1>7 DEF Invalidate, OwedTo
  <2>2. /\ \A q \in Requests : Watches(q)
        /\ picker' \in [Requests -> Picker] /\ owed' \in [Keys -> Auths \cup {Nobody, Unsure}]
        /\ \A k \in Keys : owed'[k] = IF k \in OwedTo(a) THEN Unsure ELSE owed[k]
    BY <1>0, <2>1, Releases
  <2>3. binding' \in [Keys -> Bindings]
    BY <1>1, <1>2, <2>1
  <2>4. AffinityTypeOK'
    BY <1>1, <2>1, <2>2, <2>3 DEF AffinityTypeOK
  <2>5. BoundInv'
    <3>. SUFFICES ASSUME NEW k \in Keys
                  PROVE  /\ owed'[k] \in Auths => /\ binding'[k].auth = owed'[k]
                                                  /\ 0 < span'[k] /\ span'[k] <= binding'[k].left
                         /\ owed'[k] = Nobody => binding'[k].auth = Nobody
      BY DEF BoundInv
    <3>1. CASE k \in OwedTo(a)
      BY <1>2, <2>2, <3>1
    <3>2. CASE k \notin OwedTo(a)
      <4>1. owed'[k] = owed[k] /\ owed[k] # a
        BY <2>2, <3>2 DEF OwedTo
      <4>. QED
        BY <1>0, <1>2, <2>1, <4>1 DEF BoundInv
    <3>. QED
      BY <3>1, <3>2
  <2>6. \A k \in Keys : owed'[k] = owed[k] \/ owed'[k] = Unsure
    BY <2>2
  <2>. QED
    BY <1>3, <2>2, <2>4, <2>5, <2>6
<1>8. CASE CleanUp
  <2>1. /\ UNCHANGED <<known, leaving, picker, owed, span>>
        /\ binding' = [k \in Keys |-> IF Expires(k) THEN NoBinding ELSE binding[k]]
    BY <1>8 DEF CleanUp
  <2>2. binding' \in [Keys -> Bindings]
    BY <1>1, <1>2, <2>1
  <2>3. AffinityTypeOK'
    BY <1>1, <2>1, <2>2 DEF AffinityTypeOK
  <2>4. BoundInv'
    <3>1. \A k \in Keys : owed[k] \in Auths => ~Expires(k)
      BY <1>0, Found
    <3>. QED
      BY <1>0, <1>2, <2>1, <3>1 DEF BoundInv
  <2>. QED
    BY <1>3, <1>4, <2>1, <2>3, <2>4
<1>9. CASE AffinityTick
  <2>. DEFINE ks == {k \in Keys : span[k] = 1}
  <2>1. /\ ks \in SUBSET Keys /\ Release(ks) /\ UNCHANGED <<known, leaving>>
        /\ binding' = [k \in Keys |-> [binding[k] EXCEPT !.left = Elapse(@)]]
        /\ span' = [k \in Keys |-> Elapse(span[k])]
    BY <1>9 DEF AffinityTick
  <2>2. /\ \A q \in Requests : Watches(q)
        /\ picker' \in [Requests -> Picker] /\ owed' \in [Keys -> Auths \cup {Nobody, Unsure}]
        /\ \A k \in Keys : owed'[k] = IF k \in ks THEN Unsure ELSE owed[k]
    <3>. HIDE DEF ks
    <3>. QED
      BY <1>0, <2>1, Releases
  <2>3. \A n \in 0..TTL : Elapse(n) \in 0..TTL /\ (n > 0 => Elapse(n) = n - 1) /\ Elapse(0) = 0
    BY <1>2 DEF Elapse
  <2>4. ASSUME NEW k \in Keys
        PROVE  /\ binding'[k] \in Bindings /\ binding'[k].auth = binding[k].auth
               /\ binding'[k].left = Elapse(binding[k].left) /\ span'[k] = Elapse(span[k])
    <3>1. binding'[k] = [binding[k] EXCEPT !.left = Elapse(@)] /\ span'[k] = Elapse(span[k])
      BY <2>1
    <3>2. CASE binding[k] = NoBinding
      <4>1. binding'[k] = NoBinding
        BY <2>3, <1>2, <3>1, <3>2 DEF NoBinding
      <4>. QED
        BY <1>2, <2>3, <3>1, <3>2, <4>1
    <3>3. CASE binding[k] \in [auth: Auths, left: 0..TTL]
      BY <2>3, <3>1, <3>3 DEF Bindings
    <3>. QED
      BY <1>2, <3>2, <3>3
  <2>5. AffinityTypeOK'
    <3>1. binding' \in [Keys -> Bindings] /\ span' \in [Keys -> 0..TTL]
      BY <1>2, <2>1, <2>3, <2>4
    <3>. QED
      BY <1>1, <2>1, <2>2, <3>1 DEF AffinityTypeOK
  <2>6. BoundInv'
    <3>. SUFFICES ASSUME NEW k \in Keys
                  PROVE  /\ owed'[k] \in Auths => /\ binding'[k].auth = owed'[k]
                                                  /\ 0 < span'[k] /\ span'[k] <= binding'[k].left
                         /\ owed'[k] = Nobody => binding'[k].auth = Nobody
      BY DEF BoundInv
    <3>1. CASE k \in ks
      BY <1>2, <2>2, <3>1
    <3>2. CASE k \notin ks
      <4>1. owed'[k] = owed[k] /\ span[k] # 1
        BY <2>2, <3>2
      <4>2. owed[k] \in Auths => /\ span[k] > 0 /\ binding[k].left > 0
                                 /\ span'[k] = span[k] - 1 /\ binding'[k].left = binding[k].left - 1
        BY <1>0, <1>2, <2>3, <2>4 DEF BoundInv
      <4>. QED
        BY <1>0, <1>2, <2>4, <4>1, <4>2 DEF BoundInv
    <3>. QED
      BY <3>1, <3>2
  <2>7. \A k \in Keys : owed'[k] = owed[k] \/ owed'[k] = Unsure
    BY <2>2
  <2>. QED
    BY <1>3, <2>2, <2>5, <2>6, <2>7
<1>. QED
  BY <1>5, <1>6, <1>7, <1>8, <1>9

\* Only the pick that ends is at rest afterwards, of those that were not.
LEMMA AffinityStep ==
    ASSUME AffinityInv, [AffinityNext]_affinityVars
    PROVE  /\ AffinityInv'
           /\ \A p \in Requests : picker[p].due # Unsure /\ picker'[p].at = "idle"
                 => owed'[picker[p].key] = picker[p].due
<1>0. AffinityTypeOK /\ AloneInv /\ \A q \in Requests : PickInv(picker[q])
  BY DEF AffinityInv
<1>1. \A q \in Requests : picker[q].due # Unsure => picker[q].at # "idle"
  BY <1>0 DEF PickInv, Leads
<1>2. ASSUME NEW p \in Requests, NEW q \in Requests \ {p}, Watches(q)
      PROVE  picker[q].due # Unsure => picker'[q].at # "idle"
  BY <1>1, <1>2 DEF Watches
<1>3. ASSUME NEW p \in Requests, NEW k \in Keys, NEW list \in SUBSET known,
             BeginSessionPick(p, k, list)
      PROVE  /\ AffinityInv'
             /\ \A q \in Requests : picker[q].due # Unsure => picker'[q].at # "idle"
  <2>1. \A q \in Requests : picker'[q].at # "idle" \/ picker[q].at = "idle"
    <3>1. \A q \in Requests : [picker[q] EXCEPT !.alone = FALSE, !.due = Unsure].at = picker[q].at
      BY <1>0, AffinityFields DEF Picker
    <3>. QED
      BY <1>3, <3>1 DEF BeginSessionPick
  <2>. QED
    BY <1>1, <1>3, <2>1, SessionBegins
<1>4. ASSUME NEW p \in Requests, Look(p) \/ Inherit(p) \/ DropExpired(p) \/ Choose(p) \/ Bind(p)
      PROVE  /\ AffinityInv'
             /\ picker[p].due # Unsure /\ picker'[p].at = "idle"
                   => owed'[picker[p].key] = picker[p].due
  BY <1>4, SessionLooks, SessionInherits, SessionDrops, SessionChooses, SessionBinds
<1>5. ASSUME NEW p \in Requests, Look(p) \/ Inherit(p) \/ DropExpired(p) \/ Choose(p) \/ Bind(p)
      PROVE  \A q \in Requests \ {p} : picker[q].due # Unsure => picker'[q].at # "idle"
  <2>1. ASSUME NEW a, Return(p, a), NEW q \in Requests \ {p}
        PROVE  picker'[q].at = picker[q].at
    <3>1. [picker[q] EXCEPT !.due = Unsure].at = picker[q].at
      BY <1>0, AffinityFields DEF Picker
    <3>. QED
      BY <2>1, <3>1 DEF Return
  <2>2. ASSUME NEW at, Step(p, at), NEW q \in Requests \ {p} PROVE picker'[q] = picker[q]
    BY <1>0, <2>2 DEF Step, AffinityTypeOK
  <2>3. CASE Look(p) \/ Bind(p)
    BY <1>1, <2>1, <2>2, <2>3 DEF Look, Bind
  <2>4. CASE Inherit(p) \/ DropExpired(p) \/ Choose(p)
    <3>1. \A q \in Requests \ {p} : picker'[q] = picker[q]
      BY <1>0, <2>2, <2>4 DEF Inherit, DropExpired, Choose, AffinityTypeOK
    <3>. QED
      BY <1>1, <3>1
  <2>. QED
    BY <1>5, <2>3, <2>4
<1>6. CASE \/ \E a \in Auths : AddAuth(a) \/ RemoveAuthOf(a) \/ Invalidate(a)
           \/ CleanUp \/ AffinityTick
  BY <1>1, <1>6, OthersAct
<1>7. CASE UNCHANGED affinityVars
  <2>1. UNCHANGED <<known, leaving, binding, picker, owed, span>>
    BY <1>7 DEF affinityVars
  <2>2. AffinityInv'
    BY <2>1 DEF AffinityInv, AffinityTypeOK, BoundInv, AloneInv, Concerned, PickInv, Leads
  <2>. QED
    BY <1>1, <2>1, <2>2
<1>8. ASSUME NEW p \in Requests, Look(p) \/ Inherit(p) \/ DropExpired(p) \/ Choose(p) \/ Bind(p)
      PROVE  \A q \in Requests : picker[q].due # Unsure /\ picker'[q].at = "idle"
                 => owed'[picker[q].key] = picker[q].due
  BY <1>4, <1>5, <1>8
<1>. QED
  BY <1>3, <1>4, <1>6, <1>7, <1>8 DEF AffinityNext

\* Who is owed an auth is bound to it, whatever picks, removals, clean-ups and time
\* do between the calls of the cache.
THEOREM AffinityInvariance == AffinitySpec => []AffinityInv
BY AffinityInitially, AffinityStep, PTL DEF AffinitySpec

\* For any sessions, auths and requests at the same time, a conversation stays with
\* its auth as long as that is available.
THEOREM ConversationsStay == AffinitySpec => SessionSticks
<1>1. AffinityInv /\ [AffinityNext]_affinityVars =>
          [\A p \in Requests : picker[p].due # Unsure /\ picker'[p].at = "idle"
               => owed'[picker[p].key] = picker[p].due]_affinityVars
  BY AffinityStep
<1>. QED
  BY <1>1, AffinityInvariance, PTL DEF AffinitySpec, SessionSticks
==============================================================================
