---------------------------- MODULE SessionProofs ----------------------------
(***************************************************************************)
(* Proofs about WebSocketRelay, for any requests, buffer and length of an  *)
(* answer, and about UpstreamSession, for any number of calls, connections *)
(* and events.                                                             *)
(***************************************************************************)
EXTENDS WebSocketRelay, UpstreamSession, FiniteSetTheorems, SequenceTheorems, TLAPS

-----------------------------------------------------------------------------
(* WebSocketRelay: types.                                                  *)

Held == UNION {[1..n -> Kinds] : n \in 0..Buffer}
Steps == {"new", "entered", "found", "waits"} \cup Finished

LEMMA HeldIsShort ==
    ASSUME NEW s
    PROVE  s \in Held <=> s \in Seq(Kinds) /\ Len(s) <= Buffer
<1>. Buffer \in Nat
  BY RelayAssumption
<1>1. ASSUME s \in Held PROVE s \in Seq(Kinds) /\ Len(s) <= Buffer
  BY <1>1 DEF Held
<1>2. ASSUME s \in Seq(Kinds), Len(s) <= Buffer PROVE s \in Held
  <2>1. Len(s) \in 0..Buffer /\ s \in [1..Len(s) -> Kinds]
    BY <1>2
  <2>. QED
    BY <2>1 DEF Held
<1>. QED
  BY <1>1, <1>2

LEMMA RelayFacts ==
    ASSUME RelayTypeOK, NEW r \in Requests
    PROVE  /\ client[r].step \in Steps /\ client[r].stream \in BOOLEAN
           /\ client[r].got \in 0..Longest /\ client[r].got \in Nat
           /\ channel[r].held \in Held /\ channel[r].held \in Seq(Kinds)
           /\ Len(channel[r].held) \in Nat /\ Len(channel[r].held) <= Buffer
           /\ DOMAIN channel[r].held = 1..Len(channel[r].held)
           /\ channel[r].closed \in BOOLEAN
           /\ peer[r].sent \in 0..Longest /\ peer[r].sent \in Nat /\ peer[r].ended \in BOOLEAN
           /\ client[r] = [step |-> client[r].step, stream |-> client[r].stream, got |-> client[r].got]
           /\ channel[r] = [held |-> channel[r].held, closed |-> channel[r].closed]
<1>1. /\ client[r] \in [step: Steps, stream: BOOLEAN, got: 0..Longest]
      /\ channel[r] \in [held: Held, closed: BOOLEAN]
      /\ peer[r] \in [sent: 0..Longest, ended: BOOLEAN]
  BY DEF RelayTypeOK, Steps, Held
<1>2. channel[r].held \in Seq(Kinds) /\ Len(channel[r].held) <= Buffer
  BY <1>1, HeldIsShort
<1>. QED
  BY <1>1, <1>2, RelayAssumption

\* The whole of the invariant that is about one request.
Kept(r) ==
    /\ BeforeAsked(r) /\ NoMoreThanSent(r) /\ NoLessThanSent(r) /\ Removals(r)
    /\ client[r].step = "done" /\ r \notin gaveUp \cup lost =>
          client[r].got = peer[r].sent /\ peer[r].ended

LEMMA RelayInvParts ==
    RelayInv <=> /\ RelayTypeOK /\ (session = "open" => cleaner = NoMessage)
                 /\ \A r \in Requests : Kept(r)
BY DEF RelayInv, Kept, AnswerIsWhole

\* Nothing changes for the requests a step is not about.
LEMMA OthersAreKept ==
    ASSUME NEW q \in Requests, Kept(q),
           client'[q] = client[q], channel'[q] = channel[q], peer'[q] = peer[q],
           session' = "open" => session = "open",
           session' = "gone" \/ (session # "gone" /\ (q \in waiting => q \in waiting')),
           q \in gaveUp' <=> q \in gaveUp, q \in lost' <=> q \in lost,
           \/ reader' = reader
           \/ (reader' # NoMessage => reader'.to # q) /\ (reader # NoMessage => reader.to # q)
    PROVE  Kept(q)'
<1>1. InHand(q)' = InHand(q) /\ (InHand(q) => reader' = reader)
      /\ ((reader' # NoMessage /\ reader'.to = q) => reader' = reader)
  BY DEF InHand
<1>2. BeforeAsked(q)'
  BY <1>1 DEF BeforeAsked, Kept
<1>3. NoMoreThanSent(q)'
  BY <1>1 DEF NoMoreThanSent, Kept
<1>4. NoLessThanSent(q)'
  BY <1>1 DEF NoLessThanSent, Kept
<1>5. Removals(q)'
  BY <1>1 DEF Removals, Kept
<1>. QED
  BY <1>2, <1>3, <1>4, <1>5 DEF Kept

\* A step of one request.
LEMMA OneRequest ==
    ASSUME RelayInv, NEW r \in Requests, RelayTypeOK', Kept(r)', session' = session,
           session = "open" => cleaner' = NoMessage,
           \A q \in Requests \ {r} :
                /\ client'[q] = client[q] /\ channel'[q] = channel[q] /\ peer'[q] = peer[q]
                /\ (q \in gaveUp' <=> q \in gaveUp) /\ (q \in lost' <=> q \in lost)
                /\ q \in waiting => q \in waiting',
           \/ reader' = reader
           \/ (reader' = NoMessage \/ reader'.to = r) /\ (reader = NoMessage \/ reader.to = r)
    PROVE  RelayInv'
<1>1. ASSUME NEW q \in Requests \ {r} PROVE Kept(q)'
  <2>1. Kept(q) /\ q \in Requests
    BY RelayInvParts
  <2>. QED
    BY <1>1, <2>1, OthersAreKept
<1>2. /\ RelayTypeOK' /\ (session' = "open" => cleaner' = NoMessage)
      /\ \A q \in Requests : Kept(q)'
  BY <1>1
<1>. QED
  BY <1>2 DEF RelayInv, Kept, AnswerIsWhole

-----------------------------------------------------------------------------
(* WebSocketRelay: the steps of a request.                                 *)

LEMMA EnterStep == ASSUME RelayInv, NEW r \in Requests, Enter(r) PROVE RelayInv'
<1>0. RelayTypeOK /\ Kept(r) /\ (session = "open" => cleaner = NoMessage)
  BY RelayInvParts
<1>1. /\ client' = [client EXCEPT ![r].step = "entered"] /\ client[r].step = "new"
      /\ waiting' = waiting \cup {r}
      /\ late' \in {late, late \cup {r}}
      /\ UNCHANGED <<session, cleaned, channel, peer, lost, gaveUp, reader, cleaner, crashed>>
  BY DEF Enter, Becomes
<1>2. client'[r].step = "entered" /\ client'[r].got = client[r].got
  BY <1>0, <1>1 DEF RelayTypeOK
<1>3. RelayTypeOK'
  BY <1>0, <1>1 DEF RelayTypeOK
<1>4. Kept(r)'
  BY <1>0, <1>1, <1>2 DEF Kept, BeforeAsked, NoMoreThanSent, NoLessThanSent, Removals, InHand, Finished
<1>. QED
  BY <1>0, <1>1, <1>3, <1>4, OneRequest DEF RelayTypeOK

LEMMA LookUpStep == ASSUME RelayInv, NEW r \in Requests, LookUp(r) PROVE RelayInv'
<1>0. RelayTypeOK /\ Kept(r) /\ (session = "open" => cleaner = NoMessage)
  BY RelayInvParts
<1>1. /\ client' = [client EXCEPT ![r].step = IF r \in waiting THEN "found" ELSE "failed"]
      /\ client[r].step = "entered"
      /\ UNCHANGED <<session, waiting, late, cleaned, channel, peer, lost, gaveUp, reader, cleaner,
                     crashed>>
  BY DEF LookUp, Becomes
<1>2. client'[r].step \in {"found", "failed"} /\ client'[r].got = client[r].got
  BY <1>0, <1>1 DEF RelayTypeOK
<1>3. RelayTypeOK'
  BY <1>0, <1>1, ZenonT(40) DEF RelayTypeOK, Finished
<1>4. Kept(r)'
  BY <1>0, <1>1, <1>2 DEF Kept, BeforeAsked, NoMoreThanSent, NoLessThanSent, Removals, InHand, Finished
<1>. QED
  BY <1>0, <1>1, <1>3, <1>4, OneRequest DEF RelayTypeOK

\* A channel that is closed, in every step that takes a request out of the map.
LEMMA RemovedFacts ==
    ASSUME RelayTypeOK, NEW r \in Requests, Removed(r)
    PROVE  /\ waiting' = waiting \ {r} /\ channel'[r].held = channel[r].held
           /\ channel' \in [Requests -> [held: Held, closed: BOOLEAN]]
           /\ channel'[r].closed \in BOOLEAN
           /\ channel[r].closed \/ r \in waiting => channel'[r].closed
           /\ r \notin waiting => channel' = channel
           /\ \A q \in Requests \ {r} : channel'[q] = channel[q]
<1>1. channel \in [Requests -> [held: Held, closed: BOOLEAN]]
  BY DEF RelayTypeOK, Held
<1>2. \/ r \in waiting /\ waiting' = waiting \ {r} /\ channel' = [channel EXCEPT ![r].closed = TRUE]
      \/ r \notin waiting /\ waiting' = waiting /\ channel' = channel
  BY DEF Removed, Closed
<1>. QED
  BY <1>1, <1>2

LEMMA AskStep == ASSUME RelayInv, NEW r \in Requests, Ask(r) PROVE RelayInv'
<1>0. /\ RelayTypeOK /\ Kept(r) /\ (session = "open" => cleaner = NoMessage)
      /\ client[r].step = "found"
      /\ UNCHANGED <<session, late, cleaned, peer, lost, gaveUp, reader, cleaner, crashed>>
  BY RelayInvParts DEF Ask
<1>1. CASE session = "open" /\ Becomes(r, "waits") /\ UNCHANGED <<waiting, channel>>
  <2>1. client' = [client EXCEPT ![r].step = "waits"] /\ UNCHANGED <<waiting, channel>>
    BY <1>1 DEF Becomes
  <2>2. client'[r].step = "waits" /\ client'[r].got = client[r].got
    BY <1>0, <2>1 DEF RelayTypeOK
  <2>3. RelayTypeOK'
    BY <1>0, <2>1 DEF RelayTypeOK
  <2>4. /\ channel'[r].held = <<>> /\ ~channel'[r].closed /\ client'[r].got = 0 /\ peer'[r].sent = 0
        /\ ~peer'[r].ended /\ (reader' # NoMessage => reader'.to # r) /\ r \in waiting'
    BY <1>0, <1>1, <2>1, <2>2 DEF Kept, BeforeAsked, Finished
  <2>5. Kept(r)'
    BY <2>2, <2>4 DEF Kept, BeforeAsked, NoMoreThanSent, NoLessThanSent, Removals, InHand, Finished
  <2>. QED
    BY <1>0, <2>1, <2>3, <2>5, OneRequest DEF RelayTypeOK
<1>2. CASE Becomes(r, "failed") /\ Removed(r)
  <2>1. client' = [client EXCEPT ![r].step = "failed"]
    BY <1>2 DEF Becomes
  <2>2. client'[r].step = "failed" /\ client'[r].got = client[r].got
    BY <1>0, <2>1 DEF RelayTypeOK
  <2>3. RelayTypeOK'
    BY <1>0, <1>2, <2>1, RemovedFacts, ZenonT(40) DEF RelayTypeOK, Finished, Held
  <2>4. Kept(r)'
    BY <1>0, <1>2, <2>2, RemovedFacts
       DEF Kept, BeforeAsked, NoMoreThanSent, NoLessThanSent, Removals, InHand, Finished
  <2>. QED
    BY <1>0, <1>2, <2>1, <2>3, <2>4, RemovedFacts, OneRequest DEF RelayTypeOK
<1>. QED
  BY <1>1, <1>2 DEF Ask

LEMMA GiveUpStep == ASSUME RelayInv, NEW r \in Requests, GiveUp(r) PROVE RelayInv'
<1>0. RelayTypeOK /\ Kept(r) /\ (session = "open" => cleaner = NoMessage)
  BY RelayInvParts
<1>1. /\ client[r].step = "waits" /\ gaveUp' = gaveUp \cup {r}
      /\ UNCHANGED <<session, waiting, late, cleaned, client, channel, peer, lost, reader, cleaner,
                     crashed>>
  BY DEF GiveUp
<1>2. RelayTypeOK'
  BY <1>0, <1>1 DEF RelayTypeOK
<1>3. Kept(r)'
  BY <1>0, <1>1 DEF Kept, BeforeAsked, NoMoreThanSent, NoLessThanSent, Removals, InHand, Finished
<1>. QED
  BY <1>0, <1>1, <1>2, <1>3, OneRequest

LEMMA ReturnStep == ASSUME RelayInv, NEW r \in Requests, Return(r) PROVE RelayInv'
<1>0. RelayTypeOK /\ Kept(r) /\ (session = "open" => cleaner = NoMessage)
  BY RelayInvParts
<1>1. /\ client[r].step = "waits" /\ client' = [client EXCEPT ![r].step = "left"]
      /\ UNCHANGED <<session, waiting, late, cleaned, channel, peer, lost, gaveUp, reader, cleaner,
                     crashed>>
  BY DEF Return, Becomes
<1>2. client'[r].step = "left" /\ client'[r].got = client[r].got
  BY <1>0, <1>1 DEF RelayTypeOK
<1>3. RelayTypeOK'
  BY <1>0, <1>1 DEF RelayTypeOK, Finished
<1>4. Kept(r)'
  BY <1>0, <1>1, <1>2 DEF Kept, BeforeAsked, NoMoreThanSent, NoLessThanSent, Removals, InHand, Finished
<1>. QED
  BY <1>0, <1>1, <1>3, <1>4, OneRequest DEF RelayTypeOK

LEMMA WithdrawStep == ASSUME RelayInv, NEW r \in Requests, Withdraw(r) PROVE RelayInv'
<1>0. /\ RelayTypeOK /\ Kept(r) /\ (session = "open" => cleaner = NoMessage)
      /\ r \in gaveUp \/ client[r].step \in Finished
      /\ Removed(r)
      /\ UNCHANGED <<session, late, cleaned, client, peer, lost, gaveUp, reader, cleaner, crashed>>
  BY RelayInvParts DEF Withdraw
<1>1. RelayTypeOK'
  BY <1>0, RemovedFacts DEF RelayTypeOK, Held
<1>2. Kept(r)'
  BY <1>0, RemovedFacts
     DEF Kept, BeforeAsked, NoMoreThanSent, NoLessThanSent, Removals, InHand, Finished
<1>. QED
  BY <1>0, <1>1, <1>2, RemovedFacts, OneRequest

LEMMA TailFacts ==
    ASSUME NEW S, NEW s \in Seq(S), s # <<>>
    PROVE  /\ Tail(s) \in Seq(S) /\ Len(Tail(s)) = Len(s) - 1 /\ Len(s) \in Nat \ {0}
           /\ Head(s) = s[1] /\ Head(s) \in S /\ 1 \in DOMAIN s
           /\ DOMAIN Tail(s) = 1..(Len(s) - 1)
           /\ \A i \in DOMAIN Tail(s) : Tail(s)[i] = s[i + 1] /\ i + 1 \in DOMAIN s
           /\ \A i \in DOMAIN s : i # 1 => i - 1 \in DOMAIN Tail(s) /\ Tail(s)[i - 1] = s[i]
OBVIOUS

LEMMA AppendFacts ==
    ASSUME NEW S, NEW s \in Seq(S), NEW x \in S
    PROVE  /\ Append(s, x) \in Seq(S) /\ Len(Append(s, x)) = Len(s) + 1 /\ Len(s) \in Nat
           /\ DOMAIN Append(s, x) = DOMAIN s \cup {Len(s) + 1} /\ Append(s, x)[Len(s) + 1] = x
           /\ \A i \in DOMAIN s : Append(s, x)[i] = s[i] /\ i \in 1..Len(s)
OBVIOUS

LEMMA TakeStep == ASSUME RelayInv, NEW r \in Requests, Take(r) PROVE RelayInv'
<1> DEFINE h == channel[r].held
           kind == Head(h)
<1>0. /\ RelayTypeOK /\ Kept(r) /\ (session = "open" => cleaner = NoMessage)
      /\ client[r].step = "waits" /\ h # <<>>
      /\ UNCHANGED <<session, waiting, late, cleaned, peer, lost, gaveUp, reader, cleaner, crashed>>
      /\ channel' = [channel EXCEPT ![r].held = Tail(@)]
      /\ client' = IF kind = "chunk" THEN [client EXCEPT ![r].got = @ + 1]
                   ELSE [client EXCEPT ![r].step = IF kind = "end" THEN "done" ELSE "failed"]
  BY RelayInvParts DEF Take
<1>1. /\ h \in Seq(Kinds) /\ h \in Held /\ Len(h) <= Buffer /\ DOMAIN h = 1..Len(h)
      /\ client[r].got \in Nat /\ peer[r].sent \in 0..Longest /\ peer[r].sent \in Nat
  BY <1>0, RelayFacts
<1>2. /\ channel'[r].held = Tail(h) /\ channel'[r].closed = channel[r].closed
      /\ \A q \in Requests \ {r} : channel'[q] = channel[q] /\ client'[q] = client[q]
  BY <1>0 DEF RelayTypeOK
<1>3. Tail(h) \in Held
  <2>1. Tail(h) \in Seq(Kinds) /\ Len(Tail(h)) = Len(h) - 1 /\ Len(h) \in Nat
    BY <1>0, <1>1, TailFacts
  <2>2. Len(Tail(h)) <= Buffer
    BY <1>1, <2>1, RelayAssumption
  <2>. QED
    BY <2>1, <2>2, HeldIsShort
<1>4. kind = "chunk" => client[r].got + 1 <= peer[r].sent
  BY <1>0, <1>1, TailFacts DEF Kept, NoMoreThanSent
<1>5. RelayTypeOK'
  <2>1. channel' \in [Requests -> [held: Held, closed: BOOLEAN]]
    BY <1>0, <1>3, ZenonT(40) DEF RelayTypeOK, Held
  <2>2. client' \in [Requests -> [step: Steps, stream: BOOLEAN, got: 0..Longest]]
    <3>1. client \in [Requests -> [step: Steps, stream: BOOLEAN, got: 0..Longest]]
      BY <1>0 DEF RelayTypeOK, Steps
    <3>2. kind = "chunk" => client[r].got + 1 \in 0..Longest
      BY <1>1, <1>4, RelayAssumption
    <3>. QED
      BY <1>0, <3>1, <3>2 DEF Steps, Finished
  <2>. QED
    BY <1>0, <2>1, <2>2 DEF RelayTypeOK, Held, Steps
<1>6. CASE kind = "chunk"
  <2>1. client'[r].step = "waits" /\ client'[r].got = client[r].got + 1
    BY <1>0, <1>6 DEF RelayTypeOK
  <2>2. BeforeAsked(r)'
    BY <2>1 DEF BeforeAsked
  <2>3. NoMoreThanSent(r)'
    <3>1. \A i \in DOMAIN Tail(h) : Tail(h)[i] = "chunk" =>
              client[r].got + 1 + i <= peer[r].sent
      <4>1. \A i \in DOMAIN h : h[i] = "chunk" => client[r].got + i <= peer[r].sent
        BY <1>0 DEF Kept, NoMoreThanSent
      <4>2. \A i \in DOMAIN Tail(h) : i \in Nat /\ Tail(h)[i] = h[i + 1] /\ i + 1 \in DOMAIN h
        BY <1>0, <1>1, TailFacts
      <4>. HIDE DEF h
      <4>. QED
        BY <1>1, <4>1, <4>2
    <3>2. Len(Tail(h)) = Len(h) - 1 /\ Len(h) \in Nat
      BY <1>0, <1>1, TailFacts
    <3>3. ASSUME NEW n \in Nat, client[r].got + Len(h) + n <= peer[r].sent
          PROVE  client[r].got + 1 + Len(Tail(h)) + n <= peer[r].sent
      <4>. HIDE DEF h
      <4>. QED
        BY <1>1, <3>2, <3>3
    <3>4. ~channel[r].closed /\ ~InHand(r) /\ ~peer[r].ended =>
              client[r].got + 1 + Len(Tail(h)) <= peer[r].sent
      <4>1. ~channel[r].closed /\ ~InHand(r) /\ ~peer[r].ended =>
                client[r].got + Len(h) + 0 <= peer[r].sent
        BY <1>0, <1>1, <3>2 DEF Kept, NoMoreThanSent
      <4>. HIDE DEF h
      <4>. QED
        BY <1>1, <3>2, <3>3, <4>1
    <3>5. ~channel[r].closed /\ InHand(r) /\ reader.kind = "chunk" =>
              client[r].got + 1 + Len(Tail(h)) + 1 <= peer[r].sent
      BY <1>0, <3>3 DEF Kept, NoMoreThanSent
    <3>6. InHand(r)' = InHand(r) /\ peer' = peer /\ reader' = reader
      BY <1>0 DEF InHand
    <3>. QED
      BY <1>2, <1>4, <1>6, <2>1, <3>1, <3>4, <3>5, <3>6 DEF NoMoreThanSent
  <2>4. NoLessThanSent(r)'
    <3>. SUFFICES ASSUME r \notin gaveUp \cup lost PROVE NoLessThanSent(r)'
      BY <1>0 DEF NoLessThanSent
    <3>1. \A i \in DOMAIN Tail(h) : Tail(h)[i] = "end" =>
              peer[r].ended /\ ~InHand(r) /\ client[r].got + 1 + i = peer[r].sent + 1
      <4>. SUFFICES ASSUME NEW i \in DOMAIN Tail(h), Tail(h)[i] = "end"
                    PROVE  peer[r].ended /\ ~InHand(r) /\ client[r].got + 1 + i = peer[r].sent + 1
        OBVIOUS
      <4>1. i \in Nat /\ h[i + 1] = "end" /\ i + 1 \in DOMAIN h
        BY <1>0, <1>1, TailFacts
      <4>2. peer[r].ended /\ ~InHand(r) /\ client[r].got + (i + 1) = peer[r].sent + 1
        BY <1>0, <4>1 DEF Kept, NoLessThanSent
      <4>3. \A a, b \in Nat : a + 1 + b = a + (b + 1)
        OBVIOUS
      <4>. HIDE DEF h
      <4>. QED
        BY <1>1, <4>1, <4>2, <4>3
    <3>2. channel[r].closed \/ (peer[r].ended /\ ~InHand(r)) =>
              \E i \in DOMAIN Tail(h) : Tail(h)[i] # "chunk"
      <4>1. channel[r].closed \/ (peer[r].ended /\ ~InHand(r)) => \E i \in DOMAIN h : h[i] # "chunk"
        BY <1>0 DEF Kept, NoLessThanSent
      <4>2. \A i \in DOMAIN h : i # 1 => i - 1 \in DOMAIN Tail(h) /\ Tail(h)[i - 1] = h[i]
        BY <1>0, <1>1, TailFacts
      <4>3. h[1] = "chunk"
        BY <1>0, <1>1, <1>6, TailFacts
      <4>. QED
        BY <4>1, <4>2, <4>3
    <3>3. Len(Tail(h)) = Len(h) - 1 /\ Len(h) \in Nat
      BY <1>0, <1>1, TailFacts
    <3>4. ~channel[r].closed /\ (peer[r].ended => InHand(r)) =>
              client[r].got + 1 + Len(Tail(h))
                  = IF InHand(r) /\ reader.kind = "chunk" THEN peer[r].sent - 1 ELSE peer[r].sent
      <4>1. client[r].got + 1 + Len(Tail(h)) = client[r].got + Len(h)
        <5>. HIDE DEF h
        <5>. QED
          BY <1>1, <3>3
      <4>. QED
        BY <1>0, <4>1 DEF Kept, NoLessThanSent
    <3>5. InHand(r)' = InHand(r) /\ peer' = peer /\ reader' = reader
      BY <1>0 DEF InHand
    <3>. QED
      BY <1>2, <2>1, <3>1, <3>2, <3>4, <3>5 DEF NoLessThanSent
  <2>5. Removals(r)'
    BY <1>0, <1>2, <2>1 DEF Kept, Removals, InHand
  <2>6. Kept(r)'
    BY <2>1, <2>2, <2>3, <2>4, <2>5 DEF Kept
  <2>. QED
    BY <1>0, <1>2, <1>5, <2>6, OneRequest
<1>7. CASE kind # "chunk"
  <2>1. client'[r].step = (IF kind = "end" THEN "done" ELSE "failed") /\ client'[r].got = client[r].got
    BY <1>0, <1>7 DEF RelayTypeOK
  <2>2. NoMoreThanSent(r)'
    <3>1. \A i \in DOMAIN Tail(h) : Tail(h)[i] = "chunk" => client[r].got + i <= peer[r].sent
      <4>1. \A i \in DOMAIN h : h[i] = "chunk" => client[r].got + i <= peer[r].sent
        BY <1>0 DEF Kept, NoMoreThanSent
      <4>2. \A i \in DOMAIN Tail(h) : i \in Nat /\ Tail(h)[i] = h[i + 1] /\ i + 1 \in DOMAIN h
        BY <1>0, <1>1, TailFacts
      <4>. HIDE DEF h
      <4>. QED
        BY <1>1, <4>1, <4>2
    <3>2. Len(Tail(h)) = Len(h) - 1 /\ Len(h) \in Nat
      BY <1>0, <1>1, TailFacts
    <3>3. ASSUME NEW n \in Nat, client[r].got + Len(h) + n <= peer[r].sent
          PROVE  client[r].got + Len(Tail(h)) + n <= peer[r].sent
      <4>. HIDE DEF h
      <4>. QED
        BY <1>1, <3>2, <3>3
    <3>4. ~channel[r].closed /\ ~InHand(r) /\ ~peer[r].ended =>
              client[r].got + Len(Tail(h)) <= peer[r].sent
      <4>1. ~channel[r].closed /\ ~InHand(r) /\ ~peer[r].ended =>
                client[r].got + Len(h) + 0 <= peer[r].sent
        BY <1>0, <1>1, <3>2 DEF Kept, NoMoreThanSent
      <4>. HIDE DEF h
      <4>. QED
        BY <1>1, <3>2, <3>3, <4>1
    <3>5. ~channel[r].closed /\ InHand(r) /\ reader.kind = "chunk" =>
              client[r].got + Len(Tail(h)) + 1 <= peer[r].sent
      BY <1>0, <3>3 DEF Kept, NoMoreThanSent
    <3>6. InHand(r)' = InHand(r) /\ peer' = peer /\ reader' = reader
      BY <1>0 DEF InHand
    <3>7. client[r].got <= peer[r].sent
      BY <1>0 DEF Kept, NoMoreThanSent
    <3>. QED
      BY <1>2, <2>1, <3>1, <3>4, <3>5, <3>6, <3>7 DEF NoMoreThanSent
  <2>3. kind = "end" /\ r \notin gaveUp \cup lost =>
            client[r].got = peer[r].sent /\ peer[r].ended
    BY <1>0, <1>1, TailFacts, SMTT(30) DEF Kept, NoLessThanSent
  <2>4. BeforeAsked(r)' /\ NoLessThanSent(r)'
    BY <2>1 DEF BeforeAsked, NoLessThanSent, Finished
  <2>5. Removals(r)'
    BY <1>0, <2>1 DEF Kept, Removals, InHand
  <2>6. Kept(r)'
    BY <1>0, <2>1, <2>2, <2>3, <2>4, <2>5 DEF Kept
  <2>. QED
    BY <1>0, <1>2, <1>5, <2>6, OneRequest
<1>. QED
  BY <1>6, <1>7

LEMMA FindClosedStep == ASSUME RelayInv, NEW r \in Requests, FindClosed(r) PROVE RelayInv'
<1>0. /\ RelayTypeOK /\ Kept(r) /\ (session = "open" => cleaner = NoMessage)
      /\ client[r].step = "waits" /\ channel[r].held = <<>> /\ channel[r].closed
      /\ client' = [client EXCEPT ![r].step =
                        IF ~client[r].stream /\ client[r].got > 0 THEN "done" ELSE "failed"]
      /\ UNCHANGED <<session, waiting, late, cleaned, channel, peer, lost, gaveUp, reader, cleaner,
                     crashed>>
  BY RelayInvParts DEF FindClosed, Becomes
<1>1. client'[r].step \in {"done", "failed"} /\ client'[r].got = client[r].got
  BY <1>0 DEF RelayTypeOK
<1>2. r \in gaveUp \cup lost
  BY <1>0 DEF Kept, NoLessThanSent
<1>3. RelayTypeOK'
  BY <1>0, ZenonT(40) DEF RelayTypeOK, Finished
<1>4. Kept(r)'
  BY <1>0, <1>1, <1>2
     DEF Kept, BeforeAsked, NoMoreThanSent, NoLessThanSent, Removals, InHand, Finished
<1>. QED
  BY <1>0, <1>3, <1>4, OneRequest DEF RelayTypeOK

-----------------------------------------------------------------------------
(* WebSocketRelay: the steps of the reader.                                *)

LEMMA ReadMessageStep == ASSUME RelayInv, NEW r \in Requests, ReadMessage(r) PROVE RelayInv'
<1> DEFINE h == channel[r].held
<1>0. /\ RelayTypeOK /\ Kept(r) /\ (session = "open" => cleaner = NoMessage)
      /\ reader = NoMessage /\ session # "gone" /\ client[r].step \in {"waits"} \cup Finished
      /\ ~peer[r].ended
      /\ UNCHANGED <<session, waiting, late, cleaned, client, channel, lost, gaveUp, cleaner, crashed>>
  BY RelayInvParts DEF ReadMessage
<1>1. PICK kind \in Kinds :
        /\ kind = "chunk" => peer[r].sent < Longest
        /\ peer' = IF Ends(kind) THEN [peer EXCEPT ![r].ended = TRUE]
                   ELSE [peer EXCEPT ![r].sent = @ + 1]
        /\ reader' = IF r \in waiting THEN [kind |-> kind, to |-> r, sent |-> FALSE] ELSE NoMessage
  BY DEF ReadMessage
<1>2. /\ client[r].got \in Nat /\ peer[r].sent \in 0..Longest /\ peer[r].sent \in Nat
      /\ Len(h) \in Nat /\ DOMAIN h = 1..Len(h)
  BY <1>0, RelayFacts
<1>3. /\ peer'[r].ended <=> Ends(kind)
      /\ peer'[r].sent = IF kind = "chunk" THEN peer[r].sent + 1 ELSE peer[r].sent
      /\ \A q \in Requests \ {r} : peer'[q] = peer[q]
  BY <1>0, <1>1 DEF RelayTypeOK, Ends, Kinds
<1>4. RelayTypeOK'
  <2>1. peer' \in [Requests -> [sent: 0..Longest, ended: BOOLEAN]]
    <3>1. kind = "chunk" => peer[r].sent + 1 \in 0..Longest
      BY <1>1, <1>2, RelayAssumption
    <3>. QED
      BY <1>0, <1>1, <3>1 DEF RelayTypeOK, Ends, Kinds
  <2>2. reader' \in [kind: Kinds, to: Requests, sent: BOOLEAN] \cup {NoMessage}
    BY <1>1
  <2>. QED
    BY <1>0, <2>1, <2>2 DEF RelayTypeOK
<1>5. ~InHand(r) /\ (reader' # NoMessage => reader'.to = r)
  BY <1>0, <1>1 DEF InHand
<1>6. InHand(r)' <=> r \in waiting
  BY <1>1 DEF InHand, NoMessage
<1>7. r \in waiting => reader'.kind = kind /\ ~reader'.sent
  BY <1>1
<1>8. BeforeAsked(r)'
  BY <1>0 DEF BeforeAsked
<1>9. NoMoreThanSent(r)'
  <2>1. /\ client[r].got <= peer'[r].sent /\ peer'[r].sent \in Nat
        /\ \A i \in DOMAIN h : h[i] = "chunk" => client[r].got + i <= peer'[r].sent
    <3>1. /\ client[r].got <= peer[r].sent
          /\ \A i \in DOMAIN h : h[i] = "chunk" => client[r].got + i <= peer[r].sent
      BY <1>0 DEF Kept, NoMoreThanSent
    <3>. HIDE DEF h
    <3>. QED
      BY <1>2, <1>3, <3>1
  <2>2. ~channel[r].closed => client[r].got + Len(h) <= peer[r].sent
    BY <1>0, <1>5 DEF Kept, NoMoreThanSent
  <2>3. ~channel[r].closed => client[r].got + Len(h) <= peer'[r].sent
    <3>. HIDE DEF h
    <3>. QED
      BY <1>2, <1>3, <2>2
  <2>4. ~channel[r].closed /\ kind = "chunk" => client[r].got + Len(h) + 1 <= peer'[r].sent
    <3>. HIDE DEF h
    <3>. QED
      BY <1>2, <1>3, <2>2
  <2>. QED
    BY <1>0, <1>6, <1>7, <2>1, <2>3, <2>4 DEF NoMoreThanSent
<1>10. NoLessThanSent(r)'
  <2>. SUFFICES ASSUME client[r].step = "waits", r \notin gaveUp \cup lost PROVE NoLessThanSent(r)'
    BY <1>0 DEF NoLessThanSent
  <2>1. \A i \in DOMAIN h : h[i] # "end"
    BY <1>0 DEF Kept, NoLessThanSent
  <2>2. channel[r].closed => \E i \in DOMAIN h : h[i] # "chunk"
    BY <1>0 DEF Kept, NoLessThanSent
  <2>3. ~channel[r].closed => r \in waiting /\ client[r].got + Len(h) = peer[r].sent
    BY <1>0, <1>5 DEF Kept, NoLessThanSent, Removals
  <2>4. peer'[r].sent = IF kind = "chunk" THEN peer[r].sent + 1 ELSE peer[r].sent
    BY <1>3
  <2>5. ~channel[r].closed =>
            client[r].got + Len(h) = IF kind = "chunk" THEN peer'[r].sent - 1 ELSE peer'[r].sent
    <3>. HIDE DEF h
    <3>. QED
      BY <1>2, <2>3, <2>4
  <2>. QED
    BY <1>0, <1>6, <1>7, <2>1, <2>2, <2>3, <2>5 DEF NoLessThanSent
<1>11. Removals(r)'
  BY <1>0, <1>3, <1>6, <1>7, <1>1 DEF Kept, Removals
<1>12. Kept(r)'
  BY <1>0, <1>8, <1>9, <1>10, <1>11 DEF Kept
<1>. QED
  BY <1>0, <1>3, <1>4, <1>5, <1>12, OneRequest

LEMMA DeliverStep == ASSUME RelayInv, Deliver PROVE RelayInv'
<1>a. PICK r \in Requests, kind \in Kinds : r = reader.to /\ kind = reader.kind
  <2>1. reader # NoMessage /\ RelayTypeOK
    BY RelayInvParts DEF Deliver
  <2>. QED
    BY <2>1 DEF RelayTypeOK
<1> DEFINE h == channel[r].held
<1>0. /\ RelayTypeOK /\ r = reader.to /\ kind = reader.kind /\ (session = "open" => cleaner = NoMessage)
      /\ reader # NoMessage /\ ~reader.sent /\ Sent(r, kind)
      /\ reader' = IF Ends(kind) THEN [reader EXCEPT !.sent = TRUE] ELSE NoMessage
      /\ UNCHANGED <<session, waiting, late, cleaned, client, peer, gaveUp, cleaner>>
  BY <1>a, RelayInvParts DEF Deliver
<1>1. reader \in [kind: Kinds, to: Requests, sent: BOOLEAN] /\ r \in Requests /\ kind \in Kinds
  BY <1>0 DEF RelayTypeOK
<1>2. Kept(r)
  BY <1>1, RelayInvParts
<1>3. /\ client[r].got \in Nat /\ peer[r].sent \in Nat
      /\ h \in Seq(Kinds) /\ Len(h) \in Nat /\ DOMAIN h = 1..Len(h)
  BY <1>0, <1>1, RelayFacts
<1>4. /\ ~InHand(r)' /\ InHand(r)
      /\ (reader' # NoMessage => reader'.to = r /\ reader'.sent /\ Ends(kind))
      /\ reader' \in [kind: Kinds, to: Requests, sent: BOOLEAN] \cup {NoMessage}
  BY <1>0, <1>1 DEF InHand
<1>5. peer[r].ended <=> Ends(kind)
  BY <1>0, <1>2, <1>4 DEF Kept, Removals
<1>6. client[r].step \in {"waits"} \cup Finished
  BY <1>0, <1>2 DEF Kept, BeforeAsked
<1>7. Ends(kind) <=> kind # "chunk"
  BY <1>1 DEF Ends, Kinds
\* What is the same whether it is sent, dropped or the process ends.
<1>8. Removals(r)' /\ BeforeAsked(r)'
  <2>1. channel[r].closed => channel'[r].closed
    <3>1. channel' = channel \/ channel' = [channel EXCEPT ![r].held = Append(@, kind)]
      BY <1>0 DEF Sent
    <3>2. channel \in [Requests -> [held: Held, closed: BOOLEAN]]
      BY <1>0 DEF RelayTypeOK, Held
    <3>3. channel'[r].closed = channel[r].closed
      BY <3>1, <3>2
    <3>. QED
      BY <3>3
  <2>. QED
    BY <1>0, <1>2, <1>4, <1>5, <1>6, <2>1 DEF Kept, Removals, BeforeAsked
<1>9. CASE channel[r].closed \/ Len(h) >= Buffer
  <2>1. /\ channel' = channel /\ crashed' \in BOOLEAN
        /\ \/ lost' = lost /\ channel[r].closed
           \/ lost' = lost \cup {r} /\ ~channel[r].closed
    <3>1. ~(Len(h) < Buffer) \/ channel[r].closed
      BY <1>3, <1>9, RelayAssumption
    <3>2. crashed \in BOOLEAN
      BY <1>0 DEF RelayTypeOK
    <3>. QED
      BY <1>0, <3>1, <3>2 DEF Sent
  <2>2. RelayTypeOK'
    BY <1>0, <1>1, <1>4, <2>1 DEF RelayTypeOK
  <2>3. NoMoreThanSent(r)'
    <3>1. ~channel[r].closed /\ kind = "chunk" => client[r].got + Len(h) <= peer[r].sent
      <4>1. ~channel[r].closed /\ kind = "chunk" => client[r].got + Len(h) + 1 <= peer[r].sent
        BY <1>0, <1>2, <1>4 DEF Kept, NoMoreThanSent
      <4>. HIDE DEF h
      <4>. QED
        BY <1>3, <4>1
    <3>. QED
      BY <1>0, <1>2, <1>4, <1>5, <1>7, <2>1, <3>1 DEF Kept, NoMoreThanSent
  <2>4. NoLessThanSent(r)'
    BY <1>0, <1>2, <1>4, <2>1 DEF Kept, NoLessThanSent
  <2>5. Kept(r)'
    BY <1>0, <1>2, <1>8, <2>1, <2>3, <2>4 DEF Kept
  <2>. QED
    BY <1>0, <1>1, <1>4, <2>1, <2>2, <2>5, OneRequest
<1>10. CASE ~channel[r].closed /\ Len(h) < Buffer
  <2>1. channel' = [channel EXCEPT ![r].held = Append(@, kind)] /\ UNCHANGED <<lost, crashed>>
    BY <1>0, <1>10 DEF Sent
  <2>2. /\ channel'[r].held = Append(h, kind) /\ channel'[r].closed = channel[r].closed
        /\ \A q \in Requests \ {r} : channel'[q] = channel[q]
    BY <1>0, <1>1, <2>1 DEF RelayTypeOK
  <2>3. /\ Append(h, kind) \in Seq(Kinds) /\ Len(Append(h, kind)) = Len(h) + 1
        /\ DOMAIN Append(h, kind) = DOMAIN h \cup {Len(h) + 1}
        /\ Append(h, kind)[Len(h) + 1] = kind
        /\ \A i \in DOMAIN h : Append(h, kind)[i] = h[i]
    BY <1>1, <1>3, AppendFacts
  <2>4. RelayTypeOK'
    <3>1. Append(h, kind) \in Held
      <4>1. Len(Append(h, kind)) <= Buffer
        <5>. HIDE DEF h
        <5>. QED
          BY <1>3, <1>10, <2>3, RelayAssumption
      <4>. QED
        BY <2>3, <4>1, HeldIsShort
    <3>2. channel' \in [Requests -> [held: Held, closed: BOOLEAN]]
      <4>1. channel \in [Requests -> [held: Held, closed: BOOLEAN]]
        BY <1>0 DEF RelayTypeOK, Held
      <4>. QED
        BY <2>1, <3>1, <4>1
    <3>. QED
      BY <1>0, <1>1, <1>4, <2>1, <3>2 DEF RelayTypeOK, Held
  <2>5. NoMoreThanSent(r)'
    <3>1. kind = "chunk" => client[r].got + Len(h) + 1 <= peer[r].sent
      BY <1>0, <1>2, <1>4, <1>10 DEF Kept, NoMoreThanSent
    <3>2. /\ client[r].got <= peer[r].sent
          /\ \A i \in DOMAIN h : h[i] = "chunk" => client[r].got + i <= peer[r].sent
      BY <1>2 DEF Kept, NoMoreThanSent
    <3>3. kind = "chunk" => client[r].got + (Len(h) + 1) <= peer[r].sent
      <4>. HIDE DEF h
      <4>. QED
        BY <1>3, <3>1
    <3>4. \A i \in DOMAIN Append(h, kind) :
              Append(h, kind)[i] = "chunk" => client[r].got + i <= peer[r].sent
      BY <2>3, <3>2, <3>3
    <3>. QED
      BY <1>0, <1>4, <1>5, <1>7, <2>2, <2>3, <3>2, <3>3, <3>4 DEF NoMoreThanSent
  <2>6. NoLessThanSent(r)'
    <3>. SUFFICES ASSUME client[r].step = "waits", r \notin gaveUp \cup lost PROVE NoLessThanSent(r)'
      BY <1>0, <2>1 DEF NoLessThanSent
    <3>1. \A i \in DOMAIN h : h[i] # "end"
      BY <1>2, <1>4 DEF Kept, NoLessThanSent
    <3>2. client[r].got + Len(h) = IF kind = "chunk" THEN peer[r].sent - 1 ELSE peer[r].sent
      BY <1>0, <1>2, <1>4, <1>10 DEF Kept, NoLessThanSent
    <3>3. /\ kind # "chunk" => client[r].got + (Len(h) + 1) = peer[r].sent + 1
          /\ kind = "chunk" => client[r].got + (Len(h) + 1) = peer[r].sent
      <4>. HIDE DEF h
      <4>. QED
        BY <1>3, <3>2
    <3>4. kind = "end" => peer[r].ended
      BY <1>5, <1>7
    <3>5. \A i \in DOMAIN Append(h, kind) : Append(h, kind)[i] = "end" =>
              peer[r].ended /\ client[r].got + i = peer[r].sent + 1
      BY <2>3, <3>1, <3>3, <3>4
    <3>6. peer[r].ended => \E i \in DOMAIN Append(h, kind) : Append(h, kind)[i] # "chunk"
      BY <1>5, <1>7, <2>3
    <3>7. client' = client /\ peer' = peer /\ channel'[r].held = Append(h, kind) /\ ~channel'[r].closed
          /\ ~InHand(r)' /\ Len(Append(h, kind)) = Len(h) + 1
      BY <1>0, <1>4, <1>5, <1>10, <2>2, <2>3
    <3>8. \A i \in DOMAIN channel'[r].held : channel'[r].held[i] = "end" =>
              peer'[r].ended /\ ~InHand(r)' /\ client'[r].got + i = peer'[r].sent + 1
      BY <3>5, <3>7
    <3>9. peer'[r].ended => \E i \in DOMAIN channel'[r].held : channel'[r].held[i] # "chunk"
      BY <3>6, <3>7
    <3>10. ~peer'[r].ended => client'[r].got + Len(channel'[r].held) = peer'[r].sent
      BY <1>5, <1>7, <3>3, <3>7
    <3>. QED
      BY <3>7, <3>8, <3>9, <3>10 DEF NoLessThanSent
  <2>7. Kept(r)'
    BY <1>0, <1>2, <1>8, <2>1, <2>5, <2>6 DEF Kept
  <2>. QED
    BY <1>0, <1>1, <1>4, <2>1, <2>2, <2>4, <2>7, OneRequest
<1>. QED
  BY <1>3, <1>9, <1>10, RelayAssumption

LEMMA EndPendingStep == ASSUME RelayInv, EndPending PROVE RelayInv'
<1>a. PICK r \in Requests : r = reader.to
  <2>1. reader # NoMessage /\ RelayTypeOK
    BY RelayInvParts DEF EndPending
  <2>. QED
    BY <2>1 DEF RelayTypeOK
<1>0. /\ RelayTypeOK /\ r = reader.to /\ (session = "open" => cleaner = NoMessage)
      /\ reader # NoMessage /\ reader.sent /\ reader' = NoMessage /\ Removed(r)
      /\ UNCHANGED <<session, late, cleaned, client, peer, lost, gaveUp, cleaner, crashed>>
  BY <1>a, RelayInvParts DEF EndPending
<1>1. r \in Requests
  OBVIOUS
<1>2. Kept(r)
  BY <1>1, RelayInvParts
<1>3. peer[r].ended /\ ~InHand(r) /\ ~InHand(r)' /\ client[r].step \in {"waits"} \cup Finished
  BY <1>0, <1>2 DEF Kept, Removals, InHand, BeforeAsked
<1>4. RelayTypeOK'
  BY <1>0, <1>1, RemovedFacts DEF RelayTypeOK, Held
<1>5. /\ channel'[r].held = channel[r].held /\ (channel[r].closed => channel'[r].closed)
      /\ channel'[r].closed \in BOOLEAN /\ (r \in waiting => channel'[r].closed)
      /\ waiting' = waiting \ {r}
  BY <1>0, <1>1, RemovedFacts
<1>6. BeforeAsked(r)' /\ Removals(r)'
  BY <1>0, <1>2, <1>3, <1>5 DEF Kept, BeforeAsked, Removals
<1>7. NoMoreThanSent(r)' /\ NoLessThanSent(r)'
  BY <1>0, <1>2, <1>3, <1>5 DEF Kept, NoMoreThanSent, NoLessThanSent
<1>8. Kept(r)'
  BY <1>0, <1>2, <1>6, <1>7 DEF Kept
<1>. QED
  BY <1>0, <1>1, <1>4, <1>5, <1>8, RemovedFacts, OneRequest

-----------------------------------------------------------------------------
(* WebSocketRelay: the cleanup, and the theorems.                          *)

\* A step of the session moves no request.
LEMMA NoRequest ==
    ASSUME RelayInv, RelayTypeOK', session' = "open" => cleaner' = NoMessage,
           UNCHANGED <<client, channel, peer, gaveUp, lost, reader>>,
           session' = "open" => session = "open",
           session' = "gone" \/ (session # "gone" /\ waiting' = waiting)
    PROVE  RelayInv'
<1>1. ASSUME NEW q \in Requests PROVE Kept(q)'
  <2>1. Kept(q)
    BY RelayInvParts
  <2>. QED
    BY <2>1, OthersAreKept
<1>. QED
  BY <1>1 DEF RelayInv, Kept, AnswerIsWhole

LEMMA CleanupMoves ==
    ASSUME RelayInv, Close \/ Replace \/ \E r \in Requests : CleanNext(r) PROVE RelayInv'
<1>0. RelayTypeOK /\ (session = "open" => cleaner = NoMessage)
  BY RelayInvParts
<1>1. CASE Close
  <2>1. /\ session' = "closing" /\ session = "open"
        /\ UNCHANGED <<waiting, late, cleaned, client, channel, peer, lost, gaveUp, reader, cleaner,
                       crashed>>
    BY <1>1 DEF Close
  <2>2. RelayTypeOK'
    BY <1>0, <2>1 DEF RelayTypeOK
  <2>. QED
    BY <2>1, <2>2, NoRequest
<1>2. CASE Replace
  <2>1. /\ session' = "gone" /\ waiting' = {}
        /\ UNCHANGED <<late, cleaned, client, channel, peer, lost, gaveUp, reader, cleaner, crashed>>
    BY <1>2 DEF Replace
  <2>2. RelayTypeOK'
    BY <1>0, <2>1 DEF RelayTypeOK
  <2>. QED
    BY <2>1, <2>2, NoRequest
<1>3. ASSUME NEW r \in Requests, CleanNext(r) PROVE RelayInv'
  <2>1. /\ session = "closing" /\ cleaner' = [kind |-> "error", to |-> r]
        /\ UNCHANGED <<session, waiting, late, cleaned, client, channel, peer, lost, gaveUp, reader,
                       crashed>>
    BY <1>3 DEF CleanNext
  <2>2. RelayTypeOK'
    BY <1>0, <2>1 DEF RelayTypeOK
  <2>. QED
    BY <2>1, <2>2, NoRequest
<1>. QED
  BY <1>1, <1>2, <1>3

LEMMA CleanStep == ASSUME RelayInv, Clean PROVE RelayInv'
<1>0. /\ RelayTypeOK /\ (session = "open" => cleaner = NoMessage)
      /\ cleaner # NoMessage /\ cleaner' = NoMessage /\ cleaned' = cleaned \cup {cleaner.to}
      /\ UNCHANGED <<session, waiting, late, client, peer, gaveUp, reader>>
  BY RelayInvParts DEF Clean
<1>1. PICK r \in Requests : r = cleaner.to
  BY <1>0 DEF RelayTypeOK
<1> DEFINE h == channel[r].held
<1>2. Kept(r) /\ session # "open"
  BY <1>0, RelayInvParts
<1>3. /\ h \in Seq(Kinds) /\ Len(h) \in Nat /\ Len(h) <= Buffer
      /\ DOMAIN h = 1..Len(h) /\ channel[r].closed \in BOOLEAN
  BY <1>0, RelayFacts
<1>4. InHand(r)' = InHand(r)
  BY <1>0 DEF InHand
<1>5. channel \in [Requests -> [held: Held, closed: BOOLEAN]]
  BY <1>0 DEF RelayTypeOK, Held
<1>6. CASE channel[r].closed
  <2>1. crashed' = TRUE /\ UNCHANGED <<channel, lost>>
    BY <1>1, <1>6 DEF Clean
  <2>2. RelayTypeOK'
    BY <1>0, <1>1, <2>1 DEF RelayTypeOK
  <2>. QED
    BY <1>0, <1>2, <2>1, <2>2, NoRequest DEF RelayTypeOK
<1>7. CASE ~channel[r].closed
  <2>1. /\ channel' = [channel EXCEPT ![r] =
                [held |-> IF Len(h) < Buffer THEN Append(h, "error") ELSE h, closed |-> TRUE]]
        /\ lost' = IF Len(h) < Buffer THEN lost ELSE lost \cup {r}
        /\ UNCHANGED crashed
    BY <1>1, <1>7 DEF Clean
  <2>2. /\ Append(h, "error") \in Seq(Kinds) /\ Len(Append(h, "error")) = Len(h) + 1
        /\ DOMAIN Append(h, "error") = DOMAIN h \cup {Len(h) + 1}
        /\ Append(h, "error")[Len(h) + 1] = "error"
        /\ \A i \in DOMAIN h : Append(h, "error")[i] = h[i]
    <3>1. "error" \in Kinds
      BY DEF Kinds
    <3>. QED
      BY <1>3, <3>1, AppendFacts
  <2>3. /\ channel'[r].held = IF Len(h) < Buffer THEN Append(h, "error") ELSE h
        /\ channel'[r].closed /\ \A q \in Requests \ {r} : channel'[q] = channel[q]
    BY <1>5, <2>1
  <2>4. RelayTypeOK'
    <3>1. Len(h) < Buffer => Append(h, "error") \in Held
      <4>1. Len(h) < Buffer => Len(h) + 1 <= Buffer
        <5>. HIDE DEF h
        <5>. QED
          BY <1>3, RelayAssumption
      <4>. QED
        BY <2>2, <4>1, HeldIsShort
    <3>2. h \in Held
      BY <1>3, HeldIsShort
    <3>3. channel' \in [Requests -> [held: Held, closed: BOOLEAN]]
      BY <1>5, <2>1, <3>1, <3>2
    <3>. QED
      BY <1>0, <1>1, <2>1, <3>3 DEF RelayTypeOK, Held
  <2>5. BeforeAsked(r)' /\ Removals(r)'
    BY <1>0, <1>2, <1>4, <2>2, <2>3 DEF Kept, BeforeAsked, Removals
  <2>6. NoMoreThanSent(r)'
    <3>1. \A i \in DOMAIN h : h[i] = "chunk" => client[r].got + i <= peer[r].sent
      BY <1>2 DEF Kept, NoMoreThanSent
    <3>2. \A i \in DOMAIN channel'[r].held : channel'[r].held[i] = "chunk" =>
              client[r].got + i <= peer[r].sent
      BY <2>2, <2>3, <3>1
    <3>. QED
      BY <1>0, <1>2, <2>3, <3>2 DEF Kept, NoMoreThanSent
  <2>7. NoLessThanSent(r)'
    <3>. SUFFICES ASSUME client[r].step = "waits", r \notin gaveUp, r \notin lost'
                  PROVE  NoLessThanSent(r)'
      BY <1>0 DEF NoLessThanSent
    <3>1. Len(h) < Buffer /\ r \notin lost
      BY <2>1
    <3>2. \A i \in DOMAIN h : h[i] = "end" =>
              peer[r].ended /\ ~InHand(r) /\ client[r].got + i = peer[r].sent + 1
      BY <1>2, <3>1 DEF Kept, NoLessThanSent
    <3>3. /\ \A i \in DOMAIN channel'[r].held : channel'[r].held[i] = "end" =>
                peer[r].ended /\ ~InHand(r) /\ client[r].got + i = peer[r].sent + 1
          /\ \E i \in DOMAIN channel'[r].held : channel'[r].held[i] # "chunk"
      BY <2>2, <2>3, <3>1, <3>2
    <3>. QED
      BY <1>0, <1>4, <2>3, <3>3 DEF NoLessThanSent
  <2>8. Kept(r)'
    BY <1>0, <1>2, <2>1, <2>5, <2>6, <2>7 DEF Kept
  <2>. QED
    BY <1>0, <1>2, <2>1, <2>3, <2>4, <2>8, OneRequest
<1>. QED
  BY <1>3, <1>6, <1>7

\* session.go: whatever the requests, the reader and the cleanup do, what a request
\* has received, what waits in its channel and what is in the reader's hand are
\* together what its peer sent.
THEOREM RelayInvariance == RelaySpec => []RelayInv
<1>1. RelayInit => RelayInv
  <2>. SUFFICES ASSUME RelayInit PROVE RelayInv
    OBVIOUS
  <2>1. RelayTypeOK
    <3>1. <<>> \in Held
      <4>1. <<>> \in Seq(Kinds) /\ Len(<<>>) = 0 /\ 0 <= Buffer
        BY RelayAssumption
      <4>. QED
        BY <4>1, HeldIsShort
    <3>2. channel \in [Requests -> [held: Held, closed: BOOLEAN]]
      BY <3>1 DEF RelayInit
    <3>3. /\ client \in [Requests -> [step: Steps, stream: BOOLEAN, got: 0..Longest]]
          /\ peer \in [Requests -> [sent: 0..Longest, ended: BOOLEAN]]
      BY RelayAssumption DEF RelayInit, Steps
    <3>. QED
      BY <3>2, <3>3 DEF RelayInit, RelayTypeOK, Held, Steps
  <2>2. ASSUME NEW r \in Requests PROVE Kept(r)
    <3>1. /\ client[r].step = "new" /\ client[r].got = 0 /\ channel[r].held = <<>>
          /\ channel[r] = [held |-> <<>>, closed |-> FALSE]
          /\ ~channel[r].closed /\ peer[r].sent = 0 /\ ~peer[r].ended /\ ~InHand(r)
          /\ reader = NoMessage /\ gaveUp = {} /\ lost = {}
      BY DEF RelayInit, InHand
    <3>. QED
      BY <3>1 DEF Kept, BeforeAsked, NoMoreThanSent, NoLessThanSent, Removals
  <2>. QED
    BY <2>1, <2>2, RelayInvParts DEF RelayInit
<1>2. RelayInv /\ [RelayNext]_relayVars => RelayInv'
  <2>. SUFFICES ASSUME RelayInv, [RelayNext]_relayVars PROVE RelayInv'
    OBVIOUS
  <2>1. CASE UNCHANGED relayVars
    BY <2>1 DEF relayVars, RelayInv, RelayTypeOK, BeforeAsked, NoMoreThanSent, NoLessThanSent,
                Removals, InHand, AnswerIsWhole
  <2>2. CASE \E r \in Requests : Client(r) \/ GiveUp(r) \/ Withdraw(r)
    BY <2>2, EnterStep, LookUpStep, AskStep, ReturnStep, TakeStep, FindClosedStep, GiveUpStep,
       WithdrawStep DEF Client
  <2>3. CASE Reader
    BY <2>3, ReadMessageStep, DeliverStep, EndPendingStep DEF Reader
  <2>4. CASE Close \/ Cleanup
    BY <2>4, CleanupMoves, CleanStep DEF Cleanup
  <2>. QED
    BY <2>1, <2>2, <2>3, <2>4 DEF RelayNext
<1>. QED
  BY <1>1, <1>2, PTL DEF RelaySpec

\* Http.go, NonStream and Stream: an answer that ends well for a client that waited
\* is the whole answer, whoever closes its channel and whenever, unless a message
\* found the channel full.
THEOREM AnswersAreWhole == RelaySpec => []AnswerIsWhole
<1>1. RelayInv => AnswerIsWhole
  BY DEF RelayInv
<1>. QED
  BY <1>1, RelayInvariance, PTL

-----------------------------------------------------------------------------
(* WebSocketRelay: nobody is forgotten.                                    *)

\* Whom the cleanup may miss is not asked, whom it has been through has a closed
\* channel, and whose answer has ended is in the reader's hand or out of the map.
Recalled(q) ==
    /\ q \in cleaned => channel[q].closed
    /\ q \in late => client[q].step # "waits"
    /\ client[q].step = "waits" /\ ~channel[q].closed =>
          /\ peer[q].ended => reader # NoMessage /\ reader.to = q
          /\ session # "gone"

Recall ==
    /\ session = "open" => late = {} /\ cleaned = {}
    /\ \A q \in Requests : Recalled(q)

LEMMA RecallGives == RelayInv /\ Recall => NobodyIsForgotten
<1>. SUFFICES ASSUME RelayInv, Recall, NEW q \in Requests, client[q].step = "waits", ~channel[q].closed
              PROVE  /\ peer[q].ended => reader # NoMessage /\ reader.to = q
                     /\ session = "closing" => q \in (waiting \ cleaned) \ late
                     /\ session # "gone"
  BY DEF NobodyIsForgotten
<1>1. Recalled(q) /\ Removals(q)
  BY RelayInvParts DEF Recall, Kept
<1>. QED
  BY <1>1 DEF Recalled, Removals

\* Every step leaves a closed channel closed, and who waits had waited or was just asked.
LEMMA ClosedStays ==
    ASSUME RelayInv, [RelayNext]_relayVars, NEW q \in Requests, channel[q].closed
    PROVE  channel'[q].closed
<1>0. RelayTypeOK
  BY DEF RelayInv
<1>1. ASSUME NEW r \in Requests, Removed(r) PROVE channel'[q].closed
  BY <1>0, <1>1, RemovedFacts
<1>2. ASSUME NEW r \in Requests, Take(r) PROVE channel'[q].closed
  BY <1>0, <1>2 DEF Take, RelayTypeOK
<1>3. CASE Deliver
  <2>1. \/ UNCHANGED channel
        \/ channel' = [channel EXCEPT ![reader.to].held = Append(@, reader.kind)]
    BY <1>3 DEF Deliver, Sent
  <2>2. CASE reader.to = q
    BY <1>0, <2>1, <2>2 DEF RelayTypeOK
  <2>3. CASE reader.to # q
    <3>1. channel'[q] = channel[q]
      BY <1>0, <2>1, <2>3 DEF RelayTypeOK
    <3>. QED
      BY <3>1
  <2>. QED
    BY <2>2, <2>3
<1>4. CASE Clean
  <2>1. \/ UNCHANGED channel
        \/ \E h : channel' = [channel EXCEPT ![cleaner.to] = [held |-> h, closed |-> TRUE]]
    BY <1>4 DEF Clean
  <2>2. CASE UNCHANGED channel
    BY <2>2
  <2>3. ASSUME NEW h, channel' = [channel EXCEPT ![cleaner.to] = [held |-> h, closed |-> TRUE]]
        PROVE  channel'[q].closed
    <3>1. channel'[q] = channel[q] \/ channel'[q] = [held |-> h, closed |-> TRUE]
      BY <1>0, <2>3 DEF RelayTypeOK
    <3>. QED
      BY <3>1
  <2>. QED
    BY <2>1, <2>2, <2>3
<1>5. CASE UNCHANGED channel
  BY <1>5
<1>6. CASE EndPending
  <2>1. reader.to \in Requests
    BY <1>0, <1>6 DEF EndPending, RelayTypeOK
  <2>. QED
    BY <1>1, <1>6, <2>1 DEF EndPending
<1>7. ASSUME NEW r \in Requests, Ask(r) \/ Withdraw(r) PROVE channel'[q].closed
  BY <1>1, <1>5, <1>7 DEF Ask, Withdraw
<1>. QED
  BY <1>2, <1>3, <1>4, <1>5, <1>6, <1>7
  DEF RelayNext, Client, Reader, Cleanup, Enter, LookUp, Return, FindClosed, GiveUp, ReadMessage, Close,
      CleanNext, Replace, relayVars

\* A step of a request that takes nobody up and nothing away.
LEMMA RecallStays ==
    ASSUME RelayInv, Recall, UNCHANGED <<session, cleaned, peer, reader>>,
           \A q \in Requests : /\ channel[q].closed => channel'[q].closed
                               /\ client'[q].step = "waits" => client[q].step = "waits" /\ q \notin late',
           session = "open" => late' = late
    PROVE  Recall'
<1>1. ASSUME NEW q \in Requests PROVE Recalled(q)'
  <2>1. Recalled(q)
    BY DEF Recall
  <2>. QED
    BY <2>1 DEF Recalled
<1>. QED
  BY <1>1 DEF Recall

LEMMA RecallClient ==
    ASSUME RelayInv, Recall, [RelayNext]_relayVars,
           NEW r \in Requests, Client(r) \/ GiveUp(r) \/ Withdraw(r)
    PROVE  Recall'
<1>0. /\ RelayTypeOK /\ \A q \in Requests : channel[q].closed => channel'[q].closed
      /\ \A q \in Requests : Recalled(q) /\ Kept(q)
  BY ClosedStays, RelayInvParts DEF Recall
<1>1. CASE Enter(r)
  <2>1. /\ client' = [client EXCEPT ![r].step = "entered"] /\ late' \in {late, late \cup {r}}
        /\ session = "open" => late' = late
        /\ UNCHANGED <<session, cleaned, channel, peer, reader>>
    BY <1>1 DEF Enter, Becomes
  <2>2. \A q \in Requests : client'[q].step = "waits" => q # r /\ client'[q] = client[q]
    BY <1>0, <2>1 DEF RelayTypeOK
  <2>3. \A q \in Requests : client'[q].step = "waits" => client[q].step = "waits" /\ q \notin late'
    BY <1>0, <2>1, <2>2 DEF Recalled
  <2>. QED
    BY <2>1, <2>3, RecallStays
<1>2. CASE Ask(r)
  <2>1. /\ client[r].step = "found" /\ UNCHANGED <<session, late, cleaned, peer, reader>>
        /\ \/ session = "open" /\ client' = [client EXCEPT ![r].step = "waits"]
           \/ client' = [client EXCEPT ![r].step = "failed"]
    BY <1>2 DEF Ask, Becomes
  <2>2. CASE client' = [client EXCEPT ![r].step = "failed"]
    <3>1. \A q \in Requests : client'[q].step = "waits" => client[q].step = "waits"
      BY <1>0, <2>2 DEF RelayTypeOK
    <3>. QED
      BY <1>0, <2>1, <3>1, RecallStays DEF Recalled
  <2>3. CASE session = "open" /\ client' = [client EXCEPT ![r].step = "waits"]
    <3>1. late = {} /\ cleaned = {} /\ ~peer[r].ended
      BY <1>0, <2>1, <2>3 DEF Recall, Kept, BeforeAsked, Finished
    <3>2. ASSUME NEW q \in Requests PROVE Recalled(q)'
      <4>1. q # r => client'[q] = client[q]
        BY <1>0, <2>3 DEF RelayTypeOK
      <4>. QED
        BY <1>0, <2>1, <2>3, <3>1, <4>1 DEF Recalled
    <3>. QED
      BY <2>1, <3>1, <3>2 DEF Recall
  <2>. QED
    BY <2>1, <2>2, <2>3
<1>3. CASE LookUp(r) \/ Return(r) \/ FindClosed(r)
  <2>1. /\ \E next \in {"found", "failed", "left", "done"} : client' = [client EXCEPT ![r].step = next]
        /\ UNCHANGED <<session, late, cleaned, peer, reader>>
    BY <1>3 DEF LookUp, Return, FindClosed, Becomes
  <2>2. \A q \in Requests : client'[q].step = "waits" => client[q].step = "waits"
    BY <1>0, <2>1 DEF RelayTypeOK
  <2>. QED
    BY <1>0, <2>1, <2>2, RecallStays DEF Recalled
<1>4. CASE Take(r)
  <2>1. /\ client[r].step = "waits" /\ UNCHANGED <<session, late, cleaned, peer, reader>>
        /\ \/ client' = [client EXCEPT ![r].got = @ + 1]
           \/ \E next \in {"failed", "done"} : client' = [client EXCEPT ![r].step = next]
    BY <1>4 DEF Take
  <2>2. \A q \in Requests : client'[q].step = "waits" => client[q].step = "waits"
    BY <1>0, <2>1 DEF RelayTypeOK
  <2>. QED
    BY <1>0, <2>1, <2>2, RecallStays DEF Recalled
<1>5. CASE GiveUp(r) \/ Withdraw(r)
  <2>1. UNCHANGED <<session, late, cleaned, client, peer, reader>>
    BY <1>5 DEF GiveUp, Withdraw
  <2>. QED
    BY <1>0, <2>1, RecallStays DEF Recalled
<1>. QED
  BY <1>1, <1>2, <1>3, <1>4, <1>5 DEF Client

LEMMA RecallReader == ASSUME RelayInv, Recall, [RelayNext]_relayVars, Reader PROVE Recall'
<1>0. /\ RelayTypeOK /\ \A q \in Requests : channel[q].closed => channel'[q].closed
      /\ \A q \in Requests : Recalled(q) /\ Kept(q)
      /\ UNCHANGED <<session, late, cleaned, client>>
  BY ClosedStays, RelayInvParts DEF Recall, Reader, ReadMessage, Deliver, EndPending
<1>1. \A q \in Requests : client[q].step = "waits" /\ q \notin waiting => channel[q].closed
  BY <1>0 DEF Kept, Removals, Recalled
<1>2. ASSUME NEW r \in Requests, ReadMessage(r), NEW q \in Requests PROVE Recalled(q)'
  <2>1. reader = NoMessage /\ UNCHANGED channel
    BY <1>2 DEF ReadMessage
  <2>2. peer'[q].ended = peer[q].ended \/ q = r
    BY <1>0, <1>2 DEF ReadMessage, RelayTypeOK
  <2>3. r \in waiting => reader' # NoMessage /\ reader'.to = r
    BY <1>2 DEF ReadMessage, NoMessage, Kinds
  <2>. QED
    BY <1>0, <1>1, <2>1, <2>2, <2>3 DEF Recalled
<1>3. ASSUME Deliver, NEW q \in Requests PROVE Recalled(q)'
  <2>1. /\ reader # NoMessage /\ ~reader.sent /\ UNCHANGED peer
        /\ reader' = IF Ends(reader.kind) THEN [reader EXCEPT !.sent = TRUE] ELSE NoMessage
    BY <1>3 DEF Deliver
  <2>2. reader \in [kind: Kinds, to: Requests, sent: BOOLEAN]
    BY <1>0, <2>1 DEF RelayTypeOK
  <2>3. Ends(reader.kind) => reader' # NoMessage /\ reader'.to = reader.to
    BY <2>1, <2>2 DEF NoMessage
  <2>4. reader.to = q /\ peer[q].ended => Ends(reader.kind)
    BY <1>0, <2>1 DEF Kept, Removals, InHand
  <2>. QED
    BY <1>0, <2>1, <2>3, <2>4 DEF Recalled
<1>4. ASSUME EndPending, NEW q \in Requests PROVE Recalled(q)'
  <2>1. reader # NoMessage /\ Removed(reader.to) /\ UNCHANGED peer /\ reader.to \in Requests
    BY <1>0, <1>4 DEF EndPending, RelayTypeOK
  <2>2. reader.to = q /\ client[q].step = "waits" => channel'[q].closed
    BY <1>0, <1>1, <2>1, RemovedFacts
  <2>. QED
    BY <1>0, <2>1, <2>2 DEF Recalled
<1>5. \A q \in Requests : Recalled(q)'
  BY <1>2, <1>3, <1>4 DEF Reader
<1>. QED
  BY <1>0, <1>5 DEF Recall

LEMMA RecallCleanup ==
    ASSUME RelayInv, Recall, [RelayNext]_relayVars, Close \/ Cleanup PROVE Recall'
<1>0. /\ RelayTypeOK /\ \A q \in Requests : channel[q].closed => channel'[q].closed
      /\ \A q \in Requests : Recalled(q) /\ Kept(q)
      /\ session = "open" => cleaner = NoMessage
      /\ UNCHANGED <<late, client, peer, reader>>
  BY ClosedStays, RelayInvParts DEF Recall, Close, Cleanup, CleanNext, Clean, Replace
<1>1. CASE Close \/ \E r \in Requests : CleanNext(r)
  <2>1. UNCHANGED cleaned /\ session' = "closing"
    BY <1>1 DEF Close, CleanNext
  <2>. QED
    BY <1>0, <2>1 DEF Recall, Recalled
<1>2. CASE Clean
  <2>1. /\ cleaner # NoMessage /\ cleaned' = cleaned \cup {cleaner.to} /\ session # "open"
        /\ UNCHANGED session /\ cleaner.to \in Requests
    BY <1>0, <1>2 DEF Clean, RelayTypeOK
  <2>2. channel'[cleaner.to].closed
    <3>1. CASE channel[cleaner.to].closed
      BY <1>0, <2>1, <3>1
    <3>2. CASE ~channel[cleaner.to].closed
      <4>1. \E h : channel' = [channel EXCEPT ![cleaner.to] = [held |-> h, closed |-> TRUE]]
        BY <1>2, <3>2 DEF Clean
      <4>. QED
        BY <1>0, <2>1, <4>1 DEF RelayTypeOK
    <3>. QED
      BY <3>1, <3>2
  <2>3. ASSUME NEW q \in Requests PROVE Recalled(q)'
    BY <1>0, <2>1, <2>2 DEF Recalled
  <2>. QED
    BY <2>1, <2>3 DEF Recall
<1>3. CASE Replace
  <2>1. /\ session = "closing" /\ session' = "gone" /\ waiting \ cleaned \subseteq late
        /\ UNCHANGED <<cleaned, channel>>
    BY <1>3 DEF Replace
  <2>2. ASSUME NEW q \in Requests, client[q].step = "waits" PROVE channel[q].closed
    BY <1>0, <2>1, <2>2 DEF Recalled, Kept, Removals
  <2>3. ASSUME NEW q \in Requests PROVE Recalled(q)'
    BY <1>0, <2>1, <2>2 DEF Recalled
  <2>. QED
    BY <2>1, <2>3 DEF Recall
<1>. QED
  BY <1>1, <1>2, <1>3 DEF Cleanup

\* session.go: who waits for an answer is with the reader, with the cleanup or has a
\* closed channel, whenever its entry and the cleanup meet: the safety half of
\* RequestReturns.
THEOREM NoneForgotten == RelaySpec => []NobodyIsForgotten
<1>1. RelayInit => Recall
  <2>. SUFFICES ASSUME RelayInit PROVE Recall
    OBVIOUS
  <2>1. \A q \in Requests : client[q].step = "new"
    BY DEF RelayInit
  <2>. QED
    BY <2>1 DEF RelayInit, Recall, Recalled
<1>2. RelayInv /\ Recall /\ [RelayNext]_relayVars => Recall'
  <2>. SUFFICES ASSUME RelayInv, Recall, [RelayNext]_relayVars PROVE Recall'
    OBVIOUS
  <2>1. CASE UNCHANGED relayVars
    BY <2>1 DEF relayVars, Recall, Recalled
  <2>. QED
    BY <2>1, RecallClient, RecallReader, RecallCleanup DEF RelayNext
<1>. QED
  BY <1>1, <1>2, RecallGives, RelayInvariance, PTL DEF RelaySpec

-----------------------------------------------------------------------------
(* UpstreamSession: types.                                                 *)

CallRecord ==
    [pc: {"new", "wants", "ensure", "dial", "activate", "send", "read", "ending", "over"},
     conn: {Unset} \cup Sockets, again: BOOLEAN, outcome: Outcomes, got: Nat, foreign: BOOLEAN,
     late: BOOLEAN]
ListenerRecord ==
    [pc: {"none", "listen", "pass", "fail", "invalidate", "gone"},
     ch: {Unset} \cup Calls, word: Words \cup {NoWord}]
SocketRecord == [state: {"none", "open", "dropped", "shut"}, owes: Seq(Calls)]

LEMMA SessionTypes ==
    SessionTypeOK <=>
        /\ kept \in BOOLEAN /\ reqMu \in {Unset} \cup Calls /\ conn \in {Unset} \cup Sockets
        /\ activeCh \in {Unset} \cup Calls /\ call \in [Calls -> CallRecord]
        /\ feed \in [Calls -> [held: Seq(Words), closed: BOOLEAN]]
        /\ socket \in [Sockets -> SocketRecord] /\ listener \in [Sockets -> ListenerRecord]
        /\ events \in [Calls -> 0..MaxEvents] /\ departed \in BOOLEAN /\ panicked \in BOOLEAN
BY DEF SessionTypeOK, CallRecord, ListenerRecord, SocketRecord

LEMMA NumbersOfCalls ==
    /\ Unset \notin Calls /\ Unset \notin Sockets
    /\ \A c, d \in Calls : c < d \/ c = d \/ d < c
    /\ \A c, d \in Calls : ~(c < d /\ d < c) /\ ~(c < c)
    /\ \A c, d, e \in Calls : c < d /\ d < e => c < e
BY SessionAssumption DEF Calls, Sockets, Unset

LEMMA SessionFacts ==
    ASSUME SessionTypeOK
    PROVE  /\ \A c \in Calls :
                /\ call[c] \in CallRecord /\ call[c].conn \in {Unset} \cup Sockets
                /\ call[c].got \in Nat /\ events[c] \in Nat
                /\ feed[c].held \in Seq(Words) /\ Len(feed[c].held) \in Nat
                /\ DOMAIN feed[c].held = 1..Len(feed[c].held) /\ feed[c].closed \in BOOLEAN
                /\ \A i \in DOMAIN feed[c].held : feed[c].held[i] \in Words
           /\ \A s \in Sockets :
                /\ socket[s].owes \in Seq(Calls) /\ DOMAIN socket[s].owes = 1..Len(socket[s].owes)
                /\ Len(socket[s].owes) \in Nat
                /\ \A i \in DOMAIN socket[s].owes : socket[s].owes[i] \in Calls
                /\ listener[s].ch \in {Unset} \cup Calls /\ listener[s].word \in Words \cup {NoWord}
<1>1. ASSUME NEW c \in Calls
      PROVE  /\ call[c] \in CallRecord /\ call[c].conn \in {Unset} \cup Sockets
             /\ call[c].got \in Nat /\ events[c] \in Nat
             /\ feed[c].held \in Seq(Words) /\ feed[c].closed \in BOOLEAN
  BY SessionTypes, SessionAssumption DEF CallRecord
<1>2. ASSUME NEW s \in Sockets
      PROVE  /\ socket[s].owes \in Seq(Calls) /\ listener[s].ch \in {Unset} \cup Calls
             /\ listener[s].word \in Words \cup {NoWord}
  BY SessionTypes DEF SocketRecord, ListenerRecord
<1>3. \A S : \A q \in Seq(S) :
        Len(q) \in Nat /\ DOMAIN q = 1..Len(q) /\ \A i \in DOMAIN q : q[i] \in S
  OBVIOUS
<1>. QED
  BY <1>1, <1>2, <1>3

\* One call is given another record.
LEMMA CallChanges ==
    ASSUME call \in [Calls -> CallRecord], NEW c \in Calls, NEW r \in CallRecord,
           call' = [call EXCEPT ![c] = r]
    PROVE  /\ call'[c] = r /\ \A q \in Calls \ {c} : call'[q] = call[q]
           /\ call' \in [Calls -> CallRecord]
OBVIOUS

\* One call goes on to another step.
LEMMA CallMoves ==
    ASSUME call \in [Calls -> CallRecord], NEW c \in Calls,
           NEW next \in {"new", "wants", "ensure", "dial", "activate", "send", "read", "ending", "over"},
           Moves(c, next)
    PROVE  /\ call'[c].pc = next /\ call'[c].conn = call[c].conn
           /\ call'[c].again = call[c].again /\ call'[c].outcome = call[c].outcome
           /\ call'[c].got = call[c].got /\ call'[c].foreign = call[c].foreign
           /\ call'[c].late = call[c].late
           /\ \A q \in Calls \ {c} : call'[q] = call[q]
           /\ call' \in [Calls -> CallRecord]
<1>. DEFINE r == [call[c] EXCEPT !.pc = next]
<1>1. call' = [call EXCEPT ![c] = r]
  BY DEF Moves
<1>2. /\ r \in CallRecord /\ r.pc = next /\ r.conn = call[c].conn /\ r.again = call[c].again
      /\ r.outcome = call[c].outcome /\ r.got = call[c].got /\ r.foreign = call[c].foreign
      /\ r.late = call[c].late
  BY DEF CallRecord
<1>. HIDE DEF r
<1>. QED
  BY <1>1, <1>2, CallChanges

\* One call comes to its end.
LEMMA CallComesToEnd ==
    ASSUME call \in [Calls -> CallRecord], NEW c \in Calls, NEW how \in Outcomes,
           call' = Ended(c, how)
    PROVE  call' \in [Calls -> CallRecord]
<1>. DEFINE r == [call[c] EXCEPT !.pc = "ending", !.outcome = how]
<1>1. call' = [call EXCEPT ![c] = r]
  BY DEF Ended
<1>2. r \in CallRecord
  BY DEF CallRecord
<1>. HIDE DEF r
<1>. QED
  BY <1>1, <1>2, CallChanges

-----------------------------------------------------------------------------
(* UpstreamSession: what the parts of the invariant say together.          *)

\* At most one call is in progress, and it comes after those that have an outcome.
LEMMA OneInProgress ==
    ASSUME SessionInv, NEW c \in Calls, call[c].pc # "new", call[c].outcome = "none"
    PROVE  /\ \A q \in Calls \ {c} :
                /\ call[q].pc \in {"new"} \cup {"ending", "over"}
                /\ call[q].pc = "new" <=> c < q
                /\ call[q].outcome # "none" <=> q < c
           /\ c \notin {d \in Calls : CutOff(d)}
<1>1. Turns /\ SessionTypeOK
  BY DEF SessionInv
<1>2. ASSUME NEW q \in Calls, q < c PROVE call[q].outcome # "none" /\ call[q].pc \in {"ending", "over"}
  BY <1>1, <1>2 DEF Turns
<1>3. ASSUME NEW q \in Calls, c < q PROVE call[q].outcome = "none" /\ call[q].pc = "new"
  BY <1>1, <1>3 DEF Turns
<1>. QED
  BY <1>2, <1>3, NumbersOfCalls DEF CutOff

\* On the connection of a call that no earlier one disturbed, upstream owes nothing
\* to another, and no word of another's is in the reader's hand.
LEMMA AloneOnConnection ==
    ASSUME SessionInv, NEW c \in Calls, call[c].pc \in {"activate", "send", "read"}, Undisturbed(c),
           NEW s \in Sockets, s = call[c].conn
    PROVE  /\ \A i \in DOMAIN socket[s].owes : socket[s].owes[i] = c /\ call[c].pc = "read"
           /\ \A d \in Calls : CarriesFor(s, d) => d = c /\ call[c].pc = "read"
<1>1. /\ SessionTypeOK /\ Turns /\ Answers /\ DoneIsOver /\ Connections /\ call[c].outcome = "none"
      /\ call[c].pc # "new"
  BY DEF SessionInv, Turns
<1>2. ASSUME NEW d \in Calls, call[d].conn = s, call[d].pc \in Replied,
             CarriesFor(s, d) \/ \E i \in DOMAIN socket[s].owes : socket[s].owes[i] = d
      PROVE  d = c
  <2>. SUFFICES ASSUME d # c PROVE FALSE
    OBVIOUS
  <2>1. d < c /\ call[d].outcome # "none"
    BY <1>1, <1>2, OneInProgress DEF Replied
  <2>2. call[d].outcome \in Outcomes \ {"none", "refused", "failed", "left"}
    <3>1. call[d].outcome \in Outcomes
      BY <1>1, SessionTypes DEF CallRecord
    <3>2. call[d].outcome # "refused"
      BY <1>1, <1>2, NumbersOfCalls DEF Connections
    <3>3. ~CutOff(d)
      BY <1>2, <2>1 DEF Undisturbed
    <3>. QED
      BY <2>1, <3>1, <3>2, <3>3 DEF CutOff
  <2>3. call[d].outcome = "done"
    BY <2>2 DEF Outcomes
  <2>4. Undisturbed(d)
    BY <1>2, <2>1, NumbersOfCalls DEF Undisturbed
  <2>. QED
    BY <1>1, <1>2, <2>3, <2>4 DEF DoneIsOver
<1>3. ASSUME NEW i \in DOMAIN socket[s].owes
      PROVE  socket[s].owes[i] = c /\ call[c].pc = "read"
  <2>1. socket[s].owes[i] \in Calls /\ call[socket[s].owes[i]].conn = s
        /\ call[socket[s].owes[i]].pc \in Replied
    BY <1>1, SessionFacts DEF Answers
  <2>2. socket[s].owes[i] = c
    BY <1>2, <2>1
  <2>. QED
    BY <2>1, <2>2 DEF Replied
<1>4. ASSUME NEW d \in Calls, CarriesFor(s, d) PROVE d = c /\ call[c].pc = "read"
  <2>1. call[d].conn = s /\ call[d].pc \in Replied
    BY <1>1, <1>4 DEF Answers, CarriesFor
  <2>2. d = c
    BY <1>2, <1>4, <2>1
  <2>. QED
    BY <2>1, <2>2 DEF Replied
<1>. QED
  BY <1>3, <1>4

-----------------------------------------------------------------------------
(* UpstreamSession: steps that take a connection away or end a call.       *)

\* Connections are lost, none is made.
Fades ==
    /\ conn' \in {conn, Unset} /\ socket' \in [Sockets -> SocketRecord]
    /\ \A s \in Sockets :
        /\ socket'[s].owes = socket[s].owes
        /\ socket'[s].state = "none" <=> socket[s].state = "none"
        /\ socket'[s].state = "open" => socket[s].state = "open" /\ conn' = s

LEMMA ShutFades ==
    ASSUME SessionInv, conn \in Sockets, conn' = Unset, socket' = Shut(conn) PROVE Fades
<1>1. socket \in [Sockets -> SocketRecord] /\ Connections
  BY SessionTypes DEF SessionInv
<1>2. /\ socket' \in [Sockets -> SocketRecord]
      /\ socket'[conn].state = "shut" /\ socket'[conn].owes = socket[conn].owes
      /\ \A s \in Sockets \ {conn} : socket'[s] = socket[s]
  BY <1>1 DEF Shut, SocketRecord
<1>3. ASSUME NEW s \in Sockets
      PROVE  /\ socket'[s].owes = socket[s].owes
             /\ socket'[s].state = "none" <=> socket[s].state = "none"
             /\ socket'[s].state # "open"
  BY <1>1, <1>2 DEF Connections
<1>. QED
  BY <1>2, <1>3 DEF Fades

LEMMA StaysFades ==
    ASSUME SessionInv, conn' = conn, socket' = socket PROVE Fades
<1>1. socket \in [Sockets -> SocketRecord] /\ Connections
  BY SessionTypes DEF SessionInv
<1>. QED
  BY <1>1 DEF Fades, Connections

LEMMA InvalidatedFades ==
    ASSUME SessionInv, NEW s \in Sockets, Invalidated(s) PROVE Fades
BY ShutFades, StaysFades DEF Invalidated

\* What a call has heard stays, when it, its channel, its connection and the reader's
\* word stay.
LEMMA StillHeard ==
    ASSUME NEW c \in Calls, call'[c] = call[c], feed'[c] = feed[c], events'[c] = events[c],
           NEW s \in Sockets, s = call[c].conn, socket'[s].owes = socket[s].owes,
           listener[s].pc = "pass" \/ listener'[s].pc = "pass" => listener'[s] = listener[s]
    PROVE  AllHeard(c)' <=> AllHeard(c)
<1>1. /\ EventsHeld(c)' = EventsHeld(c) /\ (EventInHand(c)' <=> EventInHand(c))
      /\ \A w : FromConn(c, w)' <=> FromConn(c, w)
  BY DEF EventsHeld, EventInHand, FromConn
<1>2. call'[c].conn = s /\ (CarriesFor(s, c)' <=> CarriesFor(s, c))
  BY DEF CarriesFor
<1>. QED
  BY <1>1, <1>2 DEF AllHeard, CarriesFor

\* A step of the connections alone, or of a reader that has no word in hand.
LEMMA ConnectionStep ==
    ASSUME SessionInv, SessionTypeOK', Fades,
           UNCHANGED <<call, feed, events, reqMu, activeCh>>,
           \A t \in Sockets :
                /\ listener[t].pc = "pass" \/ listener'[t].pc = "pass" => listener'[t] = listener[t]
                /\ listener'[t].pc = "none" <=> listener[t].pc = "none"
                /\ listener'[t].pc = "fail" => listener'[t].ch # Unset
                /\ listener'[t].ch \in {listener[t].ch, activeCh}
    PROVE  SessionInv'
<1>1. SessionTypeOK /\ Turns /\ Connections /\ Answers /\ OwnWords /\ DoneIsOver
  BY DEF SessionInv
<1>2. Turns'
  <2>1. \A c \in Calls : HasBeenActive(c)' <=> HasBeenActive(c)
    BY DEF HasBeenActive
  <2>2. ASSUME NEW c \in Calls, NEW s \in Sockets, listener'[s].ch = c PROVE HasBeenActive(c)'
    BY <1>1, <2>1, <2>2, NumbersOfCalls DEF Turns
  <2>3. activeCh # Unset => HasBeenActive(activeCh)'
    BY <1>1 DEF Turns, HasBeenActive
  <2>. QED
    BY <1>1, <2>1, <2>2, <2>3 DEF Turns
<1>3. Connections'
  <2>1. ASSUME NEW c \in Calls
        PROVE  /\ call[c].pc \in {"activate", "send", "read"} =>
                      call[c].conn # Unset /\ conn' \in {Unset, call[c].conn}
               /\ (~HasBeenActive(c)' /\ call[c].pc # "activate") \/ call[c].outcome = "refused" =>
                      call[c].conn = Unset
               /\ call[c].pc = "dial" \/ (call[c].pc = "ensure" /\ call[c].again) => conn' = Unset
    BY <1>1 DEF Connections, Fades, HasBeenActive
  <2>2. ASSUME NEW s \in Sockets
        PROVE  /\ socket'[s].state = "open" => conn' = s
               /\ socket'[s].state = "none" =>
                    /\ socket'[s].owes = <<>> /\ listener'[s].pc = "none" /\ conn' # s
                    /\ \A c \in Calls : call[c].conn # s
                    /\ \A c \in Calls : \A i \in DOMAIN feed[c].held : feed[c].held[i].socket # s
    BY <1>1, NumbersOfCalls DEF Connections, Fades
  <2>. QED
    BY <2>1, <2>2 DEF Connections
<1>4. Answers'
  BY <1>1 DEF Answers, Fades
<1>5. \A c \in Calls, s \in Sockets : CarriesFor(s, c)' <=> CarriesFor(s, c)
  BY DEF CarriesFor
<1>6. \A c \in Calls : Undisturbed(c)' <=> Undisturbed(c)
  BY DEF Undisturbed, CutOff
<1>7. OwnWords'
  <2>1. ASSUME NEW c \in Calls, call[c].pc \in {"send", "read"} PROVE AllHeard(c)' <=> AllHeard(c)
    <3>1. call[c].conn \in Sockets
      BY <1>1, <2>1, SessionFacts DEF Connections
    <3>2. socket'[call[c].conn].owes = socket[call[c].conn].owes
      BY <3>1 DEF Fades
    <3>. QED
      BY <3>1, <3>2, StillHeard
  <2>. QED
    BY <1>1, <1>6, <2>1 DEF OwnWords
<1>8. DoneIsOver'
  BY <1>1, <1>5, <1>6 DEF DoneIsOver, Fades
<1>. QED
  BY <1>2, <1>3, <1>4, <1>7, <1>8 DEF SessionInv

LEMMA DropStep == ASSUME SessionInv, NEW s \in Sockets, Drop(s) PROVE SessionInv'
<1>0. SessionTypeOK /\ Connections
  BY DEF SessionInv
<1>1. /\ socket[s].state = "open" /\ socket' = [socket EXCEPT ![s].state = "dropped"]
      /\ UNCHANGED <<kept, reqMu, conn, activeCh, call, feed, listener, events, departed, panicked>>
  BY DEF Drop
<1>2. Fades
  <2>1. /\ socket' \in [Sockets -> SocketRecord]
        /\ socket'[s].state = "dropped" /\ socket'[s].owes = socket[s].owes
        /\ \A t \in Sockets \ {s} : socket'[t] = socket[t]
    BY <1>0, <1>1, SessionTypes DEF SocketRecord
  <2>. QED
    BY <1>0, <1>1, <2>1 DEF Fades, Connections
<1>3. SessionTypeOK'
  BY <1>0, <1>1, <1>2, SessionTypes DEF Fades, SessionTypeOK, SocketRecord
<1>4. \A t \in Sockets : listener[t].ch \in {listener[t].ch, activeCh}
  OBVIOUS
<1>5. Answers
  BY DEF SessionInv
<1>. QED
  BY <1>1, <1>2, <1>3, <1>5, ConnectionStep DEF Answers

LEMMA DepartStep == ASSUME SessionInv, Depart PROVE SessionInv'
<1>0. SessionTypeOK /\ Answers
  BY DEF SessionInv
<1>1. /\ departed' = TRUE
      /\ UNCHANGED <<kept, reqMu, conn, activeCh, call, feed, socket, listener, events, panicked>>
  BY DEF Depart
<1>2. SessionTypeOK'
  BY <1>0, <1>1 DEF SessionTypeOK
<1>. QED
  BY <1>0, <1>1, <1>2, StaysFades, ConnectionStep DEF Answers

LEMMA CloseSessionStep == ASSUME SessionInv, CloseSession PROVE SessionInv'
<1>0. SessionTypeOK /\ Answers
  BY DEF SessionInv
<1>1. /\ kept' = FALSE /\ conn' = Unset /\ socket' = IF conn = Unset THEN socket ELSE Shut(conn)
      /\ UNCHANGED <<reqMu, activeCh, call, feed, listener, events, departed, panicked>>
  BY DEF CloseSession
<1>2. Fades
  <2>1. conn \in {Unset} \cup Sockets
    BY <1>0 DEF SessionTypeOK
  <2>. QED
    BY <1>1, <2>1, ShutFades, StaysFades
<1>3. SessionTypeOK'
  BY <1>0, <1>1, <1>2 DEF Fades, SessionTypeOK, SocketRecord
<1>. QED
  BY <1>0, <1>1, <1>2, <1>3, ConnectionStep DEF Answers

LEMMA ForsakeStep == ASSUME SessionInv, NEW s \in Sockets, Forsake(s) PROVE SessionInv'
<1>0. SessionTypeOK /\ Answers
  BY DEF SessionInv
<1>1. /\ listener[s].pc = "invalidate" /\ listener' = [listener EXCEPT ![s] = [listener[s] EXCEPT !.pc = "gone"]]
      /\ Invalidated(s)
      /\ UNCHANGED <<kept, reqMu, activeCh, call, feed, events, departed, panicked>>
  BY DEF Forsake, Listening
<1>2. Fades
  BY <1>1, InvalidatedFades
<1>3. /\ listener' \in [Sockets -> ListenerRecord]
      /\ listener'[s].pc = "gone" /\ listener'[s].ch = listener[s].ch
      /\ \A t \in Sockets \ {s} : listener'[t] = listener[t]
  BY <1>0, <1>1, SessionTypes DEF ListenerRecord
<1>4. SessionTypeOK'
  BY <1>0, <1>1, <1>2, <1>3, SessionTypes DEF Fades, SessionTypeOK, SocketRecord, ListenerRecord
<1>. QED
  BY <1>0, <1>1, <1>2, <1>3, <1>4, ConnectionStep DEF Answers

LEMMA HearEndStep == ASSUME SessionInv, NEW s \in Sockets, HearEnd(s) PROVE SessionInv'
<1>0. SessionTypeOK /\ Answers
  BY DEF SessionInv
<1>1. /\ listener[s].pc = "listen"
      /\ listener' = [listener EXCEPT ![s] =
            [pc |-> IF activeCh = Unset THEN "invalidate" ELSE "fail", ch |-> activeCh,
             word |-> NoWord]]
      /\ UNCHANGED <<kept, reqMu, conn, activeCh, call, feed, socket, events, departed, panicked>>
  BY DEF HearEnd, Listening
<1>2. /\ listener' \in [Sockets -> ListenerRecord]
      /\ listener'[s].pc = IF activeCh = Unset THEN "invalidate" ELSE "fail"
      /\ listener'[s].ch = activeCh
      /\ \A t \in Sockets \ {s} : listener'[t] = listener[t]
  BY <1>0, <1>1, SessionTypes DEF ListenerRecord
<1>3. SessionTypeOK'
  BY <1>0, <1>1, <1>2, SessionTypes DEF SessionTypeOK, ListenerRecord
<1>. QED
  BY <1>0, <1>1, <1>2, <1>3, StaysFades, ConnectionStep DEF Answers

\* A call ends; it may have read some words.
LEMMA CallOver ==
    ASSUME SessionInv, Fades, NEW c \in Calls, call[c].pc \in InCall,
           NEW how \in {"done", "failed", "left"}, call'[c].pc = "ending", call'[c].outcome = how,
           call'[c].conn = call[c].conn, call'[c].again = call[c].again,
           \A q \in Calls \ {c} : call'[q] = call[q],
           \A q \in Calls \ {c} : feed'[q] = feed[q],
           \A i \in DOMAIN feed'[c].held : \E j \in DOMAIN feed[c].held :
                feed'[c].held[i] = feed[c].held[j],
           UNCHANGED <<reqMu, activeCh, listener, events>>
    PROVE  Turns' /\ Connections' /\ Answers' /\ OwnWords'
<1>1. SessionTypeOK /\ Turns /\ Connections /\ Answers /\ OwnWords
  BY DEF SessionInv
<1>2. /\ call'[c].pc = "ending" /\ call'[c].outcome = how /\ call'[c].conn = call[c].conn
      /\ call'[c].again = call[c].again
      /\ \A q \in Calls \ {c} : call'[q] = call[q]
  OBVIOUS
<1>3. call[c].outcome = "none" /\ call[c].pc # "new"
  BY <1>1 DEF Turns, InCall
<1>4. \A q \in Calls \ {c} :
        /\ call[q].pc \in {"new", "ending", "over"}
        /\ call[q].pc = "new" <=> c < q
        /\ call[q].outcome # "none" <=> q < c
  BY <1>3, OneInProgress
<1>5. /\ HasBeenActive(c)' /\ \A q \in Calls \ {c} : HasBeenActive(q)' <=> HasBeenActive(q)
      /\ \A q \in Calls : HasBeenActive(q) => HasBeenActive(q)'
  BY <1>2 DEF HasBeenActive, Replied
<1>6. Turns'
  <2>1. activeCh # Unset => HasBeenActive(activeCh)' /\ call'[activeCh].pc # "over"
    <3>1. activeCh \in Calls \/ activeCh = Unset
      BY <1>1 DEF SessionTypeOK
    <3>. QED
      BY <1>1, <1>2, <1>5, <3>1 DEF Turns
  <2>2. ASSUME NEW q \in Calls
        PROVE  /\ call'[q].pc \in InCall \cup {"ending"} => reqMu = q
               /\ call'[q].outcome = "none" <=> call'[q].pc \notin {"ending", "over"}
               /\ call'[q].pc # "new" => \A d \in Calls : d < q => call'[d].outcome # "none"
               /\ HasBeenActive(q)' /\ call'[q].pc \notin {"ending", "over"} =>
                        activeCh = q \/ feed'[q].closed
               /\ ~HasBeenActive(q)' => feed'[q].held = <<>> /\ ~call'[q].again
               /\ call'[q].pc \notin Replied =>
                        events[q] = 0 /\ call'[q].got = 0 /\ ~call'[q].foreign
    BY <1>1, <1>2, <1>3, <1>4, <1>5, NumbersOfCalls DEF Turns, InCall, Replied
  <2>3. ASSUME NEW q \in Calls, NEW s \in Sockets, listener[s].ch = q PROVE HasBeenActive(q)'
    BY <1>1, <1>5, <2>3 DEF Turns
  <2>. QED
    BY <2>1, <2>2, <2>3 DEF Turns
<1>7. Connections'
  <2>1. ASSUME NEW q \in Calls
        PROVE  /\ call'[q].pc \in {"activate", "send", "read"} =>
                      call'[q].conn # Unset /\ conn' \in {Unset, call'[q].conn}
               /\ (~HasBeenActive(q)' /\ call'[q].pc # "activate") \/ call'[q].outcome = "refused" =>
                      call'[q].conn = Unset
               /\ call'[q].pc = "dial" \/ (call'[q].pc = "ensure" /\ call'[q].again) => conn' = Unset
    BY <1>1, <1>2, <1>4, <1>5 DEF Connections
  <2>2. ASSUME NEW s \in Sockets
        PROVE  /\ socket'[s].state = "open" => conn' = s
               /\ socket'[s].state = "none" =>
                    /\ socket'[s].owes = <<>> /\ listener[s].pc = "none" /\ conn' # s
                    /\ \A q \in Calls : call'[q].conn # s
                    /\ \A q \in Calls : \A i \in DOMAIN feed'[q].held : feed'[q].held[i].socket # s
    <3>1. socket'[s].state = "none" =>
              \A q \in Calls : \A i \in DOMAIN feed'[q].held : feed'[q].held[i].socket # s
      BY <1>1 DEF Connections, Fades
    <3>2. socket'[s].state = "none" => \A q \in Calls : call'[q].conn # s
      BY <1>1, <1>2 DEF Connections, Fades
    <3>. QED
      BY <1>1, <3>1, <3>2, NumbersOfCalls DEF Connections, Fades
  <2>. QED
    BY <2>1, <2>2 DEF Connections
<1>8. Answers'
  <2>1. \A q \in Calls : call'[q].conn = call[q].conn /\ (call[q].pc \in Replied => call'[q].pc \in Replied)
    BY <1>2 DEF Replied
  <2>2. ASSUME NEW s \in Sockets, NEW i \in DOMAIN socket'[s].owes
        PROVE  /\ call'[socket'[s].owes[i]].conn = s /\ call'[socket'[s].owes[i]].pc \in Replied
               /\ \A j \in DOMAIN socket'[s].owes : i # j => socket'[s].owes[i] # socket'[s].owes[j]
    <3>1. socket'[s].owes = socket[s].owes /\ socket[s].owes[i] \in Calls
      BY <1>1, SessionFacts DEF Fades
    <3>. QED
      BY <1>1, <2>1, <3>1 DEF Answers
  <2>3. ASSUME NEW s \in Sockets, listener[s].pc = "pass"
        PROVE  LET w == listener[s].word IN
              /\ w # NoWord /\ w.socket = s /\ w.of # Unset /\ w.kind # "down"
              /\ call'[w.of].conn = s /\ call'[w.of].pc \in Replied
              /\ w.kind # "event" => \A i \in DOMAIN socket'[s].owes : socket'[s].owes[i] # w.of
    <3>1. socket'[s].owes = socket[s].owes
      BY DEF Fades
    <3>2. listener[s].word \in Words /\ listener[s].word.of \in Calls
      BY <1>1, <2>3, SessionFacts DEF Answers, Words
    <3>. QED
      BY <1>1, <2>1, <2>3, <3>1, <3>2 DEF Answers
  <2>. QED
    BY <1>1, <2>2, <2>3 DEF Answers
<1>9. OwnWords'
  BY <1>2, <1>4 DEF OwnWords
<1>. QED
  BY <1>6, <1>7, <1>8, <1>9

\* A call ends without an answer.
LEMMA CallEndsStep ==
    ASSUME SessionInv, SessionTypeOK', Fades, NEW c \in Calls, call[c].pc \in InCall,
           NEW how \in {"failed", "left"}, call' = Ended(c, how),
           \A q \in Calls \ {c} : feed'[q] = feed[q],
           \A i \in DOMAIN feed'[c].held : \E j \in DOMAIN feed[c].held :
                feed'[c].held[i] = feed[c].held[j],
           UNCHANGED <<reqMu, activeCh, listener, events>>
    PROVE  SessionInv'
<1>1. SessionTypeOK /\ Turns /\ DoneIsOver
  BY DEF SessionInv
<1>2. /\ call'[c].pc = "ending" /\ call'[c].outcome = how /\ call'[c].conn = call[c].conn
      /\ call'[c].again = call[c].again
      /\ \A q \in Calls \ {c} : call'[q] = call[q]
  BY <1>1, SessionTypes DEF Ended, CallRecord
<1>3. Turns' /\ Connections' /\ Answers' /\ OwnWords'
  BY <1>2, CallOver
<1>4. \A q \in Calls \ {c} : call[q].outcome # "none" <=> q < c
  BY <1>1, OneInProgress DEF Turns, InCall
<1>5. DoneIsOver'
  <2>. SUFFICES ASSUME NEW q \in Calls, Undisturbed(q)', call'[q].outcome = "done"
                PROVE  /\ ~call'[q].foreign /\ call'[q].got = events[q] + 1
                       /\ \A s \in Sockets : ~CarriesFor(s, q)'
                            /\ \A j \in DOMAIN socket'[s].owes : socket'[s].owes[j] # q
    BY DEF DoneIsOver
  <2>1. q # c /\ call'[q] = call[q] /\ q < c
    BY <1>2, <1>4
  <2>2. Undisturbed(q)
    BY <1>2, <2>1, NumbersOfCalls DEF Undisturbed, CutOff
  <2>3. \A s \in Sockets : CarriesFor(s, q)' <=> CarriesFor(s, q)
    BY DEF CarriesFor
  <2>. QED
    BY <1>1, <2>1, <2>2, <2>3 DEF DoneIsOver, Fades
<1>. QED
  BY <1>3, <1>5 DEF SessionInv

-----------------------------------------------------------------------------
(* UpstreamSession: the turns of the calls.                                *)

\* A step of a call that neither sends nor reads.
LEMMA TurnStep ==
    ASSUME SessionInv, SessionTypeOK', Turns', NEW c \in Calls,
           NEW p \in {"wants", "ensure", "dial", "over"}, Moves(c, p),
           call[c].pc \notin {"activate", "send", "read"},
           HasBeenActive(c)' <=> HasBeenActive(c),
           call[c].pc \in Replied => p \in Replied,
           p \in {"dial", "ensure"} => conn = Unset \/ (p = "ensure" /\ ~call[c].again),
           UNCHANGED <<conn, feed, socket, listener, events>>
    PROVE  SessionInv'
<1>1. SessionTypeOK /\ Connections /\ Answers /\ OwnWords /\ DoneIsOver
  BY DEF SessionInv
<1>2. /\ call'[c].pc = p /\ call'[c].outcome = call[c].outcome /\ call'[c].conn = call[c].conn
      /\ call'[c].again = call[c].again /\ call'[c].got = call[c].got
      /\ call'[c].foreign = call[c].foreign
      /\ \A q \in Calls \ {c} : call'[q] = call[q]
  BY <1>1, SessionTypes, CallMoves
<1>3. \A q \in Calls : (HasBeenActive(q)' <=> HasBeenActive(q)) /\ call'[q].conn = call[q].conn
            /\ (call[q].pc \in Replied => call'[q].pc \in Replied)
            /\ call'[q].outcome = call[q].outcome
  BY <1>2 DEF HasBeenActive
<1>4. \A q \in Calls : Undisturbed(q)' <=> Undisturbed(q)
  BY <1>2, <1>3 DEF Undisturbed, CutOff
<1>5. \A q \in Calls, s \in Sockets : CarriesFor(s, q)' <=> CarriesFor(s, q)
  BY DEF CarriesFor
<1>6. Connections'
  <2>1. ASSUME NEW q \in Calls
        PROVE  /\ call'[q].pc \in {"activate", "send", "read"} =>
                      call'[q].conn # Unset /\ conn \in {Unset, call'[q].conn}
               /\ (~HasBeenActive(q)' /\ call'[q].pc # "activate") \/ call'[q].outcome = "refused" =>
                      call'[q].conn = Unset
               /\ call'[q].pc = "dial" \/ (call'[q].pc = "ensure" /\ call'[q].again) => conn = Unset
    BY <1>1, <1>2, <1>3 DEF Connections
  <2>2. ASSUME NEW s \in Sockets, socket[s].state = "none"
        PROVE  /\ \A q \in Calls : call'[q].conn # s
               /\ \A q \in Calls : \A i \in DOMAIN feed[q].held : feed[q].held[i].socket # s
    BY <1>1, <1>3, <2>2 DEF Connections
  <2>. QED
    BY <1>1, <2>1, <2>2 DEF Connections
<1>7. Answers'
  <2>1. ASSUME NEW s \in Sockets, NEW i \in DOMAIN socket[s].owes
        PROVE  /\ call'[socket[s].owes[i]].conn = s /\ call'[socket[s].owes[i]].pc \in Replied
    BY <1>1, <1>3, SessionFacts DEF Answers
  <2>2. ASSUME NEW s \in Sockets, listener[s].pc = "pass"
        PROVE  call'[listener[s].word.of].conn = s /\ call'[listener[s].word.of].pc \in Replied
    <3>1. listener[s].word.of \in Calls
      BY <1>1, <2>2, SessionFacts DEF Answers, Words
    <3>. QED
      BY <1>1, <1>3, <2>2, <3>1 DEF Answers
  <2>. QED
    BY <1>1, <2>1, <2>2 DEF Answers
<1>8. OwnWords'
  <2>1. ASSUME NEW q \in Calls, call'[q].pc \in {"send", "read"}
        PROVE  call'[q] = call[q] /\ (AllHeard(q)' <=> AllHeard(q))
    <3>1. call'[q] = call[q]
      BY <1>2, <2>1
    <3>2. call[q].conn \in Sockets
      BY <1>1, <2>1, <3>1, SessionFacts DEF Connections
    <3>. QED
      BY <3>1, <3>2, StillHeard
  <2>. QED
    BY <1>1, <1>4, <2>1 DEF OwnWords
<1>9. DoneIsOver'
  BY <1>1, <1>2, <1>4, <1>5 DEF DoneIsOver
<1>. QED
  BY <1>6, <1>7, <1>8, <1>9 DEF SessionInv

LEMMA ComeStep == ASSUME SessionInv, NEW c \in Calls, Come(c) PROVE SessionInv'
<1>0. SessionTypeOK /\ Turns
  BY DEF SessionInv
<1>1. /\ call[c].pc = "new" /\ \A d \in Calls : d < c => call[d].outcome # "none"
      /\ Moves(c, "wants")
      /\ UNCHANGED <<kept, reqMu, conn, activeCh, feed, socket, listener, events, departed, panicked>>
  BY DEF Come
<1>2. /\ call'[c].pc = "wants" /\ call'[c].outcome = call[c].outcome
      /\ call'[c].again = call[c].again /\ call'[c].got = call[c].got
      /\ call'[c].foreign = call[c].foreign
      /\ \A q \in Calls \ {c} : call'[q] = call[q]
      /\ call' \in [Calls -> CallRecord]
  BY <1>0, <1>1, SessionTypes, CallMoves
<1>3. SessionTypeOK'
  BY <1>0, <1>1, <1>2 DEF SessionTypeOK, CallRecord
<1>4. \A q \in Calls : HasBeenActive(q)' <=> HasBeenActive(q)
  BY <1>1, <1>2 DEF HasBeenActive, Replied
<1>5. Turns'
  <2>1. activeCh # Unset => HasBeenActive(activeCh)' /\ call'[activeCh].pc # "over"
    <3>1. activeCh \in Calls \/ activeCh = Unset
      BY <1>0 DEF SessionTypeOK
    <3>. QED
      BY <1>0, <1>1, <1>2, <1>4, <3>1 DEF Turns
  <2>2. ASSUME NEW q \in Calls, call'[q].pc # "new" PROVE \A d \in Calls : d < q => call'[d].outcome # "none"
    BY <1>0, <1>1, <1>2, <2>2 DEF Turns
  <2>. QED
    BY <1>0, <1>1, <1>2, <1>4, <2>1, <2>2 DEF Turns, InCall, Replied
<1>. QED
  BY <1>1, <1>3, <1>4, <1>5, TurnStep DEF Replied

LEMMA TakeTurnStep == ASSUME SessionInv, NEW c \in Calls, TakeTurn(c) PROVE SessionInv'
<1>0. SessionTypeOK /\ Turns
  BY DEF SessionInv
<1>1. /\ call[c].pc = "wants" /\ reqMu = Unset /\ reqMu' = c
      /\ Moves(c, "ensure")
      /\ UNCHANGED <<kept, conn, activeCh, feed, socket, listener, events, departed, panicked>>
  BY DEF TakeTurn
<1>2. /\ call'[c].pc = "ensure" /\ call'[c].outcome = call[c].outcome
      /\ call'[c].again = call[c].again /\ call'[c].got = call[c].got
      /\ call'[c].foreign = call[c].foreign
      /\ \A q \in Calls \ {c} : call'[q] = call[q]
      /\ call' \in [Calls -> CallRecord]
  BY <1>0, <1>1, SessionTypes, CallMoves
<1>3. SessionTypeOK'
  BY <1>0, <1>1, <1>2 DEF SessionTypeOK, CallRecord
<1>4. ~HasBeenActive(c) /\ ~call[c].again /\ \A q \in Calls : HasBeenActive(q)' <=> HasBeenActive(q)
  <2>1. ~HasBeenActive(c)
    BY <1>1 DEF HasBeenActive, Replied
  <2>2. ~call[c].again
    BY <1>0, <2>1 DEF Turns
  <2>. QED
    BY <1>1, <1>2, <2>1, <2>2 DEF HasBeenActive, Replied
<1>5. Turns'
  <2>1. activeCh # Unset => HasBeenActive(activeCh)' /\ call'[activeCh].pc # "over"
    <3>1. activeCh \in Calls \/ activeCh = Unset
      BY <1>0 DEF SessionTypeOK
    <3>. QED
      BY <1>0, <1>1, <1>2, <1>4, <3>1 DEF Turns
  <2>2. ASSUME NEW q \in Calls, call'[q].pc \in InCall \cup {"ending"} PROVE reqMu' = q
    BY <1>0, <1>1, <1>2, <2>2, NumbersOfCalls DEF Turns
  <2>3. ASSUME NEW q \in Calls, call'[q].pc # "new" PROVE \A d \in Calls : d < q => call'[d].outcome # "none"
    BY <1>0, <1>1, <1>2, <2>3 DEF Turns
  <2>. QED
    BY <1>0, <1>1, <1>2, <1>4, <2>1, <2>2, <2>3 DEF Turns, InCall, Replied
<1>. QED
  BY <1>1, <1>3, <1>4, <1>5, TurnStep DEF Replied

LEMMA GiveTurnStep == ASSUME SessionInv, NEW c \in Calls, GiveTurn(c) PROVE SessionInv'
<1>0. SessionTypeOK /\ Turns
  BY DEF SessionInv
<1>1. /\ call[c].pc = "ending" /\ Moves(c, "over")
      /\ reqMu' = Unset /\ activeCh' = IF activeCh = c THEN Unset ELSE activeCh
      /\ UNCHANGED <<kept, conn, feed, socket, listener, events, departed, panicked>>
  BY DEF GiveTurn
<1>2. /\ call'[c].pc = "over" /\ call'[c].outcome = call[c].outcome
      /\ call'[c].again = call[c].again /\ call'[c].got = call[c].got
      /\ call'[c].foreign = call[c].foreign
      /\ \A q \in Calls \ {c} : call'[q] = call[q]
      /\ call' \in [Calls -> CallRecord]
  BY <1>0, <1>1, SessionTypes, CallMoves
<1>3. SessionTypeOK'
  BY <1>0, <1>1, <1>2 DEF SessionTypeOK, CallRecord
<1>4. \A q \in Calls : HasBeenActive(q)' <=> HasBeenActive(q)
  BY <1>1, <1>2 DEF HasBeenActive, Replied
<1>5. Turns'
  <2>1. activeCh' # Unset => HasBeenActive(activeCh)' /\ call'[activeCh'].pc # "over"
    <3>1. activeCh \in Calls \/ activeCh = Unset
      BY <1>0 DEF SessionTypeOK
    <3>. QED
      BY <1>0, <1>1, <1>2, <3>1 DEF Turns, HasBeenActive, Replied
  <2>2. \A q \in Calls \ {c} : call[q].pc \notin InCall \cup {"ending"}
    BY <1>0, <1>1 DEF Turns
  <2>3. ASSUME NEW q \in Calls, call'[q].pc # "new" PROVE \A d \in Calls : d < q => call'[d].outcome # "none"
    BY <1>0, <1>1, <1>2, <2>3 DEF Turns
  <2>4. ASSUME NEW q \in Calls, HasBeenActive(q)', call'[q].pc \notin {"ending", "over"}
        PROVE  activeCh' = q \/ feed'[q].closed
    BY <1>2, <2>2, <2>4 DEF HasBeenActive, Replied, InCall
  <2>. QED
    <3>1. ASSUME NEW q \in Calls
          PROVE  /\ call'[q].pc \in InCall \cup {"ending"} => reqMu' = q
                 /\ call'[q].outcome = "none" <=> call'[q].pc \notin {"ending", "over"}
                 /\ ~HasBeenActive(q)' => feed'[q].held = <<>> /\ ~call'[q].again
                 /\ call'[q].pc \notin Replied =>
                        events'[q] = 0 /\ call'[q].got = 0 /\ ~call'[q].foreign
                 /\ \A s \in Sockets : listener'[s].ch = q => HasBeenActive(q)'
      BY <1>0, <1>1, <1>2, <1>4, <2>2 DEF Turns, InCall, Replied
    <3>. QED
      BY <2>1, <2>3, <2>4, <3>1 DEF Turns
<1>. QED
  BY <1>1, <1>3, <1>4, <1>5, TurnStep DEF Replied

-----------------------------------------------------------------------------
(* UpstreamSession: the steps of a call.                                   *)

LEMMA InCallFacts ==
    ASSUME SessionInv, NEW c \in Calls, call[c].pc \in InCall
    PROVE  /\ call[c].outcome = "none" /\ call[c].pc # "new" /\ reqMu = c /\ activeCh \in {Unset, c}
           /\ \A q \in Calls \ {c} :
                /\ call[q].pc \in {"new", "ending", "over"}
                /\ call[q].pc = "new" <=> c < q
                /\ call[q].outcome # "none" <=> q < c
<1>1. SessionTypeOK /\ Turns
  BY DEF SessionInv
<1>2. call[c].outcome = "none" /\ call[c].pc # "new" /\ reqMu = c
  BY <1>1 DEF Turns, InCall
<1>3. \A q \in Calls \ {c} :
        /\ call[q].pc \in {"new", "ending", "over"}
        /\ call[q].pc = "new" <=> c < q
        /\ call[q].outcome # "none" <=> q < c
  BY <1>2, OneInProgress
<1>4. ASSUME activeCh # Unset, activeCh # c PROVE FALSE
  <2>1. activeCh \in Calls \ {c} /\ HasBeenActive(activeCh) /\ call[activeCh].pc # "over"
    BY <1>1, <1>4, SessionTypes DEF Turns
  <2>2. call[activeCh].pc = "ending"
    BY <1>3, <2>1 DEF HasBeenActive, Replied
  <2>. QED
    BY <1>1, <1>2, <2>1, <2>2 DEF Turns
<1>. QED
  BY <1>2, <1>3, <1>4

\* A call goes on, and is as active as before or becomes so.
LEMMA TurnsKept ==
    ASSUME SessionInv, NEW c \in Calls, call[c].pc \in InCall, call'[c].pc \in InCall,
           call'[c].outcome = "none", \A q \in Calls \ {c} : call'[q] = call[q],
           \A q \in Calls \ {c} : feed'[q] = feed[q] /\ events'[q] = events[q],
           \A s \in Sockets : listener'[s].ch \in {listener[s].ch, activeCh, Unset},
           reqMu' = reqMu, activeCh' \in {Unset, c}, activeCh' = c => HasBeenActive(c)',
           HasBeenActive(c) => HasBeenActive(c)',
           HasBeenActive(c)' => activeCh' = c \/ feed'[c].closed,
           ~HasBeenActive(c)' => feed'[c].held = <<>> /\ ~call'[c].again,
           call'[c].pc # "read" => events'[c] = 0 /\ call'[c].got = 0 /\ ~call'[c].foreign
    PROVE  Turns'
<1>1. SessionTypeOK /\ Turns
  BY DEF SessionInv
<1>2. /\ call[c].outcome = "none" /\ call[c].pc # "new" /\ reqMu = c
      /\ \A q \in Calls \ {c} :
            /\ call[q].pc \in {"new", "ending", "over"}
            /\ call[q].pc = "new" <=> c < q
            /\ call[q].outcome # "none" <=> q < c
  BY InCallFacts
<1>3. \A q \in Calls \ {c} : HasBeenActive(q)' <=> HasBeenActive(q)
  BY DEF HasBeenActive
<1>4. activeCh' # Unset => HasBeenActive(activeCh)' /\ call'[activeCh'].pc # "over"
  BY <1>1 DEF InCall
<1>5. ASSUME NEW q \in Calls
      PROVE  /\ call'[q].pc \in InCall \cup {"ending"} => reqMu' = q
             /\ call'[q].outcome = "none" <=> call'[q].pc \notin {"ending", "over"}
             /\ HasBeenActive(q)' /\ call'[q].pc \notin {"ending", "over"} =>
                    activeCh' = q \/ feed'[q].closed
             /\ ~HasBeenActive(q)' => feed'[q].held = <<>> /\ ~call'[q].again
             /\ call'[q].pc \notin Replied => events'[q] = 0 /\ call'[q].got = 0 /\ ~call'[q].foreign
  <2>1. CASE q = c
    BY <1>2, <2>1 DEF InCall, Replied
  <2>2. CASE q # c
    <3>1. q \in Calls \ {c} /\ call'[q] = call[q] /\ call[q].pc \in {"new", "ending", "over"}
          /\ feed'[q] = feed[q] /\ events'[q] = events[q] /\ (HasBeenActive(q)' <=> HasBeenActive(q))
      BY <1>2, <1>3, <2>2
    <3>2. call[q].pc = "new" => ~HasBeenActive(q)
      BY DEF HasBeenActive, Replied
    <3>. QED
      BY <1>1, <1>2, <3>1, <3>2 DEF Turns, InCall
  <2>. QED
    BY <2>1, <2>2
<1>6. ASSUME NEW q \in Calls, call'[q].pc # "new", NEW d \in Calls, d < q
      PROVE  call'[d].outcome # "none"
  <2>1. q # c => q < c
    BY <1>2, <1>6, NumbersOfCalls
  <2>2. d # c /\ d < c
    BY <1>6, <2>1, NumbersOfCalls
  <2>. QED
    BY <1>2, <2>2
<1>7. ASSUME NEW q \in Calls, NEW s \in Sockets, listener'[s].ch = q PROVE HasBeenActive(q)'
  <2>1. HasBeenActive(q)
    BY <1>1, <1>7, NumbersOfCalls DEF Turns
  <2>. QED
    BY <1>3, <2>1
<1>. QED
  BY <1>4, <1>5, <1>6, <1>7 DEF Turns

LEMMA DoneKept ==
    ASSUME SessionInv, NEW c \in Calls, call[c].pc \in InCall,
           call'[c].outcome # "done", \A q \in Calls \ {c} : call'[q] = call[q],
           \A q \in Calls \ {c} : events'[q] = events[q],
           \A s \in Sockets, q \in Calls \ {c} : CarriesFor(s, q)' => CarriesFor(s, q),
           \A s \in Sockets, q \in Calls \ {c} :
                (\E i \in DOMAIN socket'[s].owes : socket'[s].owes[i] = q) =>
                 \E i \in DOMAIN socket[s].owes : socket[s].owes[i] = q
    PROVE  DoneIsOver'
<1>1. DoneIsOver
  BY DEF SessionInv
<1>. SUFFICES ASSUME NEW q \in Calls, Undisturbed(q)', call'[q].outcome = "done"
              PROVE  /\ ~call'[q].foreign /\ call'[q].got = events'[q] + 1
                     /\ \A s \in Sockets : ~CarriesFor(s, q)'
                          /\ \A j \in DOMAIN socket'[s].owes : socket'[s].owes[j] # q
  BY DEF DoneIsOver
<1>2. q # c /\ call'[q] = call[q] /\ q < c
  BY InCallFacts
<1>3. Undisturbed(q)
  BY <1>2, NumbersOfCalls DEF Undisturbed, CutOff
<1>. QED
  BY <1>1, <1>2, <1>3 DEF DoneIsOver

\* What upstream owes is as before, for calls that are as before.
LEMMA AnswersKept ==
    ASSUME SessionInv,
           \A q \in Calls : call[q].pc \in Replied =>
                call'[q].pc \in Replied /\ call'[q].conn = call[q].conn,
           \A s \in Sockets : socket'[s].owes = socket[s].owes,
           \A s \in Sockets : listener'[s].pc \in {"pass", "fail"} => listener'[s] = listener[s]
    PROVE  Answers'
<1>1. SessionTypeOK /\ Answers
  BY DEF SessionInv
<1>2. ASSUME NEW s \in Sockets, NEW i \in DOMAIN socket'[s].owes
      PROVE  /\ call'[socket'[s].owes[i]].conn = s /\ call'[socket'[s].owes[i]].pc \in Replied
             /\ \A j \in DOMAIN socket'[s].owes : i # j => socket'[s].owes[i] # socket'[s].owes[j]
  <2>1. socket'[s].owes = socket[s].owes /\ socket[s].owes[i] \in Calls
    BY <1>1, SessionFacts
  <2>. QED
    BY <1>1, <2>1 DEF Answers
<1>3. ASSUME NEW s \in Sockets, listener'[s].pc = "pass"
      PROVE  LET w == listener'[s].word IN
             /\ w # NoWord /\ w.socket = s /\ w.of # Unset /\ w.kind # "down"
             /\ call'[w.of].conn = s /\ call'[w.of].pc \in Replied
             /\ w.kind # "event" => \A i \in DOMAIN socket'[s].owes : socket'[s].owes[i] # w.of
  <2>1. socket'[s].owes = socket[s].owes /\ listener'[s] = listener[s]
    BY <1>3
  <2>2. listener[s].word \in Words /\ listener[s].word.of \in Calls
    BY <1>1, <1>3, <2>1, SessionFacts DEF Answers, Words
  <2>. QED
    BY <1>1, <1>3, <2>1, <2>2 DEF Answers
<1>4. ASSUME NEW s \in Sockets, listener'[s].pc \in {"pass", "fail"} PROVE listener'[s].ch # Unset
  BY <1>1, <1>4 DEF Answers
<1>. QED
  BY <1>2, <1>3, <1>4 DEF Answers

LEMMA EnsureStep == ASSUME SessionInv, NEW c \in Calls, Ensure(c) PROVE SessionInv'
<1>0. SessionTypeOK /\ Turns /\ Connections /\ Answers /\ OwnWords
  BY DEF SessionInv
<1>1. /\ call[c].pc = "ensure" /\ call[c].pc \in InCall
      /\ UNCHANGED <<kept, reqMu, conn, activeCh, feed, socket, listener, events, departed, panicked>>
      /\ IF conn = Unset THEN Moves(c, "dial")
         ELSE call' = [call EXCEPT ![c].pc = Connected(c), ![c].conn = conn]
  BY DEF Ensure, InCall, Moves
<1>2. call[c].outcome = "none" /\ activeCh \in {Unset, c}
      /\ \A q \in Calls \ {c} : call[q].pc \in {"new", "ending", "over"}
  BY <1>1, InCallFacts
<1>3. /\ HasBeenActive(c) => call[c].again /\ (activeCh = c \/ feed[c].closed)
      /\ ~HasBeenActive(c) => ~call[c].again /\ feed[c].held = <<>>
      /\ activeCh = c => HasBeenActive(c)
      /\ events[c] = 0 /\ call[c].got = 0 /\ ~call[c].foreign
  <2>1. HasBeenActive(c) <=> call[c].again
    BY <1>1, <1>0, SessionTypes DEF HasBeenActive, Replied, CallRecord
  <2>2. activeCh = c => HasBeenActive(c)
    BY <1>0, NumbersOfCalls DEF Turns
  <2>3. HasBeenActive(c) => activeCh = c \/ feed[c].closed
    BY <1>0, <1>1 DEF Turns
  <2>4. events[c] = 0 /\ call[c].got = 0 /\ ~call[c].foreign /\ (~HasBeenActive(c) => feed[c].held = <<>>)
    BY <1>0, <1>1 DEF Turns, Replied
  <2>. QED
    BY <2>1, <2>2, <2>3, <2>4
<1>4. CASE conn = Unset
  <2>1. /\ call'[c].pc = "dial" /\ call'[c].outcome = call[c].outcome
        /\ call'[c].again = call[c].again /\ call'[c].got = call[c].got
        /\ call'[c].foreign = call[c].foreign /\ \A q \in Calls \ {c} : call'[q] = call[q]
        /\ call' \in [Calls -> CallRecord]
    BY <1>0, <1>1, <1>4, SessionTypes, CallMoves
  <2>2. SessionTypeOK'
    BY <1>0, <1>1, <2>1 DEF SessionTypeOK, CallRecord
  <2>3. HasBeenActive(c)' <=> HasBeenActive(c)
    BY <1>1, <2>1 DEF HasBeenActive, Replied
  <2>4. Turns'
    BY <1>1, <1>2, <1>3, <2>1, <2>3, TurnsKept DEF InCall
  <2>. QED
    BY <1>1, <1>4, <2>2, <2>3, <2>4, TurnStep DEF Replied
<1>5. CASE conn # Unset
  <2>0. ~call[c].again /\ conn \in Sockets /\ Connected(c) = "activate"
    BY <1>0, <1>1, <1>5 DEF Connections, SessionTypeOK, Connected
  <2>1. /\ call'[c].pc = "activate" /\ call'[c].outcome = call[c].outcome
        /\ call'[c].conn = conn /\ call[c].conn = Unset
        /\ call'[c].again = call[c].again /\ call'[c].got = call[c].got
        /\ call'[c].foreign = call[c].foreign /\ \A q \in Calls \ {c} : call'[q] = call[q]
        /\ call' \in [Calls -> CallRecord]
    <3>1. call[c].conn = Unset
      BY <1>0, <1>1, <1>3, <2>0 DEF Connections
    <3>. QED
      BY <1>0, <1>1, <1>5, <2>0, <3>1, SessionTypes DEF CallRecord
  <2>2. SessionTypeOK'
    BY <1>0, <1>1, <2>1 DEF SessionTypeOK, CallRecord
  <2>3. ~HasBeenActive(c)' /\ ~HasBeenActive(c)
    BY <1>1, <2>0, <2>1 DEF HasBeenActive, Replied
  <2>4. Turns'
    BY <1>1, <1>2, <1>3, <2>0, <2>1, <2>3, TurnsKept DEF InCall
  <2>9. UNCHANGED <<conn, socket, listener, feed>>
    BY <1>1
  <2>5. Connections'
    <3>1. ASSUME NEW q \in Calls
          PROVE  /\ call'[q].pc \in {"activate", "send", "read"} =>
                        call'[q].conn # Unset /\ conn \in {Unset, call'[q].conn}
                 /\ (~HasBeenActive(q)' /\ call'[q].pc # "activate") \/ call'[q].outcome = "refused" =>
                        call'[q].conn = Unset
                 /\ call'[q].pc = "dial" \/ (call'[q].pc = "ensure" /\ call'[q].again) => conn = Unset
      BY <1>0, <1>2, <1>5, <2>1, <2>3 DEF Connections, HasBeenActive
    <3>2. ASSUME NEW s \in Sockets, socket[s].state = "none" PROVE \A q \in Calls : call'[q].conn # s
      BY <1>0, <2>1, <3>2 DEF Connections
    <3>3. ASSUME NEW s \in Sockets
          PROVE  /\ socket[s].state = "open" => conn = s
                 /\ socket[s].state = "none" =>
                      /\ socket[s].owes = <<>> /\ listener[s].pc = "none" /\ conn # s
                      /\ \A q \in Calls : \A i \in DOMAIN feed[q].held : feed[q].held[i].socket # s
      BY <1>0 DEF Connections
    <3>. QED
      BY <2>9, <3>1, <3>2, <3>3 DEF Connections
  <2>6. Answers'
    <3>1. \A q \in Calls : call[q].pc \in Replied => call'[q] = call[q]
      BY <1>1, <2>1 DEF Replied
    <3>2. ASSUME NEW s \in Sockets, NEW i \in DOMAIN socket[s].owes
          PROVE  /\ call'[socket[s].owes[i]].conn = s /\ call'[socket[s].owes[i]].pc \in Replied
      BY <1>0, <3>1, SessionFacts DEF Answers
    <3>3. ASSUME NEW s \in Sockets, listener[s].pc = "pass"
          PROVE  call'[listener[s].word.of].conn = s /\ call'[listener[s].word.of].pc \in Replied
      <4>1. listener[s].word.of \in Calls
        BY <1>0, <3>3, SessionFacts DEF Answers, Words
      <4>. QED
        BY <1>0, <3>1, <3>3, <4>1 DEF Answers
    <3>4. ASSUME NEW s \in Sockets
          PROVE  /\ \A i, j \in DOMAIN socket[s].owes : i # j => socket[s].owes[i] # socket[s].owes[j]
                 /\ listener[s].pc \in {"pass", "fail"} => listener[s].ch # Unset
                 /\ listener[s].pc = "pass" =>
                      LET w == listener[s].word IN
                      /\ w # NoWord /\ w.socket = s /\ w.of # Unset /\ w.kind # "down"
                      /\ w.kind # "event" => \A i \in DOMAIN socket[s].owes : socket[s].owes[i] # w.of
      BY <1>0 DEF Answers
    <3>. QED
      BY <2>9, <3>2, <3>3, <3>4 DEF Answers
  <2>7. OwnWords'
    BY <1>2, <2>1 DEF OwnWords
  <2>8. DoneIsOver'
    BY <1>1, <1>2, <2>1, DoneKept DEF CarriesFor
  <2>. QED
    BY <2>2, <2>4, <2>5, <2>6, <2>7, <2>8 DEF SessionInv
<1>. QED
  BY <1>4, <1>5

LEMMA DialStep == ASSUME SessionInv, NEW c \in Calls, Dial(c) PROVE SessionInv'
<1>0. SessionTypeOK /\ Turns /\ Connections /\ Answers /\ OwnWords
  BY DEF SessionInv
<1>1. PICK s \in Sockets :
        /\ socket[s].state = "none"
        /\ socket' = [socket EXCEPT ![s].state = "open"] /\ conn' = s
        /\ listener' = [listener EXCEPT ![s].pc = "listen"]
        /\ call' = [call EXCEPT ![c].pc = Connected(c), ![c].conn = s, ![c].late = FALSE]
  BY DEF Dial
<1>2. /\ call[c].pc = "dial" /\ call[c].pc \in InCall /\ conn = Unset
      /\ UNCHANGED <<kept, reqMu, activeCh, feed, events, departed, panicked>>
  BY <1>0 DEF Dial, InCall, Connections
<1>3. call[c].outcome = "none" /\ activeCh \in {Unset, c}
      /\ \A q \in Calls \ {c} : call[q].pc \in {"new", "ending", "over"}
  BY <1>2, InCallFacts
<1>4. /\ HasBeenActive(c) <=> call[c].again
      /\ HasBeenActive(c) => activeCh = c \/ feed[c].closed
      /\ ~HasBeenActive(c) => feed[c].held = <<>>
      /\ activeCh = c => HasBeenActive(c)
      /\ events[c] = 0 /\ call[c].got = 0 /\ ~call[c].foreign
  <2>1. HasBeenActive(c) <=> call[c].again
    BY <1>2, <1>0, SessionTypes DEF HasBeenActive, Replied, CallRecord
  <2>2. activeCh = c => HasBeenActive(c)
    BY <1>0, NumbersOfCalls DEF Turns
  <2>3. HasBeenActive(c) => activeCh = c \/ feed[c].closed
    BY <1>0, <1>2 DEF Turns
  <2>4. events[c] = 0 /\ call[c].got = 0 /\ ~call[c].foreign /\ (~HasBeenActive(c) => feed[c].held = <<>>)
    BY <1>0, <1>2 DEF Turns, Replied
  <2>. QED
    BY <2>1, <2>2, <2>3, <2>4
<1>5. /\ call'[c].pc = (IF call[c].again THEN "send" ELSE "activate")
      /\ call'[c].conn = s /\ call'[c].outcome = call[c].outcome
      /\ call'[c].again = call[c].again /\ call'[c].got = call[c].got
      /\ call'[c].foreign = call[c].foreign /\ \A q \in Calls \ {c} : call'[q] = call[q]
      /\ call' \in [Calls -> CallRecord]
  <2>1. call \in [Calls -> CallRecord] /\ Connected(c) \in {"send", "activate"}
        /\ Connected(c) = IF call[c].again THEN "send" ELSE "activate"
    BY <1>0, SessionTypes DEF Connected
  <2>. DEFINE r == [call[c] EXCEPT !.pc = Connected(c), !.conn = s, !.late = FALSE]
  <2>2. call' = [call EXCEPT ![c] = r]
    BY <1>1
  <2>3. /\ r \in CallRecord /\ r.pc = Connected(c) /\ r.conn = s /\ r.outcome = call[c].outcome
        /\ r.again = call[c].again /\ r.got = call[c].got /\ r.foreign = call[c].foreign
    BY <2>1 DEF CallRecord
  <2>. HIDE DEF r
  <2>. QED
    BY <2>1, <2>2, <2>3, CallChanges
<1>6. /\ socket'[s].state = "open" /\ socket'[s].owes = socket[s].owes
      /\ \A t \in Sockets \ {s} : socket'[t] = socket[t]
      /\ socket' \in [Sockets -> SocketRecord]
  BY <1>0, <1>1, SessionTypes DEF SocketRecord
<1>7. /\ listener'[s].pc = "listen" /\ listener'[s].ch = listener[s].ch
      /\ \A t \in Sockets \ {s} : listener'[t] = listener[t]
      /\ listener' \in [Sockets -> ListenerRecord]
  BY <1>0, <1>1, SessionTypes DEF ListenerRecord
<1>8. SessionTypeOK'
  <2>1. /\ kept' \in BOOLEAN /\ reqMu' \in {Unset} \cup Calls /\ conn' \in {Unset} \cup Sockets
        /\ activeCh' \in {Unset} \cup Calls
        /\ feed' \in [Calls -> [held: Seq(Words), closed: BOOLEAN]]
        /\ events' \in [Calls -> 0..MaxEvents] /\ departed' \in BOOLEAN /\ panicked' \in BOOLEAN
    BY <1>0, <1>1, <1>2, SessionTypes
  <2>. QED
    BY <1>5, <1>6, <1>7, <2>1 DEF SessionTypeOK, CallRecord, SocketRecord, ListenerRecord
<1>9. (HasBeenActive(c)' <=> call[c].again) /\ \A q \in Calls \ {c} : HasBeenActive(q)' <=> HasBeenActive(q)
  BY <1>0, <1>5, SessionTypes DEF HasBeenActive, Replied, CallRecord
<1>10. Turns'
  BY <1>2, <1>3, <1>4, <1>5, <1>7, <1>9, TurnsKept DEF InCall
<1>11. Connections'
  <2>1. ASSUME NEW q \in Calls
        PROVE  /\ call'[q].pc \in {"activate", "send", "read"} =>
                      call'[q].conn # Unset /\ conn' \in {Unset, call'[q].conn}
               /\ (~HasBeenActive(q)' /\ call'[q].pc # "activate") \/ call'[q].outcome = "refused" =>
                      call'[q].conn = Unset
               /\ call'[q].pc = "dial" \/ (call'[q].pc = "ensure" /\ call'[q].again) => conn' = Unset
    <3>1. CASE q = c
      BY <1>1, <1>3, <1>5, <1>9, <3>1, NumbersOfCalls
    <3>2. CASE q # c
      BY <1>0, <1>3, <1>5, <1>9, <3>2 DEF Connections
    <3>. QED
      BY <3>1, <3>2
  <2>2. ASSUME NEW t \in Sockets
        PROVE  /\ socket'[t].state = "open" => conn' = t
               /\ socket'[t].state = "none" =>
                    /\ socket'[t].owes = <<>> /\ listener'[t].pc = "none" /\ conn' # t
                    /\ \A q \in Calls : call'[q].conn # t
                    /\ \A q \in Calls : \A i \in DOMAIN feed[q].held : feed[q].held[i].socket # t
    <3>1. CASE t = s
      BY <1>1, <1>6, <3>1
    <3>2. CASE t # s
      <4>1. socket'[t] = socket[t] /\ listener'[t] = listener[t] /\ socket[t].state # "open"
        BY <1>0, <1>2, <1>6, <1>7, <3>2, NumbersOfCalls DEF Connections
      <4>2. socket[t].state = "none" => \A q \in Calls : call'[q].conn # t
        BY <1>0, <1>5, <3>2 DEF Connections
      <4>3. socket[t].state = "none" =>
              /\ socket[t].owes = <<>> /\ listener[t].pc = "none"
              /\ \A q \in Calls : \A i \in DOMAIN feed[q].held : feed[q].held[i].socket # t
        BY <1>0 DEF Connections
      <4>4. conn' # t
        BY <1>1, <3>2
      <4>. QED
        BY <4>1, <4>2, <4>3, <4>4
    <3>. QED
      BY <3>1, <3>2
  <2>3. feed' = feed
    BY <1>2
  <2>. QED
    BY <2>1, <2>2, <2>3 DEF Connections
<1>12. Answers'
  <2>1. \A q \in Calls : call[q].pc \in Replied => call'[q] = call[q]
    BY <1>2, <1>5 DEF Replied
  <2>2. \A t \in Sockets : socket'[t].owes = socket[t].owes
    BY <1>6
  <2>3. \A t \in Sockets : listener'[t].pc \in {"pass", "fail"} => listener'[t] = listener[t]
    BY <1>7
  <2>. QED
    BY <2>1, <2>2, <2>3, AnswersKept
<1>13. OwnWords'
  <2>. SUFFICES ASSUME NEW q \in Calls, call'[q].pc \in {"send", "read"} PROVE AllHeard(q)'
    BY DEF OwnWords
  <2>1. q = c
    BY <1>3, <1>5
  <2>2. \A i \in DOMAIN feed[c].held : feed[c].held[i].socket # s
    BY <1>0, <1>1 DEF Connections
  <2>3. listener'[call'[c].conn].pc # "pass"
    BY <1>5, <1>7
  <2>4. EventsHeld(c)' = 0
    <3>1. {i \in DOMAIN feed[c].held : feed[c].held[i].socket = s /\ feed[c].held[i].kind = "event"} = {}
      BY <2>2
    <3>. QED
      BY <1>2, <1>5, <3>1, FS_EmptySet DEF EventsHeld
  <2>5. \A i \in DOMAIN feed'[c].held : feed'[c].held[i].socket # call'[c].conn
    BY <1>2, <1>5, <2>2
  <2>6. events'[c] = 0 /\ call'[c].got = 0 /\ ~call'[c].foreign
    BY <1>2, <1>4, <1>5
  <2>7. AllHeard(c)'
    BY <2>3, <2>4, <2>5, <2>6 DEF AllHeard, FromConn, EventInHand, CarriesFor
  <2>. QED
    BY <2>1, <2>7
<1>14. DoneIsOver'
  <2>1. \A t \in Sockets, q \in Calls : CarriesFor(t, q)' => CarriesFor(t, q)
    BY <1>7 DEF CarriesFor
  <2>2. \A t \in Sockets : socket'[t].owes = socket[t].owes
    BY <1>6
  <2>. QED
    BY <1>2, <1>3, <1>5, <2>1, <2>2, DoneKept
<1>. QED
  BY <1>8, <1>10, <1>11, <1>12, <1>13, <1>14 DEF SessionInv

\* The calls that end and have read nothing new.
LEMMA EndingSteps ==
    ASSUME SessionInv, NEW c \in Calls,
           DialFails(c) \/ ReadClosed(c) \/ GiveUpCall(c) \/ (SendFails(c) /\ call[c].again)
    PROVE  SessionInv'
<1>0. SessionTypeOK /\ Connections
  BY DEF SessionInv
<1>1. /\ call[c].pc \in InCall /\ \E how \in {"failed", "left"} : call' = Ended(c, how)
      /\ UNCHANGED <<kept, reqMu, activeCh, feed, listener, events, departed, panicked>>
  BY DEF DialFails, ReadClosed, GiveUpCall, SendFails, InCall
<1>2. Fades
  <2>1. CASE UNCHANGED <<conn, socket>>
    BY <2>1, StaysFades
  <2>2. CASE SendFails(c)
    <3>1. call[c].conn \in Sockets /\ Invalidated(call[c].conn)
      BY <1>0, <2>2, SessionFacts DEF Connections, SendFails
    <3>. QED
      BY <3>1, InvalidatedFades
  <2>. QED
    BY <2>1, <2>2 DEF DialFails, ReadClosed, GiveUpCall
<1>3. PICK how \in {"failed", "left"} : call' = Ended(c, how)
  BY <1>1
<1>4. call' \in [Calls -> CallRecord]
  <2>1. call \in [Calls -> CallRecord]
    BY <1>0, SessionTypes
  <2>. QED
    BY <1>3, <2>1, CallComesToEnd DEF Outcomes
<1>5. SessionTypeOK'
  <2>1. conn' \in {Unset} \cup Sockets
    BY <1>0, <1>2 DEF Fades, SessionTypeOK
  <2>. QED
    BY <1>0, <1>1, <1>2, <1>4, <2>1 DEF SessionTypeOK, Fades, SocketRecord, CallRecord
<1>6. feed' = feed
  BY <1>1
<1>. QED
  BY <1>1, <1>2, <1>3, <1>5, <1>6, CallEndsStep

LEMMA RefusedStep == ASSUME SessionInv, NEW c \in Calls, Refused(c) PROVE SessionInv'
<1>0. SessionTypeOK /\ Turns /\ Connections /\ Answers /\ OwnWords
  BY DEF SessionInv
<1>1. /\ call[c].pc = "dial" /\ call[c].pc \in InCall /\ ~call[c].again
      /\ call' = [call EXCEPT ![c].pc = "over", ![c].outcome = "refused"]
      /\ UNCHANGED <<kept, reqMu, conn, activeCh, feed, socket, listener, events, departed, panicked>>
  BY DEF Refused, InCall
<1>2. /\ call[c].outcome = "none" /\ activeCh \in {Unset, c}
      /\ \A q \in Calls \ {c} :
            /\ call[q].pc \in {"new", "ending", "over"}
            /\ call[q].pc = "new" <=> c < q
            /\ call[q].outcome # "none" <=> q < c
  BY <1>1, InCallFacts
<1>3. ~HasBeenActive(c) /\ activeCh = Unset /\ call[c].conn = Unset
  <2>1. ~HasBeenActive(c)
    BY <1>1 DEF HasBeenActive, Replied
  <2>2. activeCh # c
    BY <1>0, <2>1, NumbersOfCalls DEF Turns
  <2>. QED
    BY <1>0, <1>1, <1>2, <2>1, <2>2 DEF Connections
<1>4. /\ call'[c].pc = "over" /\ call'[c].outcome = "refused" /\ call'[c].conn = Unset
      /\ \A q \in Calls \ {c} : call'[q] = call[q]
      /\ call' \in [Calls -> CallRecord]
  <2>. DEFINE rec == [call[c] EXCEPT !.pc = "over", !.outcome = "refused"]
  <2>1. call \in [Calls -> CallRecord] /\ call[c] \in CallRecord
    BY <1>0, SessionTypes
  <2>2. call' = [call EXCEPT ![c] = rec]
    BY <1>1, <2>1
  <2>3. rec \in CallRecord /\ rec.pc = "over" /\ rec.outcome = "refused" /\ rec.conn = Unset
    BY <1>3, <2>1 DEF CallRecord, Outcomes
  <2>. HIDE DEF rec
  <2>. QED
    BY <2>1, <2>2, <2>3
<1>5. SessionTypeOK'
  BY <1>0, <1>1, <1>4 DEF SessionTypeOK, CallRecord
<1>6. HasBeenActive(c)' /\ \A q \in Calls \ {c} : HasBeenActive(q)' <=> HasBeenActive(q)
  BY <1>4 DEF HasBeenActive, Replied
<1>7. Turns'
  <2>1. ASSUME NEW q \in Calls
        PROVE  /\ call'[q].pc \in InCall \cup {"ending"} => reqMu = q
               /\ call'[q].outcome = "none" <=> call'[q].pc \notin {"ending", "over"}
               /\ HasBeenActive(q)' /\ call'[q].pc \notin {"ending", "over"} =>
                      activeCh = q \/ feed[q].closed
               /\ ~HasBeenActive(q)' => feed[q].held = <<>> /\ ~call'[q].again
               /\ call'[q].pc \notin Replied => events[q] = 0 /\ call'[q].got = 0 /\ ~call'[q].foreign
    <3>1. CASE q = c
      BY <1>4, <1>6, <3>1 DEF InCall, Replied
    <3>2. CASE q # c
      <4>1. call'[q] = call[q] /\ (HasBeenActive(q)' <=> HasBeenActive(q))
        BY <1>4, <1>6, <3>2
      <4>. QED
        BY <1>0, <4>1 DEF Turns
    <3>. QED
      BY <3>1, <3>2
  <2>2. ASSUME NEW q \in Calls, call'[q].pc # "new", NEW d \in Calls, d < q
        PROVE  call'[d].outcome # "none"
    <3>1. q # c => q < c
      BY <1>2, <1>4, <2>2, NumbersOfCalls
    <3>2. d # c /\ d < c
      BY <2>2, <3>1, NumbersOfCalls
    <3>. QED
      BY <1>2, <1>4, <3>2
  <2>3. ASSUME NEW q \in Calls, NEW s \in Sockets, listener[s].ch = q PROVE HasBeenActive(q)'
    BY <1>0, <1>6, <2>3 DEF Turns
  <2>4. activeCh' = Unset /\ UNCHANGED <<reqMu, feed, listener, events>>
    BY <1>1, <1>3
  <2>5. ASSUME NEW q \in Calls, call'[q].pc # "new"
        PROVE  \A d \in Calls : d < q => call'[d].outcome # "none"
    BY <2>2, <2>5
  <2>6. ASSUME NEW q \in Calls PROVE \A s \in Sockets : listener[s].ch = q => HasBeenActive(q)'
    BY <2>3
  <2>7. ASSUME NEW q \in Calls
        PROVE  /\ call'[q].pc \in InCall \cup {"ending"} => reqMu' = q
               /\ call'[q].outcome = "none" <=> call'[q].pc \notin {"ending", "over"}
               /\ HasBeenActive(q)' /\ call'[q].pc \notin {"ending", "over"} =>
                      activeCh' = q \/ feed'[q].closed
               /\ ~HasBeenActive(q)' => feed'[q].held = <<>> /\ ~call'[q].again
               /\ call'[q].pc \notin Replied => events'[q] = 0 /\ call'[q].got = 0 /\ ~call'[q].foreign
               /\ \A s \in Sockets : listener'[s].ch = q => HasBeenActive(q)'
    BY <1>3, <2>1, <2>4, <2>6
  <2>. QED
    BY <2>4, <2>5, <2>7 DEF Turns
<1>8. Connections'
  <2>1. ASSUME NEW q \in Calls
        PROVE  /\ call'[q].pc \in {"activate", "send", "read"} =>
                      call'[q].conn # Unset /\ conn \in {Unset, call'[q].conn}
               /\ (~HasBeenActive(q)' /\ call'[q].pc # "activate") \/ call'[q].outcome = "refused" =>
                      call'[q].conn = Unset
               /\ call'[q].pc = "dial" \/ (call'[q].pc = "ensure" /\ call'[q].again) => conn = Unset
    <3>1. CASE q = c
      BY <1>4, <3>1
    <3>2. CASE q # c
      BY <1>0, <1>4, <1>6, <3>2 DEF Connections
    <3>. QED
      BY <3>1, <3>2
  <2>2. ASSUME NEW s \in Sockets
        PROVE  /\ socket[s].state = "open" => conn = s
               /\ socket[s].state = "none" =>
                    /\ socket[s].owes = <<>> /\ listener[s].pc = "none" /\ conn # s
                    /\ \A q \in Calls : call'[q].conn # s
                    /\ \A q \in Calls : \A i \in DOMAIN feed[q].held : feed[q].held[i].socket # s
    <3>1. \A q \in Calls : call'[q].conn = call[q].conn
      BY <1>3, <1>4
    <3>. QED
      BY <1>0, <3>1 DEF Connections
  <2>3. UNCHANGED <<conn, socket, listener, feed>>
    BY <1>1
  <2>. QED
    BY <2>1, <2>2, <2>3 DEF Connections
<1>9. Answers'
  <2>1. \A q \in Calls : call[q].pc \in Replied => call'[q] = call[q]
    BY <1>1, <1>4 DEF Replied
  <2>2. UNCHANGED <<socket, listener>>
    BY <1>1
  <2>. QED
    BY <2>1, <2>2, AnswersKept
<1>10. OwnWords'
  BY <1>2, <1>4 DEF OwnWords
<1>11. DoneIsOver'
  <2>1. UNCHANGED <<socket, listener, events>>
    BY <1>1
  <2>. QED
    BY <1>1, <1>4, <2>1, DoneKept DEF CarriesFor
<1>. QED
  BY <1>5, <1>7, <1>8, <1>9, <1>10, <1>11 DEF SessionInv

LEMMA ActivateStep == ASSUME SessionInv, NEW c \in Calls, Activate(c) PROVE SessionInv'
<1>0. SessionTypeOK /\ Turns /\ Connections /\ Answers /\ OwnWords
  BY DEF SessionInv
<1>1. /\ call[c].pc = "activate" /\ call[c].pc \in InCall /\ activeCh' = c
      /\ call' = [call EXCEPT ![c].pc = "send", ![c].late = SawEnd(call[c].conn)]
      /\ SawEnd(call[c].conn) \in BOOLEAN
      /\ UNCHANGED <<kept, reqMu, conn, feed, socket, listener, events, departed, panicked>>
  BY DEF Activate, InCall, SawEnd
<1>2. /\ call[c].outcome = "none" /\ activeCh \in {Unset, c}
      /\ \A q \in Calls \ {c} : call[q].pc \in {"new", "ending", "over"}
  BY <1>1, InCallFacts
<1>3. /\ ~HasBeenActive(c) /\ feed[c].held = <<>>
      /\ events[c] = 0 /\ call[c].got = 0 /\ ~call[c].foreign
      /\ call[c].conn \in Sockets /\ conn \in {Unset, call[c].conn}
  <2>1. ~HasBeenActive(c)
    BY <1>1 DEF HasBeenActive, Replied
  <2>2. feed[c].held = <<>> /\ events[c] = 0 /\ call[c].got = 0 /\ ~call[c].foreign
    BY <1>0, <1>1, <2>1 DEF Turns, Replied
  <2>3. call[c].conn \in Sockets /\ conn \in {Unset, call[c].conn}
    BY <1>0, <1>1, SessionFacts DEF Connections
  <2>. QED
    BY <2>1, <2>2, <2>3
<1>4. /\ call'[c].pc = "send" /\ call'[c].outcome = call[c].outcome
      /\ call'[c].conn = call[c].conn
      /\ call'[c].again = call[c].again /\ call'[c].got = call[c].got
      /\ call'[c].foreign = call[c].foreign /\ \A q \in Calls \ {c} : call'[q] = call[q]
      /\ call' \in [Calls -> CallRecord]
  <2>. DEFINE r == [call[c] EXCEPT !.pc = "send", !.late = SawEnd(call[c].conn)]
  <2>1. call' = [call EXCEPT ![c] = r] /\ call \in [Calls -> CallRecord]
    BY <1>0, <1>1, SessionTypes
  <2>2. /\ r \in CallRecord /\ r.pc = "send" /\ r.conn = call[c].conn /\ r.outcome = call[c].outcome
        /\ r.again = call[c].again /\ r.got = call[c].got /\ r.foreign = call[c].foreign
    BY <1>1, <2>1 DEF CallRecord
  <2>. HIDE DEF r
  <2>. QED
    BY <2>1, <2>2, CallChanges
<1>5. SessionTypeOK'
  BY <1>0, <1>1, <1>4 DEF SessionTypeOK, CallRecord
<1>6. HasBeenActive(c)' /\ \A q \in Calls \ {c} : HasBeenActive(q)' <=> HasBeenActive(q)
  BY <1>4 DEF HasBeenActive
<1>7. Turns'
  BY <1>1, <1>2, <1>3, <1>4, <1>6, TurnsKept DEF InCall
<1>8. UNCHANGED <<conn, socket, listener, feed, events>>
  BY <1>1
<1>9. Connections'
  <2>1. ASSUME NEW q \in Calls
        PROVE  /\ call'[q].pc \in {"activate", "send", "read"} =>
                      call'[q].conn # Unset /\ conn \in {Unset, call'[q].conn}
               /\ (~HasBeenActive(q)' /\ call'[q].pc # "activate") \/ call'[q].outcome = "refused" =>
                      call'[q].conn = Unset
               /\ call'[q].pc = "dial" \/ (call'[q].pc = "ensure" /\ call'[q].again) => conn = Unset
    <3>1. CASE q = c
      BY <1>2, <1>3, <1>4, <1>6, <3>1, NumbersOfCalls
    <3>2. CASE q # c
      BY <1>0, <1>4, <1>6, <3>2 DEF Connections
    <3>. QED
      BY <3>1, <3>2
  <2>2. ASSUME NEW s \in Sockets
        PROVE  /\ socket[s].state = "open" => conn = s
               /\ socket[s].state = "none" =>
                    /\ socket[s].owes = <<>> /\ listener[s].pc = "none" /\ conn # s
                    /\ \A q \in Calls : call'[q].conn # s
                    /\ \A q \in Calls : \A i \in DOMAIN feed[q].held : feed[q].held[i].socket # s
    <3>1. \A q \in Calls : call'[q].conn = call[q].conn
      BY <1>4
    <3>. QED
      BY <1>0, <3>1 DEF Connections
  <2>. QED
    BY <1>8, <2>1, <2>2 DEF Connections
<1>10. Answers'
  <2>1. \A q \in Calls : call[q].pc \in Replied => call'[q] = call[q]
    BY <1>1, <1>4 DEF Replied
  <2>. QED
    BY <1>8, <2>1, AnswersKept
<1>11. OwnWords'
  <2>. SUFFICES ASSUME NEW q \in Calls, call'[q].pc \in {"send", "read"}, Undisturbed(q)'
                PROVE  AllHeard(q)'
    BY DEF OwnWords
  <2>1. q = c
    BY <1>2, <1>4
  <2>2. Undisturbed(c)
    BY <1>4, <2>1 DEF Undisturbed, CutOff
  <2>3. listener'[call'[c].conn].pc # "pass"
    <3>1. \A d \in Calls : ~CarriesFor(call[c].conn, d)
      BY <1>1, <1>3, <2>2, AloneOnConnection
    <3>2. listener[call[c].conn].pc = "pass" =>
              listener[call[c].conn].word.of \in Calls
      BY <1>0, <1>3, SessionFacts DEF Answers, Words
    <3>. QED
      BY <1>3, <1>4, <1>8, <3>1, <3>2 DEF CarriesFor
  <2>4. EventsHeld(c)' = 0
    <3>1. {i \in DOMAIN feed'[c].held : feed'[c].held[i].socket = call'[c].conn
                                        /\ feed'[c].held[i].kind = "event"} = {}
      BY <1>3, <1>8
    <3>. QED
      BY <3>1, FS_EmptySet DEF EventsHeld
  <2>5. DOMAIN feed'[c].held = {}
    BY <1>3, <1>8
  <2>6. events'[c] = 0 /\ call'[c].got = 0 /\ ~call'[c].foreign
    BY <1>3, <1>4, <1>8
  <2>7. AllHeard(c)'
    BY <2>3, <2>4, <2>5, <2>6 DEF AllHeard, EventInHand, CarriesFor
  <2>. QED
    BY <2>1, <2>7
<1>12. DoneIsOver'
  BY <1>1, <1>2, <1>4, <1>8, DoneKept DEF CarriesFor
<1>. QED
  BY <1>5, <1>7, <1>9, <1>10, <1>11, <1>12 DEF SessionInv
-----------------------------------------------------------------------------
(* UpstreamSession: the body is sent.                                      *)

LEMMA SendBodyStep == ASSUME SessionInv, NEW c \in Calls, SendBody(c) PROVE SessionInv'
<1>0. SessionTypeOK /\ Turns /\ Connections /\ Answers /\ OwnWords
  BY DEF SessionInv
<1>1. /\ call[c].pc = "send" /\ call[c].pc \in InCall
      /\ Moves(c, "read")
      /\ socket' = IF socket[call[c].conn].state = "open"
                   THEN [socket EXCEPT ![call[c].conn].owes = Append(@, c)] ELSE socket
      /\ UNCHANGED <<kept, reqMu, conn, activeCh, feed, listener, events, departed, panicked>>
  BY DEF SendBody, InCall
<1>2. /\ call[c].outcome = "none" /\ activeCh \in {Unset, c}
      /\ \A q \in Calls \ {c} : call[q].pc \in {"new", "ending", "over"}
  BY <1>1, InCallFacts
<1>3. PICK s \in Sockets : s = call[c].conn
  BY <1>0, <1>1, SessionFacts DEF Connections
<1>4. /\ call'[c].pc = "read" /\ call'[c].outcome = call[c].outcome
      /\ call'[c].conn = call[c].conn
      /\ call'[c].again = call[c].again /\ call'[c].got = call[c].got
      /\ call'[c].foreign = call[c].foreign /\ \A q \in Calls \ {c} : call'[q] = call[q]
      /\ call' \in [Calls -> CallRecord]
  BY <1>0, <1>1, SessionTypes, CallMoves
<1>5. /\ socket' \in [Sockets -> SocketRecord]
      /\ \A t \in Sockets : socket'[t].state = socket[t].state
      /\ \A t \in Sockets \ {s} : socket'[t].owes = socket[t].owes
      /\ \/ socket'[s].owes = socket[s].owes
         \/ socket[s].state = "open" /\ socket'[s].owes = Append(socket[s].owes, c)
  <2>1. socket \in [Sockets -> SocketRecord] /\ Append(socket[s].owes, c) \in Seq(Calls)
    BY <1>0, SessionTypes, SessionFacts, AppendFacts
  <2>. QED
    BY <1>1, <1>3, <2>1 DEF SocketRecord
<1>6. SessionTypeOK'
  BY <1>0, <1>1, <1>4, <1>5 DEF SessionTypeOK, CallRecord, SocketRecord
<1>7. HasBeenActive(c)' /\ HasBeenActive(c) /\ \A q \in Calls \ {c} : HasBeenActive(q)' <=> HasBeenActive(q)
  BY <1>1, <1>4 DEF HasBeenActive, Replied
<1>8. Turns'
  BY <1>0, <1>1, <1>2, <1>4, <1>7, TurnsKept DEF InCall, Turns
<1>9. UNCHANGED <<conn, listener, feed, events>>
  BY <1>1
<1>10. Connections'
  <2>1. ASSUME NEW q \in Calls
        PROVE  /\ call'[q].pc \in {"activate", "send", "read"} =>
                      call'[q].conn # Unset /\ conn \in {Unset, call'[q].conn}
               /\ (~HasBeenActive(q)' /\ call'[q].pc # "activate") \/ call'[q].outcome = "refused" =>
                      call'[q].conn = Unset
               /\ call'[q].pc = "dial" \/ (call'[q].pc = "ensure" /\ call'[q].again) => conn = Unset
    <3>1. CASE q = c
      BY <1>0, <1>1, <1>2, <1>4, <1>7, <3>1, NumbersOfCalls DEF Connections
    <3>2. CASE q # c
      BY <1>0, <1>4, <1>7, <3>2 DEF Connections
    <3>. QED
      BY <3>1, <3>2
  <2>2. ASSUME NEW t \in Sockets
        PROVE  /\ socket'[t].state = "open" => conn = t
               /\ socket'[t].state = "none" =>
                    /\ socket'[t].owes = <<>> /\ listener[t].pc = "none" /\ conn # t
                    /\ \A q \in Calls : call'[q].conn # t
                    /\ \A q \in Calls : \A i \in DOMAIN feed[q].held : feed[q].held[i].socket # t
    <3>1. \A q \in Calls : call'[q].conn = call[q].conn
      BY <1>4
    <3>2. socket[t].state = "none" => socket'[t].owes = socket[t].owes
      BY <1>5
    <3>. QED
      BY <1>0, <1>5, <3>1, <3>2 DEF Connections
  <2>. QED
    BY <1>9, <2>1, <2>2 DEF Connections
<1>11. Answers'
  <2>1. \A q \in Calls : call[q].pc \in Replied => q # c /\ call'[q] = call[q]
    BY <1>1, <1>4 DEF Replied
  <2>2. ASSUME NEW t \in Sockets, NEW i \in DOMAIN socket[t].owes
        PROVE  /\ socket[t].owes[i] \in Calls \ {c}
               /\ call'[socket[t].owes[i]].conn = t /\ call'[socket[t].owes[i]].pc \in Replied
               /\ \A j \in DOMAIN socket[t].owes : i # j => socket[t].owes[i] # socket[t].owes[j]
    BY <1>0, <2>1, SessionFacts DEF Answers
  <2>3. ASSUME NEW t \in Sockets, NEW i \in DOMAIN socket'[t].owes
        PROVE  /\ call'[socket'[t].owes[i]].conn = t /\ call'[socket'[t].owes[i]].pc \in Replied
               /\ \A j \in DOMAIN socket'[t].owes : i # j => socket'[t].owes[i] # socket'[t].owes[j]
    <3>1. CASE socket'[t].owes = socket[t].owes
      BY <2>2, <3>1
    <3>2. CASE t = s /\ socket'[s].owes = Append(socket[s].owes, c)
      <4>1. socket[s].owes \in Seq(Calls)
        BY <1>0, SessionFacts
      <4>2. PICK n : DOMAIN socket'[s].owes = DOMAIN socket[s].owes \cup {n} /\ socket'[s].owes[n] = c
                     /\ \A j \in DOMAIN socket[s].owes : socket'[s].owes[j] = socket[s].owes[j]
        BY <3>2, <4>1, AppendFacts
      <4>3. call'[c].conn = t /\ call'[c].pc \in Replied
        BY <1>3, <1>4, <3>2 DEF Replied
      <4>4. \A j \in DOMAIN socket[s].owes :
                /\ socket[s].owes[j] # c
                /\ call'[socket[s].owes[j]].conn = s /\ call'[socket[s].owes[j]].pc \in Replied
                /\ \A k \in DOMAIN socket[s].owes : j # k => socket[s].owes[j] # socket[s].owes[k]
        BY <2>2
      <4>. QED
        BY <3>2, <4>2, <4>3, <4>4
    <3>. QED
      BY <1>5, <3>1, <3>2
  <2>4. ASSUME NEW t \in Sockets, listener[t].pc = "pass"
        PROVE  LET w == listener[t].word IN
               /\ w # NoWord /\ w.socket = t /\ w.of # Unset /\ w.kind # "down"
               /\ call'[w.of].conn = t /\ call'[w.of].pc \in Replied
               /\ w.kind # "event" => \A i \in DOMAIN socket'[t].owes : socket'[t].owes[i] # w.of
    <3>1. listener[t].word \in Words /\ listener[t].word.of \in Calls
      BY <1>0, <2>4, SessionFacts DEF Answers, Words
    <3>2. listener[t].word.of # c
      BY <1>0, <2>1, <2>4, <3>1 DEF Answers
    <3>3. \A i \in DOMAIN socket'[t].owes :
              socket'[t].owes[i] = c \/ \E j \in DOMAIN socket[t].owes : socket'[t].owes[i] = socket[t].owes[j]
      <4>1. socket[t].owes \in Seq(Calls)
        BY <1>0, SessionFacts
      <4>. QED
        BY <1>5, <4>1, AppendFacts
    <3>. QED
      BY <1>0, <2>1, <2>4, <3>1, <3>2, <3>3 DEF Answers
  <2>5. ASSUME NEW t \in Sockets, listener[t].pc \in {"pass", "fail"} PROVE listener[t].ch # Unset
    BY <1>0, <2>5 DEF Answers
  <2>. QED
    BY <1>9, <2>3, <2>4, <2>5 DEF Answers
<1>12. OwnWords'
  <2>. SUFFICES ASSUME NEW q \in Calls, call'[q].pc \in {"send", "read"}, Undisturbed(q)'
                PROVE  AllHeard(q)'
    BY DEF OwnWords
  <2>1. q = c
    BY <1>2, <1>4
  <2>2. Undisturbed(c) /\ AllHeard(c)
    BY <1>0, <1>1, <1>4, <2>1 DEF Undisturbed, CutOff, OwnWords
  <2>3. EventsHeld(c)' = EventsHeld(c) /\ (EventInHand(c)' <=> EventInHand(c))
    BY <1>4, <1>9 DEF EventsHeld, EventInHand
  <2>4. \A i \in DOMAIN feed'[c].held : ~FromConn(c, feed[c].held[i]) /\ ~FromConn(c, feed[c].held[i])'
    BY <1>1, <1>4, <1>9, <2>2 DEF AllHeard, FromConn
  <2>5. ~call'[c].foreign /\ call'[c].got = call[c].got /\ events' = events /\ feed' = feed
    BY <1>4, <1>9, <2>2 DEF AllHeard
  <2>6. ~feed[c].closed => events[c] = call[c].got + EventsHeld(c) + IF EventInHand(c) THEN 1 ELSE 0
    BY <2>2 DEF AllHeard
  <2>8. CarriesFor(call[c].conn, c)' => listener'[call'[c].conn].ch = c
    BY <1>4, <1>9, <2>2 DEF AllHeard, CarriesFor
  <2>9. call'[c].conn = call[c].conn /\ listener' = listener
    BY <1>4, <1>9
  <2>7. AllHeard(c)'
    BY <2>3, <2>4, <2>5, <2>6, <2>8, <2>9 DEF AllHeard, CarriesFor
  <2>. QED
    BY <2>1, <2>7
<1>13. DoneIsOver'
  <2>1. \A t \in Sockets, q \in Calls \ {c} : CarriesFor(t, q)' => CarriesFor(t, q)
    BY <1>9 DEF CarriesFor
  <2>2. ASSUME NEW t \in Sockets, NEW q \in Calls \ {c}, NEW i \in DOMAIN socket'[t].owes,
               socket'[t].owes[i] = q
        PROVE  \E j \in DOMAIN socket[t].owes : socket[t].owes[j] = q
    <3>1. socket[t].owes \in Seq(Calls)
      BY <1>0, SessionFacts
    <3>2. CASE socket'[t].owes = socket[t].owes
      BY <2>2, <3>2
    <3>3. CASE t = s /\ socket'[t].owes = Append(socket[t].owes, c)
      BY <2>2, <3>1, <3>3, AppendFacts
    <3>. QED
      BY <1>5, <3>2, <3>3
  <2>3. \A t \in Sockets, q \in Calls \ {c} :
            (\E i \in DOMAIN socket'[t].owes : socket'[t].owes[i] = q) =>
             \E j \in DOMAIN socket[t].owes : socket[t].owes[j] = q
    BY <2>2
  <2>4. /\ call'[c].outcome # "done" /\ \A q \in Calls \ {c} : call'[q] = call[q]
        /\ \A q \in Calls \ {c} : events'[q] = events[q]
    BY <1>2, <1>4, <1>9
  <2>. QED
    BY <1>1, <2>1, <2>3, <2>4, DoneKept, ZenonT(30)
<1>. QED
  BY <1>6, <1>8, <1>10, <1>11, <1>12, <1>13 DEF SessionInv
LEMMA SendAgainStep ==
    ASSUME SessionInv, NEW c \in Calls, SendFails(c), ~call[c].again PROVE SessionInv'
<1>0. SessionTypeOK /\ Turns /\ Connections /\ Answers /\ OwnWords
  BY DEF SessionInv
<1>1. /\ call[c].pc = "send" /\ call[c].pc \in InCall /\ Invalidated(call[c].conn)
      /\ call' = [call EXCEPT ![c].pc = "ensure", ![c].again = TRUE]
      /\ UNCHANGED <<kept, reqMu, activeCh, feed, listener, events, departed, panicked>>
  BY DEF SendFails, InCall
<1>2. /\ call[c].outcome = "none" /\ activeCh \in {Unset, c}
      /\ \A q \in Calls \ {c} : call[q].pc \in {"new", "ending", "over"}
  BY <1>1, InCallFacts
<1>3. call[c].conn \in Sockets /\ conn \in {Unset, call[c].conn}
  BY <1>0, <1>1, SessionFacts DEF Connections
<1>4. Fades
  BY <1>1, <1>3, InvalidatedFades
<1>5. conn' = Unset
  BY <1>1, <1>3 DEF Invalidated
<1>6. /\ call'[c].pc = "ensure" /\ call'[c].again /\ call'[c].outcome = call[c].outcome
      /\ call'[c].conn = call[c].conn /\ call'[c].got = call[c].got
      /\ call'[c].foreign = call[c].foreign /\ \A q \in Calls \ {c} : call'[q] = call[q]
      /\ call' \in [Calls -> CallRecord]
  BY <1>0, <1>1, SessionTypes DEF CallRecord
<1>7. SessionTypeOK'
  BY <1>0, <1>1, <1>4, <1>5, <1>6 DEF SessionTypeOK, CallRecord, SocketRecord, Fades
<1>8. HasBeenActive(c)' /\ HasBeenActive(c) /\ \A q \in Calls \ {c} : HasBeenActive(q)' <=> HasBeenActive(q)
  BY <1>1, <1>6 DEF HasBeenActive
<1>9. Turns'
  <2>1. call[c].pc # "read" /\ call[c].pc \notin Replied
    BY <1>1 DEF Replied
  <2>2. events[c] = 0 /\ call[c].got = 0 /\ ~call[c].foreign /\ (activeCh = c \/ feed[c].closed)
    BY <1>0, <1>1, <1>8, <2>1 DEF Turns
  <2>. QED
    BY <1>1, <1>2, <1>6, <1>8, <2>2, TurnsKept DEF InCall
<1>10. UNCHANGED <<listener, feed, events>>
  BY <1>1
<1>11. Connections'
  <2>1. ASSUME NEW q \in Calls
        PROVE  /\ call'[q].pc \in {"activate", "send", "read"} =>
                      call'[q].conn # Unset /\ conn' \in {Unset, call'[q].conn}
               /\ (~HasBeenActive(q)' /\ call'[q].pc # "activate") \/ call'[q].outcome = "refused" =>
                      call'[q].conn = Unset
               /\ call'[q].pc = "dial" \/ (call'[q].pc = "ensure" /\ call'[q].again) => conn' = Unset
    <3>1. CASE q = c
      BY <1>2, <1>5, <1>6, <1>8, <3>1
    <3>2. CASE q # c
      BY <1>0, <1>5, <1>6, <1>8, <3>2 DEF Connections
    <3>. QED
      BY <3>1, <3>2
  <2>2. ASSUME NEW s \in Sockets
        PROVE  /\ socket'[s].state = "open" => conn' = s
               /\ socket'[s].state = "none" =>
                    /\ socket'[s].owes = <<>> /\ listener[s].pc = "none" /\ conn' # s
                    /\ \A q \in Calls : call'[q].conn # s
                    /\ \A q \in Calls : \A i \in DOMAIN feed[q].held : feed[q].held[i].socket # s
    <3>1. \A q \in Calls : call'[q].conn = call[q].conn
      BY <1>6
    <3>. QED
      BY <1>0, <1>4, <1>5, <3>1, NumbersOfCalls DEF Connections, Fades
  <2>. QED
    BY <1>10, <2>1, <2>2 DEF Connections
<1>12. Answers'
  <2>1. \A q \in Calls : call[q].pc \in Replied => call'[q] = call[q]
    BY <1>1, <1>6 DEF Replied
  <2>. QED
    BY <1>4, <1>10, <2>1, AnswersKept DEF Fades
<1>13. OwnWords'
  BY <1>2, <1>6 DEF OwnWords
<1>14. DoneIsOver'
  <2>1. /\ call'[c].outcome # "done" /\ \A q \in Calls \ {c} : call'[q] = call[q]
        /\ \A q \in Calls \ {c} : events'[q] = events[q]
    BY <1>2, <1>6, <1>10
  <2>2. \A s \in Sockets, q \in Calls \ {c} : CarriesFor(s, q)' => CarriesFor(s, q)
    BY <1>10 DEF CarriesFor
  <2>3. \A s \in Sockets, q \in Calls \ {c} :
            (\E i \in DOMAIN socket'[s].owes : socket'[s].owes[i] = q) =>
             \E i \in DOMAIN socket[s].owes : socket[s].owes[i] = q
    BY <1>4 DEF Fades
  <2>. QED
    BY <1>1, <2>1, <2>2, <2>3, DoneKept, ZenonT(30)
<1>. QED
  BY <1>7, <1>9, <1>11, <1>12, <1>13, <1>14 DEF SessionInv
-----------------------------------------------------------------------------
(* UpstreamSession: the events a channel holds.                            *)

EventsOf(h, s) == {i \in DOMAIN h : h[i].socket = s /\ h[i].kind = "event"}
IsEventOf(w, s) == w.socket = s /\ w.kind = "event"

LEMMA EventsAreFew ==
    ASSUME NEW h \in Seq(Words), NEW s
    PROVE  IsFiniteSet(EventsOf(h, s)) /\ Cardinality(EventsOf(h, s)) \in Nat
<1>1. EventsOf(h, s) \in SUBSET (1..Len(h)) /\ Len(h) \in Nat
  BY DEF EventsOf
<1>2. IsFiniteSet(1..Len(h))
  BY <1>1, FS_Interval
<1>3. IsFiniteSet(EventsOf(h, s))
  BY <1>1, <1>2, FS_Subset
<1>. QED
  BY <1>3, FS_CardinalityType

\* A channel loses its first word.
LEMMA EventsOfTail ==
    ASSUME NEW h \in Seq(Words), h # <<>>, NEW s
    PROVE  Cardinality(EventsOf(h, s)) =
               Cardinality(EventsOf(Tail(h), s)) + IF IsEventOf(Head(h), s) THEN 1 ELSE 0
<1>1. /\ Tail(h) \in Seq(Words) /\ Head(h) = h[1] /\ 1 \in DOMAIN h
      /\ DOMAIN Tail(h) = 1..(Len(h) - 1) /\ DOMAIN h = 1..Len(h) /\ Len(h) \in Nat
      /\ \A i \in DOMAIN Tail(h) : Tail(h)[i] = h[i + 1] /\ i + 1 \in DOMAIN h
      /\ \A i \in DOMAIN h : i # 1 => i - 1 \in DOMAIN Tail(h) /\ Tail(h)[i - 1] = h[i]
  BY TailFacts
<1> DEFINE A == EventsOf(Tail(h), s)
           B == EventsOf(h, s) \ {1}
           f == [i \in A |-> i + 1]
<1>2. f \in Bijection(A, B)
  <2>1. f \in [A -> B]
    BY <1>1 DEF EventsOf
  <2>2. \A i, j \in A : f[i] = f[j] => i = j
    BY <1>1 DEF EventsOf
  <2>3. ASSUME NEW j \in B PROVE \E i \in A : f[i] = j
    <3>1. j \in DOMAIN h /\ j # 1 /\ j \in Nat
      BY <1>1 DEF EventsOf
    <3>2. j - 1 \in A
      BY <1>1, <2>3, <3>1 DEF EventsOf
    <3>3. f[j - 1] = j
      BY <3>1, <3>2
    <3>. QED
      BY <3>2, <3>3
  <2>. QED
    BY <2>1, <2>2, <2>3 DEF Bijection, Injection, Surjection, IsInjective
<1>3. IsFiniteSet(A) /\ Cardinality(A) \in Nat
  BY <1>1, EventsAreFew
<1>4. ExistsBijection(A, B)
  BY <1>2 DEF ExistsBijection
<1>5. IsFiniteSet(B) /\ Cardinality(B) = Cardinality(A)
  BY <1>3, <1>4, FS_Bijection
<1>6. 1 \in EventsOf(h, s) <=> IsEventOf(Head(h), s)
  BY <1>1 DEF EventsOf, IsEventOf
<1>7. EventsOf(h, s) = IF IsEventOf(Head(h), s) THEN B \cup {1} ELSE B
  BY <1>6
<1>8. Cardinality(B \cup {1}) = Cardinality(B) + 1
  BY <1>5, FS_AddElement
<1>9. Cardinality(EventsOf(h, s)) = Cardinality(A) + IF IsEventOf(Head(h), s) THEN 1 ELSE 0
  <2>1. CASE IsEventOf(Head(h), s)
    BY <1>5, <1>7, <1>8, <2>1
  <2>2. CASE ~IsEventOf(Head(h), s)
    <3>1. EventsOf(h, s) = B
      BY <1>7, <2>2
    <3>2. Cardinality(EventsOf(h, s)) = Cardinality(A)
      BY <1>5, <3>1
    <3>. HIDE DEF A, B
    <3>. QED
      BY <1>3, <2>2, <3>2
  <2>. QED
    BY <2>1, <2>2
<1>. QED
  BY <1>9

\* A channel gets one more word.
LEMMA EventsOfAppend ==
    ASSUME NEW h \in Seq(Words), NEW w \in Words, NEW s
    PROVE  Cardinality(EventsOf(Append(h, w), s)) =
               Cardinality(EventsOf(h, s)) + IF IsEventOf(w, s) THEN 1 ELSE 0
<1>1. /\ Len(h) \in Nat /\ DOMAIN h = 1..Len(h)
      /\ DOMAIN Append(h, w) = DOMAIN h \cup {Len(h) + 1} /\ Append(h, w)[Len(h) + 1] = w
      /\ \A i \in DOMAIN h : Append(h, w)[i] = h[i] /\ i \in 1..Len(h)
  BY AppendFacts
<1>2. EventsOf(Append(h, w), s) =
          IF IsEventOf(w, s) THEN EventsOf(h, s) \cup {Len(h) + 1} ELSE EventsOf(h, s)
  <2>1. \A i \in DOMAIN h : Append(h, w)[i] = h[i]
    BY <1>1
  <2>2. Len(h) + 1 \notin DOMAIN h
    BY <1>1
  <2>. QED
    BY <1>1, <2>1, <2>2 DEF EventsOf, IsEventOf
<1>3. Len(h) + 1 \notin EventsOf(h, s)
  BY <1>1 DEF EventsOf
<1>4. IsFiniteSet(EventsOf(h, s)) /\ Cardinality(EventsOf(h, s)) \in Nat
  BY EventsAreFew
<1>5. Cardinality(EventsOf(h, s) \cup {Len(h) + 1}) = Cardinality(EventsOf(h, s)) + 1
  BY <1>3, <1>4, FS_AddElement
<1>. QED
  BY <1>2, <1>4, <1>5
-----------------------------------------------------------------------------
(* UpstreamSession: a word is read.                                        *)

\* It is another connection's, or an event, and the call reads on.
LEMMA ReadOnStep ==
    ASSUME SessionInv, SessionTypeOK', NEW c \in Calls, call[c].pc = "read", feed[c].held # <<>>,
           NEW w, w = Head(feed[c].held), feed'[c].held = Tail(feed[c].held),
           feed'[c].closed = feed[c].closed, \A q \in Calls \ {c} : feed'[q] = feed[q],
           call'[c].pc = "read", call'[c].conn = call[c].conn, call'[c].again = call[c].again,
           call'[c].outcome = call[c].outcome, \A q \in Calls \ {c} : call'[q] = call[q],
           call'[c].got = call[c].got + IF IsEventOf(w, call[c].conn) THEN 1 ELSE 0,
           call'[c].foreign => call[c].foreign \/ (IsEventOf(w, call[c].conn) /\ w.of # c),
           w.socket = call[c].conn => w.kind = "event",
           UNCHANGED <<reqMu, conn, activeCh, socket, listener, events>>
    PROVE  SessionInv'
<1>0. SessionTypeOK /\ Turns /\ Connections /\ Answers /\ OwnWords /\ call[c].pc \in InCall
  BY DEF SessionInv, InCall
<1>1. /\ call[c].outcome = "none" /\ activeCh \in {Unset, c}
      /\ \A q \in Calls \ {c} : call[q].pc \in {"new", "ending", "over"}
  BY <1>0, InCallFacts
<1>2. PICK s \in Sockets : s = call[c].conn
  BY <1>0, SessionFacts DEF Connections
<1>3. PICK h \in Seq(Words) : h = feed[c].held
  BY <1>0, SessionFacts
<1>4. /\ h # <<>> /\ w = h[1] /\ w \in Words /\ 1 \in DOMAIN h /\ feed'[c].held = Tail(h)
      /\ DOMAIN Tail(h) \in SUBSET Nat
      /\ \A i \in DOMAIN Tail(h) : Tail(h)[i] = h[i + 1] /\ i + 1 \in DOMAIN h
  BY <1>3, TailFacts
<1>5. HasBeenActive(c)' /\ HasBeenActive(c) /\ \A q \in Calls \ {c} : HasBeenActive(q)' <=> HasBeenActive(q)
  BY DEF HasBeenActive, Replied
<1>6. Turns'
  <2>1. activeCh = c \/ feed[c].closed
    BY <1>0, <1>5 DEF Turns
  <2>. QED
    BY <1>0, <1>1, <1>5, <2>1, TurnsKept
<1>7. Connections'
  <2>1. ASSUME NEW q \in Calls
        PROVE  /\ call'[q].pc \in {"activate", "send", "read"} =>
                      call'[q].conn # Unset /\ conn \in {Unset, call'[q].conn}
               /\ (~HasBeenActive(q)' /\ call'[q].pc # "activate") \/ call'[q].outcome = "refused" =>
                      call'[q].conn = Unset
               /\ call'[q].pc = "dial" \/ (call'[q].pc = "ensure" /\ call'[q].again) => conn = Unset
    <3>1. CASE q = c
      BY <1>0, <1>1, <1>5, <3>1, NumbersOfCalls DEF Connections
    <3>2. CASE q # c
      BY <1>0, <1>5, <3>2 DEF Connections
    <3>. QED
      BY <3>1, <3>2
  <2>2. ASSUME NEW t \in Sockets
        PROVE  /\ socket[t].state = "open" => conn = t
               /\ socket[t].state = "none" =>
                    /\ socket[t].owes = <<>> /\ listener[t].pc = "none" /\ conn # t
                    /\ \A q \in Calls : call'[q].conn # t
                    /\ \A q \in Calls : \A i \in DOMAIN feed'[q].held : feed'[q].held[i].socket # t
    <3>1. \A q \in Calls : call'[q].conn = call[q].conn
      OBVIOUS
    <3>2. \A q \in Calls : \A i \in DOMAIN feed'[q].held :
              \E j \in DOMAIN feed[q].held : feed'[q].held[i] = feed[q].held[j]
      <4>1. \A i \in DOMAIN feed'[c].held : \E j \in DOMAIN feed[c].held :
                feed'[c].held[i] = feed[c].held[j]
        BY <1>3, <1>4
      <4>2. ASSUME NEW q \in Calls, NEW i \in DOMAIN feed'[q].held
            PROVE  \E j \in DOMAIN feed[q].held : feed'[q].held[i] = feed[q].held[j]
        <5>1. CASE q = c
          BY <4>1, <4>2, <5>1
        <5>2. CASE q # c
          BY <4>2, <5>2
        <5>. QED
          BY <5>1, <5>2
      <4>. QED
        BY <4>2
    <3>. QED
      BY <1>0, <3>1, <3>2 DEF Connections
  <2>. QED
    BY <2>1, <2>2 DEF Connections
<1>8. Answers'
  BY AnswersKept DEF Replied
<1>9. OwnWords'
  <2>. SUFFICES ASSUME NEW q \in Calls, call'[q].pc \in {"send", "read"}, Undisturbed(q)'
                PROVE  AllHeard(q)'
    BY DEF OwnWords
  <2>1. q = c
    BY <1>1
  <2>2. Undisturbed(c) /\ AllHeard(c)
    BY <1>0, <2>1 DEF Undisturbed, CutOff, OwnWords
  <2>3. /\ ~call[c].foreign /\ (CarriesFor(s, c) => listener[s].ch = c)
        /\ \A i \in DOMAIN h : FromConn(c, h[i]) => h[i].of = c
        /\ \A i \in DOMAIN h : FromConn(c, h[i]) /\ h[i].kind # "event" =>
              /\ \A j \in DOMAIN h : j > i => ~FromConn(c, h[j])
              /\ ~CarriesFor(s, c) /\ \A j \in DOMAIN socket[s].owes : socket[s].owes[j] # c
        /\ ~feed[c].closed \/ (\E i \in DOMAIN h : FromConn(c, h[i]) /\ h[i].kind # "event") =>
              events[c] = call[c].got + EventsHeld(c) + IF EventInHand(c) THEN 1 ELSE 0
    BY <1>2, <1>3, <2>2 DEF AllHeard
  <2>4. ~call'[c].foreign
    BY <1>2, <1>4, <2>3 DEF IsEventOf, FromConn
  <2>5. \A v : FromConn(c, v)' <=> FromConn(c, v)
    BY DEF FromConn
  <2>6. /\ EventInHand(c)' <=> EventInHand(c)
        /\ CarriesFor(s, c)' <=> CarriesFor(s, c)
    BY DEF EventInHand, CarriesFor
  <2>7. EventsHeld(c) = EventsHeld(c)' + IF IsEventOf(w, s) THEN 1 ELSE 0
    <3>1. EventsHeld(c) = Cardinality(EventsOf(h, s)) /\ EventsHeld(c)' = Cardinality(EventsOf(Tail(h), s))
      BY <1>2, <1>3, <1>4 DEF EventsHeld, EventsOf
    <3>. QED
      BY <1>3, <1>4, <3>1, EventsOfTail
  <2>8. ~feed[c].closed \/ (\E i \in DOMAIN Tail(h) : FromConn(c, Tail(h)[i]) /\ Tail(h)[i].kind # "event") =>
              events[c] = call'[c].got + EventsHeld(c)' + IF EventInHand(c) THEN 1 ELSE 0
    <3>1. EventsHeld(c)' \in Nat /\ call[c].got \in Nat
      <4>1. EventsHeld(c)' = Cardinality(EventsOf(Tail(h), s)) /\ Tail(h) \in Seq(Words)
        BY <1>2, <1>4, TailFacts DEF EventsHeld, EventsOf
      <4>. QED
        BY <1>0, <4>1, EventsAreFew, SessionFacts
    <3>2. call[c].got + EventsHeld(c) = call'[c].got + EventsHeld(c)'
      BY <1>2, <2>7, <3>1
    <3>. QED
      BY <1>4, <2>3, <3>2
  <2>9. \A i \in DOMAIN Tail(h) : FromConn(c, Tail(h)[i]) /\ Tail(h)[i].kind # "event" =>
            /\ \A j \in DOMAIN Tail(h) : j > i => ~FromConn(c, Tail(h)[j])
            /\ ~CarriesFor(s, c) /\ \A j \in DOMAIN socket[s].owes : socket[s].owes[j] # c
    <3>. SUFFICES ASSUME NEW i \in DOMAIN Tail(h), FromConn(c, Tail(h)[i]), Tail(h)[i].kind # "event"
                  PROVE  /\ \A j \in DOMAIN Tail(h) : j > i => ~FromConn(c, Tail(h)[j])
                         /\ ~CarriesFor(s, c) /\ \A j \in DOMAIN socket[s].owes : socket[s].owes[j] # c
      OBVIOUS
    <3>1. /\ \A j \in DOMAIN h : j > i + 1 => ~FromConn(c, h[j])
          /\ ~CarriesFor(s, c) /\ \A j \in DOMAIN socket[s].owes : socket[s].owes[j] # c
      BY <1>4, <2>3
    <3>2. \A j \in DOMAIN Tail(h) : j > i => j + 1 > i + 1
      BY <1>4
    <3>. QED
      BY <1>4, <3>1, <3>2
  <2>10. \A i \in DOMAIN Tail(h) : FromConn(c, Tail(h)[i]) => Tail(h)[i].of = c
    BY <1>4, <2>3
  <2>11. AllHeard(c)'
    <3>1. call'[c].conn = s /\ feed'[c].held = Tail(h) /\ UNCHANGED <<socket, events>>
      BY <1>2, <1>4
    <3>. QED
      BY <2>3, <2>4, <2>5, <2>6, <2>8, <2>9, <2>10, <3>1 DEF AllHeard
  <2>. QED
    BY <2>1, <2>11
<1>10. DoneIsOver'
  BY <1>0, <1>1, DoneKept DEF CarriesFor
<1>. QED
  BY <1>6, <1>7, <1>8, <1>9, <1>10 DEF SessionInv
\* It is the last one of the call's answer.
LEMMA ReadLastStep ==
    ASSUME SessionInv, SessionTypeOK', NEW c \in Calls, call[c].pc = "read", feed[c].held # <<>>,
           NEW w, w = Head(feed[c].held), feed'[c].held = Tail(feed[c].held),
           \A q \in Calls \ {c} : feed'[q] = feed[q],
           w.socket = call[c].conn, w.kind = "completed",
           call'[c].pc = "ending", call'[c].conn = call[c].conn, call'[c].again = call[c].again,
           call'[c].outcome = "done", \A q \in Calls \ {c} : call'[q] = call[q],
           call'[c].got = call[c].got + 1, call'[c].foreign => call[c].foreign \/ w.of # c,
           UNCHANGED <<reqMu, conn, activeCh, socket, listener, events>>
    PROVE  SessionInv'
<1>0. /\ SessionTypeOK /\ Turns /\ Connections /\ Answers /\ OwnWords /\ DoneIsOver
      /\ call[c].pc \in InCall
  BY DEF SessionInv, InCall
<1>1. \A q \in Calls \ {c} : call[q].outcome # "none" <=> q < c
  BY <1>0, InCallFacts
<1>2. PICK s \in Sockets : s = call[c].conn
  BY <1>0, SessionFacts DEF Connections
<1>3. PICK h \in Seq(Words) : h = feed[c].held
  BY <1>0, SessionFacts
<1>4. /\ w = h[1] /\ 1 \in DOMAIN h /\ feed'[c].held = Tail(h)
      /\ DOMAIN h \in SUBSET (Nat \ {0})
      /\ \A i \in DOMAIN Tail(h) : Tail(h)[i] = h[i + 1] /\ i + 1 \in DOMAIN h
  BY <1>3, TailFacts
<1>5. Turns' /\ Connections' /\ Answers' /\ OwnWords'
  <2>1. \A i \in DOMAIN feed'[c].held : \E j \in DOMAIN feed[c].held : feed'[c].held[i] = feed[c].held[j]
    BY <1>3, <1>4
  <2>2. Fades
    BY StaysFades
  <2>. QED
    BY <1>0, <2>1, <2>2, CallOver
<1>6. DoneIsOver'
  <2>. SUFFICES ASSUME NEW q \in Calls, Undisturbed(q)', call'[q].outcome = "done"
                PROVE  /\ ~call'[q].foreign /\ call'[q].got = events[q] + 1
                       /\ \A t \in Sockets : ~CarriesFor(t, q)'
                            /\ \A j \in DOMAIN socket[t].owes : socket[t].owes[j] # q
    BY DEF DoneIsOver
  <2>0. \A t \in Sockets, d \in Calls : CarriesFor(t, d)' <=> CarriesFor(t, d)
    BY DEF CarriesFor
  <2>1. CASE q # c
    <3>1. q < c /\ call'[q] = call[q]
      BY <1>1, <2>1
    <3>2. Undisturbed(q)
      BY <3>1, NumbersOfCalls DEF Undisturbed, CutOff
    <3>. QED
      BY <1>0, <2>0, <3>1, <3>2 DEF DoneIsOver
  <2>2. CASE q = c
    <3>1. Undisturbed(c)
      <4>1. \A d \in Calls : d < c => d # c
        BY NumbersOfCalls
      <4>. QED
        BY <2>2, <4>1 DEF Undisturbed, CutOff
    <3>2. AllHeard(c)
      BY <1>0, <3>1 DEF OwnWords
    <3>3. FromConn(c, h[1]) /\ h[1].kind # "event"
      BY <1>4 DEF FromConn
    <3>4. /\ ~call[c].foreign /\ h[1].of = c
          /\ \A j \in DOMAIN h : j > 1 => ~FromConn(c, h[j])
          /\ ~CarriesFor(s, c) /\ \A j \in DOMAIN socket[s].owes : socket[s].owes[j] # c
          /\ events[c] = call[c].got + EventsHeld(c) + IF EventInHand(c) THEN 1 ELSE 0
      BY <1>2, <1>3, <1>4, <3>2, <3>3 DEF AllHeard
    <3>5. ~EventInHand(c)
      <4>1. \A d \in Calls : ~CarriesFor(s, d)
        BY <1>2, <3>1, <3>4, AloneOnConnection
      <4>2. listener[s].pc = "pass" => listener[s].word.of \in Calls
        BY <1>0, SessionFacts DEF Answers, Words
      <4>. QED
        BY <1>2, <4>1, <4>2 DEF EventInHand, CarriesFor
    <3>6. EventsHeld(c) = 0
      <4>1. \A j \in DOMAIN h : j = 1 \/ j > 1
        BY <1>4
      <4>2. {i \in DOMAIN feed[c].held :
                feed[c].held[i].socket = call[c].conn /\ feed[c].held[i].kind = "event"} = {}
        BY <1>3, <3>3, <3>4, <4>1 DEF FromConn
      <4>. QED
        BY <4>2, FS_EmptySet DEF EventsHeld
    <3>7. call'[c].got = events[c] + 1
      <4>1. call[c].got \in Nat
        BY <1>0, SessionFacts
      <4>. QED
        BY <3>4, <3>5, <3>6, <4>1
    <3>8. ASSUME NEW t \in Sockets
          PROVE  ~CarriesFor(t, c) /\ \A j \in DOMAIN socket[t].owes : socket[t].owes[j] # c
      BY <1>0, <1>2, <3>4 DEF Answers, CarriesFor
    <3>. QED
      BY <1>4, <2>0, <2>2, <3>4, <3>7, <3>8
  <2>. QED
    BY <2>1, <2>2
<1>. QED
  BY <1>5, <1>6 DEF SessionInv

LEMMA ReadWordStep == ASSUME SessionInv, NEW c \in Calls, ReadWord(c) PROVE SessionInv'
<1> DEFINE w == Head(feed[c].held)
           heard == [call EXCEPT ![c].got = @ + 1, ![c].foreign = @ \/ w.of # c]
<1>0. SessionTypeOK /\ Connections
  BY DEF SessionInv
<1>1. /\ call[c].pc = "read" /\ call[c].pc \in InCall /\ feed[c].held # <<>>
      /\ feed' = [feed EXCEPT ![c].held = Tail(@)]
      /\ UNCHANGED <<kept, reqMu, activeCh, listener, events, departed, panicked>>
  BY DEF ReadWord, InCall
<1>2. \/ w.socket # call[c].conn /\ UNCHANGED <<call, conn, socket>>
      \/ w.socket = call[c].conn /\ w.kind = "event" /\ call' = heard /\ UNCHANGED <<conn, socket>>
      \/ /\ w.socket = call[c].conn /\ w.kind = "completed"
         /\ call' = [heard EXCEPT ![c].pc = "ending", ![c].outcome = "done"]
         /\ UNCHANGED <<conn, socket>>
      \/ call' = Ended(c, "failed") /\ (Invalidated(call[c].conn) \/ UNCHANGED <<conn, socket>>)
  BY DEF ReadWord
<1>3. /\ feed[c].held \in Seq(Words) /\ Tail(feed[c].held) \in Seq(Words) /\ w \in Words
      /\ \A i \in DOMAIN Tail(feed[c].held) :
            \E j \in DOMAIN feed[c].held : Tail(feed[c].held)[i] = feed[c].held[j]
      /\ call[c] \in CallRecord /\ call[c].got \in Nat /\ call[c].foreign \in BOOLEAN
  <2>1. feed[c].held \in Seq(Words) /\ call[c] \in CallRecord
    BY <1>0, SessionFacts
  <2>. QED
    BY <1>1, <2>1, TailFacts DEF CallRecord
<1>4. /\ feed'[c].held = Tail(feed[c].held) /\ feed'[c].closed = feed[c].closed
      /\ \A q \in Calls \ {c} : feed'[q] = feed[q]
      /\ feed' \in [Calls -> [held: Seq(Words), closed: BOOLEAN]]
  <2>1. feed \in [Calls -> [held: Seq(Words), closed: BOOLEAN]]
    BY <1>0, SessionTypes
  <2>2. feed' = [feed EXCEPT ![c].held = Tail(feed[c].held)]
    BY <1>1
  <2>3. Tail(feed[c].held) \in Seq(Words)
    BY <1>3
  <2>. QED
    BY <2>1, <2>2, <2>3
<1>5. call \in [Calls -> CallRecord]
  BY <1>0, SessionTypes
<1>6. CASE w.socket # call[c].conn /\ UNCHANGED <<call, conn, socket>>
  <2>1. SessionTypeOK'
    BY <1>0, <1>1, <1>4, <1>6 DEF SessionTypeOK
  <2>2. call'[c].got = call[c].got + IF IsEventOf(w, call[c].conn) THEN 1 ELSE 0
    BY <1>3, <1>6 DEF IsEventOf
  <2>. QED
    BY <1>1, <1>4, <1>6, <2>1, <2>2, ReadOnStep
<1>7. CASE w.socket = call[c].conn /\ w.kind = "event" /\ call' = heard /\ UNCHANGED <<conn, socket>>
  <2>1. /\ call'[c].pc = "read" /\ call'[c].conn = call[c].conn /\ call'[c].again = call[c].again
        /\ call'[c].outcome = call[c].outcome /\ call'[c].got = call[c].got + 1
        /\ call'[c].foreign = (call[c].foreign \/ w.of # c)
        /\ \A q \in Calls \ {c} : call'[q] = call[q]
        /\ call' \in [Calls -> CallRecord]
    <3>1. call' = [call EXCEPT ![c].got = call[c].got + 1, ![c].foreign = (call[c].foreign \/ w.of # c)]
      BY <1>7
    <3>2. (call[c].foreign \/ w.of # c) \in BOOLEAN /\ call[c].got + 1 \in Nat
      BY <1>3
    <3>. DEFINE r == [call[c] EXCEPT !.got = call[c].got + 1, !.foreign = (call[c].foreign \/ w.of # c)]
    <3>3. call' = [call EXCEPT ![c] = r]
      BY <3>1
    <3>4. /\ r \in CallRecord /\ r.pc = call[c].pc /\ r.conn = call[c].conn /\ r.again = call[c].again
          /\ r.outcome = call[c].outcome /\ r.got = call[c].got + 1
          /\ r.foreign = (call[c].foreign \/ w.of # c)
      BY <1>3, <3>2 DEF CallRecord
    <3>. HIDE DEF r, w, heard
    <3>. QED
      BY <1>1, <1>5, <3>3, <3>4, CallChanges
  <2>2. SessionTypeOK'
    BY <1>0, <1>1, <1>4, <1>7, <2>1 DEF SessionTypeOK, CallRecord
  <2>3. /\ call'[c].got = call[c].got + IF IsEventOf(w, call[c].conn) THEN 1 ELSE 0
        /\ call'[c].foreign => call[c].foreign \/ (IsEventOf(w, call[c].conn) /\ w.of # c)
    BY <1>7, <2>1 DEF IsEventOf
  <2>. QED
    BY <1>1, <1>4, <1>7, <2>1, <2>2, <2>3, ReadOnStep, SMTT(30)
<1>8. CASE /\ w.socket = call[c].conn /\ w.kind = "completed"
           /\ call' = [heard EXCEPT ![c].pc = "ending", ![c].outcome = "done"]
           /\ UNCHANGED <<conn, socket>>
  <2>1. /\ call'[c].pc = "ending" /\ call'[c].conn = call[c].conn /\ call'[c].again = call[c].again
        /\ call'[c].outcome = "done" /\ call'[c].got = call[c].got + 1
        /\ call'[c].foreign = (call[c].foreign \/ w.of # c)
        /\ \A q \in Calls \ {c} : call'[q] = call[q]
        /\ call' \in [Calls -> CallRecord]
    <3>1. heard = [call EXCEPT ![c].got = call[c].got + 1, ![c].foreign = (call[c].foreign \/ w.of # c)]
      OBVIOUS
    <3>2. (call[c].foreign \/ w.of # c) \in BOOLEAN /\ call[c].got + 1 \in Nat
      BY <1>3
    <3>3. /\ heard[c].conn = call[c].conn /\ heard[c].again = call[c].again
          /\ heard[c].got = call[c].got + 1 /\ heard[c].foreign = (call[c].foreign \/ w.of # c)
          /\ \A q \in Calls \ {c} : heard[q] = call[q]
          /\ heard \in [Calls -> CallRecord]
      <4>. DEFINE r == [call[c] EXCEPT !.got = call[c].got + 1, !.foreign = (call[c].foreign \/ w.of # c)]
      <4>1. heard = [call EXCEPT ![c] = r]
        BY <3>1
      <4>2. /\ r \in CallRecord /\ r.conn = call[c].conn /\ r.again = call[c].again
            /\ r.got = call[c].got + 1 /\ r.foreign = (call[c].foreign \/ w.of # c)
        BY <1>3, <3>2 DEF CallRecord
      <4>. HIDE DEF r, w, heard
      <4>. QED
        BY <1>5, <4>1, <4>2
    <3>4. call' = [heard EXCEPT ![c].pc = "ending", ![c].outcome = "done"]
      BY <1>8
    <3>. HIDE DEF heard
    <3>. DEFINE R == [heard[c] EXCEPT !.pc = "ending", !.outcome = "done"]
    <3>5. call' = [heard EXCEPT ![c] = R]
      BY <3>4
    <3>6. heard[c] \in CallRecord
      BY <3>3
    <3>7. /\ R \in CallRecord /\ R.pc = "ending" /\ R.outcome = "done"
          /\ R.conn = heard[c].conn /\ R.again = heard[c].again
          /\ R.got = heard[c].got /\ R.foreign = heard[c].foreign
      BY <3>6 DEF CallRecord, Outcomes
    <3>. HIDE DEF R
    <3>8. call'[c] = R /\ (\A q \in Calls \ {c} : call'[q] = heard[q]) /\ call' \in [Calls -> CallRecord]
      BY <3>3, <3>5, <3>7
    <3>. QED
      BY <3>3, <3>7, <3>8
  <2>2. SessionTypeOK'
    BY <1>0, <1>1, <1>4, <1>8, <2>1 DEF SessionTypeOK, CallRecord
  <2>3. call'[c].foreign => call[c].foreign \/ w.of # c
    BY <2>1
  <2>4. /\ w = Head(feed[c].held) /\ w.socket = call[c].conn /\ w.kind = "completed"
        /\ UNCHANGED <<reqMu, conn, activeCh, socket, listener, events>>
    BY <1>1, <1>8
  <2>. HIDE DEF w
  <2>. QED
    BY <1>1, <1>4, <2>1, <2>2, <2>3, <2>4, ReadLastStep
<1>9. CASE call' = Ended(c, "failed") /\ (Invalidated(call[c].conn) \/ UNCHANGED <<conn, socket>>)
  <2>1. Fades
    <3>1. call[c].conn \in Sockets
      BY <1>0, <1>1, SessionFacts DEF Connections
    <3>. QED
      BY <1>9, <3>1, InvalidatedFades, StaysFades
  <2>2. call' \in [Calls -> CallRecord]
    BY <1>5, <1>9, CallComesToEnd DEF Outcomes
  <2>3. SessionTypeOK'
    <3>1. conn' \in {Unset} \cup Sockets
      BY <1>0, <2>1 DEF Fades, SessionTypeOK
    <3>. QED
      BY <1>0, <1>1, <1>4, <2>1, <2>2, <3>1 DEF SessionTypeOK, Fades, SocketRecord, CallRecord
  <2>. QED
    BY <1>1, <1>3, <1>4, <1>9, <2>1, <2>3, CallEndsStep
<1>. QED
  BY <1>2, <1>6, <1>7, <1>8, <1>9
-----------------------------------------------------------------------------
(* UpstreamSession: steps of a reader that has a word, or its last one.    *)

\* The calls stay as they are; a channel gets a word of a known connection, or loses
\* its place and is closed.
LEMMA ReaderStep ==
    ASSUME SessionInv, UNCHANGED <<call, conn, reqMu>>, activeCh' \in {activeCh, Unset},
           activeCh' # activeCh => feed'[activeCh].closed,
           \A q \in Calls :
                \/ feed'[q] = feed[q]
                \/ /\ HasBeenActive(q) /\ (feed[q].closed => feed'[q].closed)
                   /\ \E w \in Words : /\ feed'[q].held = Append(feed[q].held, w)
                                       /\ w.socket \in Sockets /\ socket[w.socket].state # "none",
           \A q \in Calls : call[q].pc \notin Replied => events'[q] = events[q],
           \A t \in Sockets :
                /\ socket'[t].state = socket[t].state
                /\ socket[t].state = "none" => socket'[t].owes = socket[t].owes
                /\ listener'[t].pc = "none" => listener[t].pc = "none"
                /\ socket[t].state = "none" => listener'[t].pc = listener[t].pc
                /\ listener'[t].ch \in {listener[t].ch, activeCh, Unset}
    PROVE  Turns' /\ Connections'
<1>1. SessionTypeOK /\ Turns /\ Connections
  BY DEF SessionInv
<1>2. \A q \in Calls : HasBeenActive(q)' <=> HasBeenActive(q)
  BY DEF HasBeenActive
<1>3. Turns'
  <2>1. activeCh' # Unset => HasBeenActive(activeCh)' /\ call'[activeCh'].pc # "over"
    BY <1>1 DEF Turns, HasBeenActive
  <2>2. ASSUME NEW q \in Calls
        PROVE  /\ call'[q].pc \in InCall \cup {"ending"} => reqMu' = q
               /\ call'[q].outcome = "none" <=> call'[q].pc \notin {"ending", "over"}
               /\ call'[q].pc # "new" => \A d \in Calls : d < q => call'[d].outcome # "none"
               /\ HasBeenActive(q)' /\ call'[q].pc \notin {"ending", "over"} =>
                      activeCh' = q \/ feed'[q].closed
               /\ ~HasBeenActive(q)' => feed'[q].held = <<>> /\ ~call'[q].again
               /\ call'[q].pc \notin Replied => events'[q] = 0 /\ call'[q].got = 0 /\ ~call'[q].foreign
    <3>1. HasBeenActive(q)' /\ call'[q].pc \notin {"ending", "over"} => activeCh' = q \/ feed'[q].closed
      BY <1>1, <1>2 DEF Turns
    <3>. QED
      BY <1>1, <1>2, <3>1 DEF Turns
  <2>3. ASSUME NEW q \in Calls, NEW t \in Sockets, listener'[t].ch = q PROVE HasBeenActive(q)'
    BY <1>1, <1>2, <2>3, NumbersOfCalls DEF Turns
  <2>. QED
    BY <2>1, <2>2, <2>3 DEF Turns
<1>4. Connections'
  <2>1. ASSUME NEW q \in Calls
        PROVE  /\ call'[q].pc \in {"activate", "send", "read"} =>
                      call'[q].conn # Unset /\ conn' \in {Unset, call'[q].conn}
               /\ (~HasBeenActive(q)' /\ call'[q].pc # "activate") \/ call'[q].outcome = "refused" =>
                      call'[q].conn = Unset
               /\ call'[q].pc = "dial" \/ (call'[q].pc = "ensure" /\ call'[q].again) => conn' = Unset
    BY <1>1, <1>2 DEF Connections
  <2>2. ASSUME NEW t \in Sockets, socket[t].state = "none", NEW q \in Calls, NEW i \in DOMAIN feed'[q].held
        PROVE  feed'[q].held[i].socket # t
    <3>1. \A j \in DOMAIN feed[q].held : feed[q].held[j].socket # t
      BY <1>1, <2>2 DEF Connections
    <3>2. CASE feed'[q] = feed[q]
      BY <2>2, <3>1, <3>2
    <3>3. CASE \E w \in Words : /\ feed'[q].held = Append(feed[q].held, w)
                                /\ w.socket \in Sockets /\ socket[w.socket].state # "none"
      <4>1. PICK w \in Words : feed'[q].held = Append(feed[q].held, w) /\ w.socket # t
        BY <2>2, <3>3
      <4>2. feed[q].held \in Seq(Words)
        BY <1>1, SessionFacts
      <4>. QED
        BY <2>2, <3>1, <4>1, <4>2, AppendFacts
    <3>. QED
      BY <3>2, <3>3
  <2>3. ASSUME NEW t \in Sockets
        PROVE  /\ socket'[t].state = "open" => conn' = t
               /\ socket'[t].state = "none" =>
                    /\ socket'[t].owes = <<>> /\ listener'[t].pc = "none" /\ conn' # t
                    /\ \A q \in Calls : call'[q].conn # t
                    /\ \A q \in Calls : \A i \in DOMAIN feed'[q].held : feed'[q].held[i].socket # t
    BY <1>1, <2>2 DEF Connections
  <2>. QED
    BY <2>1, <2>3 DEF Connections
<1>. QED
  BY <1>3, <1>4

\* A word that is not of its connection, or says that it is down, changes nothing of
\* what a call has heard.
LEMMA StillHeardMore ==
    ASSUME SessionTypeOK, NEW c \in Calls, AllHeard(c), call'[c] = call[c], events'[c] = events[c],
           NEW w \in Words, ~FromConn(c, w), feed'[c].held = Append(feed[c].held, w),
           feed[c].closed => feed'[c].closed,
           NEW s \in Sockets, s = call[c].conn, socket'[s].owes = socket[s].owes,
           listener[s].pc = "pass" \/ listener'[s].pc = "pass" => listener'[s] = listener[s]
    PROVE  AllHeard(c)'
<1>1. PICK h \in Seq(Words) : h = feed[c].held
  BY SessionFacts
<1>2. feed'[c].held = Append(h, w)
  BY <1>1
<1>3. PICK n \in Nat :
          /\ DOMAIN feed'[c].held = DOMAIN h \cup {n} /\ feed'[c].held[n] = w
          /\ \A i \in DOMAIN h : feed'[c].held[i] = h[i]
  <2>1. Len(h) + 1 \in Nat
    BY <1>1
  <2>. QED
    BY <1>1, <1>2, <2>1, AppendFacts, SMTT(30)
<1>4. /\ call'[c].conn = s /\ (EventInHand(c)' <=> EventInHand(c))
      /\ \A v : FromConn(c, v)' <=> FromConn(c, v)
      /\ CarriesFor(s, c)' <=> CarriesFor(s, c)
      /\ CarriesFor(s, c) => listener'[s] = listener[s]
  BY DEF EventInHand, FromConn, CarriesFor
<1>5. EventsHeld(c)' = EventsHeld(c)
  <2>1. EventsHeld(c) = Cardinality(EventsOf(h, s))
        /\ EventsHeld(c)' = Cardinality(EventsOf(Append(h, w), s))
    BY <1>1, <1>2, <1>4 DEF EventsHeld, EventsOf
  <2>2. ~IsEventOf(w, s)
    BY DEF IsEventOf, FromConn
  <2>3. Cardinality(EventsOf(h, s)) \in Nat
    BY <1>1, EventsAreFew
  <2>4. Cardinality(EventsOf(Append(h, w), s)) = Cardinality(EventsOf(h, s)) + 0
    BY <1>1, <2>2, EventsOfAppend
  <2>. QED
    BY <2>1, <2>3, <2>4
<1>6. /\ ~call[c].foreign /\ (CarriesFor(s, c) => listener[s].ch = c)
      /\ \A i \in DOMAIN h : FromConn(c, h[i]) => h[i].of = c /\ call[c].pc = "read"
      /\ \A i \in DOMAIN h : FromConn(c, h[i]) /\ h[i].kind # "event" =>
            /\ \A j \in DOMAIN h : j > i => ~FromConn(c, h[j])
            /\ ~CarriesFor(s, c) /\ \A j \in DOMAIN socket[s].owes : socket[s].owes[j] # c
      /\ ~feed[c].closed \/ (\E i \in DOMAIN h : FromConn(c, h[i]) /\ h[i].kind # "event") =>
            events[c] = call[c].got + EventsHeld(c) + IF EventInHand(c) THEN 1 ELSE 0
  BY <1>1 DEF AllHeard
<1>7. \A i \in DOMAIN feed'[c].held : FromConn(c, feed'[c].held[i]) =>
          i \in DOMAIN h /\ feed'[c].held[i] = h[i]
  BY <1>3
<1>8. ~feed'[c].closed \/ (\E i \in DOMAIN feed'[c].held :
                                FromConn(c, feed'[c].held[i]) /\ feed'[c].held[i].kind # "event") =>
            events'[c] = call'[c].got + EventsHeld(c)' + IF EventInHand(c)' THEN 1 ELSE 0
  <2>1. ~feed'[c].closed \/ (\E i \in DOMAIN feed'[c].held :
                                FromConn(c, feed'[c].held[i]) /\ feed'[c].held[i].kind # "event") =>
        ~feed[c].closed \/ (\E i \in DOMAIN h : FromConn(c, h[i]) /\ h[i].kind # "event")
    BY <1>7
  <2>. QED
    BY <1>4, <1>5, <1>6, <2>1
<1>9. \A i \in DOMAIN feed'[c].held : FromConn(c, feed'[c].held[i]) /\ feed'[c].held[i].kind # "event" =>
          /\ \A j \in DOMAIN feed'[c].held : j > i => ~FromConn(c, feed'[c].held[j])
          /\ ~CarriesFor(s, c) /\ \A j \in DOMAIN socket'[s].owes : socket'[s].owes[j] # c
  BY <1>6, <1>7
<1>10. \A i \in DOMAIN feed'[c].held : FromConn(c, feed'[c].held[i]) =>
          feed'[c].held[i].of = c /\ call'[c].pc = "read"
  BY <1>6, <1>7
<1>11. ~call'[c].foreign /\ (CarriesFor(s, c) => listener'[s].ch = c)
  BY <1>4, <1>6
<1>. QED
  BY <1>4, <1>8, <1>9, <1>10, <1>11 DEF AllHeard
\* A reader's step over one connection leaves alone what is done.
LEMMA DoneStays ==
    ASSUME SessionInv, UNCHANGED call,
           \A q \in Calls : call[q].outcome = "done" /\ Undisturbed(q) => events'[q] = events[q],
           \A t \in Sockets, q \in Calls : call[q].outcome = "done" /\ Undisturbed(q) =>
                /\ CarriesFor(t, q)' => CarriesFor(t, q)
                /\ (\E i \in DOMAIN socket'[t].owes : socket'[t].owes[i] = q) =>
                    \E i \in DOMAIN socket[t].owes : socket[t].owes[i] = q
    PROVE  DoneIsOver'
<1>1. \A q \in Calls : Undisturbed(q)' <=> Undisturbed(q)
  BY DEF Undisturbed, CutOff
<1>2. DoneIsOver
  BY DEF SessionInv
<1>. SUFFICES ASSUME NEW q \in Calls, Undisturbed(q)', call'[q].outcome = "done"
              PROVE  /\ ~call'[q].foreign /\ call'[q].got = events'[q] + 1
                     /\ \A t \in Sockets : ~CarriesFor(t, q)'
                          /\ \A j \in DOMAIN socket'[t].owes : socket'[t].owes[j] # q
  BY DEF DoneIsOver
<1>3. Undisturbed(q) /\ call[q].outcome = "done" /\ call'[q] = call[q]
  BY <1>1
<1>. QED
  BY <1>2, <1>3 DEF DoneIsOver

LEMMA PassOnStep == ASSUME SessionInv, NEW s \in Sockets, PassOn(s) PROVE SessionInv'
<1>0. SessionTypeOK /\ Turns /\ Connections /\ Answers /\ OwnWords
  BY DEF SessionInv
<1>1. /\ listener[s].pc = "pass" /\ listener' = [listener EXCEPT ![s] = Listens]
      /\ \/ /\ ~feed[listener[s].ch].closed
            /\ feed' = [feed EXCEPT ![listener[s].ch].held = Append(@, listener[s].word)]
            /\ UNCHANGED panicked
         \/ feed[listener[s].ch].closed /\ panicked' = TRUE /\ UNCHANGED feed
         \/ activeCh # listener[s].ch /\ UNCHANGED <<feed, panicked>>
      /\ UNCHANGED <<kept, reqMu, conn, activeCh, call, socket, events, departed>>
  BY DEF PassOn, Listening
<1>2. PICK ch \in Calls, w \in Words : /\ ch = listener[s].ch /\ w = listener[s].word
                                       /\ w.socket = s /\ w.kind # "down" /\ w.of \in Calls
  <2>1. listener[s].ch \in Calls
    BY <1>0, <1>1, SessionFacts DEF Answers
  <2>2. listener[s].word \in Words /\ listener[s].word.of # Unset
    BY <1>0, <1>1, SessionFacts DEF Answers
  <2>. QED
    BY <1>0, <1>1, <2>1, <2>2 DEF Answers, Words
<1>3. /\ listener' \in [Sockets -> ListenerRecord]
      /\ listener'[s].pc = "listen" /\ listener'[s].ch = Unset
      /\ \A t \in Sockets \ {s} : listener'[t] = listener[t]
  BY <1>0, <1>1, SessionTypes DEF ListenerRecord, Listens
<1>4. /\ feed' \in [Calls -> [held: Seq(Words), closed: BOOLEAN]]
      /\ \A q \in Calls \ {ch} : feed'[q] = feed[q]
      /\ \/ feed'[ch].held = Append(feed[ch].held, w) /\ ~feed[ch].closed /\ feed'[ch].closed = feed[ch].closed
         \/ feed' = feed /\ (feed[ch].closed \/ activeCh # ch)
  <2>1. feed \in [Calls -> [held: Seq(Words), closed: BOOLEAN]]
    BY <1>0, SessionTypes
  <2>2. Append(feed[ch].held, w) \in Seq(Words)
    BY <2>1, AppendFacts
  <2>. QED
    BY <1>1, <1>2, <2>1, <2>2
<1>5. SessionTypeOK'
  <2>1. panicked' \in BOOLEAN
    BY <1>0, <1>1 DEF SessionTypeOK
  <2>. QED
    BY <1>0, <1>1, <1>3, <1>4, <2>1 DEF SessionTypeOK, ListenerRecord
<1>6. HasBeenActive(ch) /\ socket[s].state # "none"
  BY <1>0, <1>1, <1>2 DEF Turns, Connections
<1>7. Turns' /\ Connections'
  <2>1. \A q \in Calls :
            \/ feed'[q] = feed[q]
            \/ /\ HasBeenActive(q) /\ (feed[q].closed => feed'[q].closed)
               /\ \E v \in Words : /\ feed'[q].held = Append(feed[q].held, v)
                                   /\ v.socket \in Sockets /\ socket[v.socket].state # "none"
    BY <1>2, <1>4, <1>6
  <2>2. UNCHANGED <<call, conn, reqMu, activeCh, socket, events>>
    BY <1>1
  <2>3. \A t \in Sockets :
            /\ listener'[t].pc = "none" => listener[t].pc = "none"
            /\ socket[t].state = "none" => listener'[t].pc = listener[t].pc
            /\ listener'[t].ch \in {listener[t].ch, activeCh, Unset}
    BY <1>3, <1>6
  <2>. QED
    BY <2>1, <2>2, <2>3, ReaderStep
<1>8. UNCHANGED <<call, socket, events, activeCh>>
  BY <1>1
<1>9. Answers'
  <2>1. \A t \in Sockets : listener'[t].pc \in {"pass", "fail"} => listener'[t] = listener[t]
    BY <1>3
  <2>. QED
    BY <1>8, <2>1, AnswersKept
<1>10. OwnWords'
  <2>. SUFFICES ASSUME NEW q \in Calls, call[q].pc \in {"send", "read"}, Undisturbed(q)
                PROVE  AllHeard(q)'
    BY <1>8 DEF OwnWords, Undisturbed, CutOff
  <2>1. AllHeard(q)
    BY <1>0 DEF OwnWords
  <2>2. PICK k \in Sockets : k = call[q].conn
    BY <1>0, SessionFacts DEF Connections
  <2>3. CASE k # s
    <3>1. listener'[k] = listener[k]
      BY <1>3, <2>3
    <3>2. CASE feed'[q] = feed[q]
      BY <1>8, <2>1, <2>2, <3>1, <3>2, StillHeard
    <3>3. CASE feed'[q] # feed[q]
      <4>1. feed'[q].held = Append(feed[q].held, w) /\ feed'[q].closed = feed[q].closed
        BY <1>4, <3>3
      <4>2. ~FromConn(q, w)
        BY <1>2, <2>2, <2>3 DEF FromConn
      <4>. QED
        BY <1>0, <1>8, <2>1, <2>2, <3>1, <4>1, <4>2, StillHeardMore
    <3>. QED
      BY <3>2, <3>3
  <2>4. CASE k = s
    <3>1. w.of = q /\ call[q].pc = "read" /\ CarriesFor(s, q)
      <4>1. CarriesFor(s, w.of)
        BY <1>1, <1>2 DEF CarriesFor
      <4>2. s = call[q].conn /\ call[q].pc \in {"activate", "send", "read"}
        BY <2>2, <2>4
      <4>3. \A d \in Calls : CarriesFor(s, d) => d = q /\ call[q].pc = "read"
        BY <4>2, AloneOnConnection
      <4>. QED
        BY <1>2, <4>1, <4>3
    <3>2. PICK h \in Seq(Words) : h = feed[q].held
      BY <1>0, SessionFacts
    <3>3. /\ ch = q /\ ~call[q].foreign
          /\ \A i \in DOMAIN h : FromConn(q, h[i]) => h[i].of = q /\ h[i].kind = "event"
          /\ ~feed[q].closed => events[q] = call[q].got + EventsHeld(q) + IF EventInHand(q) THEN 1 ELSE 0
      BY <1>2, <2>1, <2>2, <2>4, <3>1, <3>2 DEF AllHeard
    <3>4. /\ EventInHand(q) <=> IsEventOf(w, s)
          /\ ~EventInHand(q)'
          /\ ~CarriesFor(s, q)' /\ call'[q] = call[q] /\ events' = events
          /\ \A v : FromConn(q, v)' <=> FromConn(q, v)
      BY <1>1, <1>2, <1>3, <1>8, <2>2, <2>4 DEF EventInHand, IsEventOf, CarriesFor, FromConn
    <3>5. call'[q].conn = s /\ socket' = socket
      BY <1>8, <2>2, <2>4
    <3>6. CASE feed'[q] = feed[q]
      <4>1. feed[q].closed
        <5>1. HasBeenActive(q)
          BY <3>1 DEF HasBeenActive, Replied
        <5>2. activeCh = q \/ feed[q].closed
          BY <1>0, <3>1, <5>1 DEF Turns
        <5>3. feed[q].held \in Seq(Words) /\ Append(feed[q].held, w) # feed[q].held
          <6>1. feed[q].held \in Seq(Words)
            BY <3>2
          <6>2. Len(Append(feed[q].held, w)) = Len(feed[q].held) + 1 /\ Len(feed[q].held) \in Nat
            BY <6>1, AppendFacts
          <6>. QED
            BY <6>1, <6>2
        <5>. QED
          BY <1>4, <3>3, <3>6, <5>2, <5>3
      <4>. QED
        BY <3>1, <3>2, <3>3, <3>4, <3>5, <3>6, <4>1 DEF AllHeard
    <3>7. CASE feed'[q].held = Append(h, w) /\ ~feed[q].closed /\ feed'[q].closed = feed[q].closed
      <4>1. PICK n \in Nat :
                /\ n = Len(h) + 1 /\ DOMAIN h = 1..Len(h) /\ Len(h) \in Nat
                /\ DOMAIN Append(h, w) = DOMAIN h \cup {n} /\ Append(h, w)[n] = w
                /\ \A i \in DOMAIN h : Append(h, w)[i] = h[i]
        <5>1. Len(h) + 1 \in Nat
          BY <3>2
        <5>. QED
          BY <3>2, <5>1, AppendFacts
      <4>2. \A j \in DOMAIN Append(h, w) : ~(j > n)
        BY <4>1
      <4>3. EventsHeld(q)' = EventsHeld(q) + IF IsEventOf(w, s) THEN 1 ELSE 0
        <5>1. EventsHeld(q) = Cardinality(EventsOf(h, s))
              /\ EventsHeld(q)' = Cardinality(EventsOf(Append(h, w), s))
          BY <2>2, <2>4, <3>2, <3>5, <3>7 DEF EventsHeld, EventsOf
        <5>. QED
          BY <3>2, <5>1, EventsOfAppend
      <4>4. events[q] = call[q].got + EventsHeld(q)' + 0
        <5>1. EventsHeld(q) \in Nat /\ call[q].got \in Nat
          <6>1. EventsHeld(q) = Cardinality(EventsOf(h, s))
            BY <2>2, <2>4, <3>2 DEF EventsHeld, EventsOf
          <6>. QED
            BY <1>0, <3>2, <6>1, EventsAreFew, SessionFacts
        <5>2. events[q] = call[q].got + EventsHeld(q) + IF IsEventOf(w, s) THEN 1 ELSE 0
          BY <3>3, <3>4, <3>7
        <5>. QED
          BY <4>3, <5>1, <5>2
      <4>5. \A i \in DOMAIN Append(h, w) :
                FromConn(q, Append(h, w)[i]) => Append(h, w)[i].of = q /\ (i = n \/ Append(h, w)[i].kind = "event")
        BY <3>1, <3>3, <4>1
      <4>6. w.kind # "event" => \A j \in DOMAIN socket[s].owes : socket[s].owes[j] # q
        BY <1>0, <1>1, <1>2, <3>1 DEF Answers
      <4>7. \A i \in DOMAIN Append(h, w) :
                FromConn(q, Append(h, w)[i]) /\ Append(h, w)[i].kind # "event" =>
                    /\ \A j \in DOMAIN Append(h, w) : j > i => ~FromConn(q, Append(h, w)[j])
                    /\ \A j \in DOMAIN socket[s].owes : socket[s].owes[j] # q
        BY <4>1, <4>2, <4>5, <4>6
      <4>. QED
        BY <3>1, <3>3, <3>4, <3>5, <3>7, <4>4, <4>5, <4>7 DEF AllHeard
    <3>. QED
      BY <1>4, <3>2, <3>3, <3>6, <3>7
  <2>. QED
    BY <2>3, <2>4
<1>11. DoneIsOver'
  <2>1. \A t \in Sockets, q \in Calls : CarriesFor(t, q)' => CarriesFor(t, q)
    BY <1>3 DEF CarriesFor
  <2>. QED
    BY <1>8, <2>1, DoneStays
<1>. QED
  BY <1>5, <1>7, <1>9, <1>10, <1>11 DEF SessionInv
LEMMA FailActiveStep == ASSUME SessionInv, NEW s \in Sockets, FailActive(s) PROVE SessionInv'
<1> DEFINE w == [socket |-> s, of |-> Unset, kind |-> "down"]
<1>0. SessionTypeOK /\ Turns /\ Connections /\ Answers /\ OwnWords
  BY DEF SessionInv
<1>1. /\ listener[s].pc = "fail"
      /\ listener' = [listener EXCEPT ![s] = [listener[s] EXCEPT !.pc = "invalidate"]]
      /\ \/ /\ feed[listener[s].ch].closed /\ panicked' = TRUE /\ UNCHANGED <<feed, activeCh>>
         \/ /\ ~feed[listener[s].ch].closed
            /\ feed' = [feed EXCEPT ![listener[s].ch] = [held |-> Append(@.held, w), closed |-> TRUE]]
            /\ activeCh' = IF activeCh = listener[s].ch THEN Unset ELSE activeCh
            /\ UNCHANGED panicked
      /\ UNCHANGED <<kept, reqMu, conn, call, socket, events, departed>>
  BY DEF FailActive, Listening
<1>2. PICK ch \in Calls : ch = listener[s].ch
  BY <1>0, <1>1, SessionFacts DEF Answers
<1>3. /\ listener' \in [Sockets -> ListenerRecord]
      /\ listener'[s].pc = "invalidate" /\ listener'[s].ch = ch
      /\ \A t \in Sockets \ {s} : listener'[t] = listener[t]
  <2>1. listener \in [Sockets -> ListenerRecord]
    BY <1>0, SessionTypes
  <2>2. listener' = [listener EXCEPT ![s] = [listener[s] EXCEPT !.pc = "invalidate"]]
    BY <1>1
  <2>. QED
    BY <1>2, <2>1, <2>2 DEF ListenerRecord
<1>4. w \in Words /\ w.socket = s /\ w.kind = "down"
  BY DEF Words
<1>5. /\ feed' \in [Calls -> [held: Seq(Words), closed: BOOLEAN]]
      /\ \A q \in Calls \ {ch} : feed'[q] = feed[q]
      /\ \/ feed' = feed /\ activeCh' = activeCh
         \/ /\ feed'[ch].held = Append(feed[ch].held, w) /\ feed'[ch].closed
            /\ activeCh' = IF activeCh = ch THEN Unset ELSE activeCh
  <2>1. feed \in [Calls -> [held: Seq(Words), closed: BOOLEAN]]
    BY <1>0, SessionTypes
  <2>2. Append(feed[ch].held, w) \in Seq(Words)
    BY <1>4, <2>1, AppendFacts
  <2>. HIDE DEF w
  <2>3. CASE feed[ch].closed
    BY <1>1, <1>2, <2>1, <2>3
  <2>4. CASE ~feed[ch].closed
    <3>1. /\ feed' = [feed EXCEPT ![ch] = [held |-> Append(feed[ch].held, w), closed |-> TRUE]]
          /\ activeCh' = IF activeCh = ch THEN Unset ELSE activeCh
      BY <1>1, <1>2, <2>4
    <3>. QED
      BY <2>1, <2>2, <3>1
  <2>. QED
    BY <2>3, <2>4
<1>. HIDE DEF w
<1>6. SessionTypeOK'
  <2>1. panicked' \in BOOLEAN /\ activeCh' \in {Unset} \cup Calls
    BY <1>0, <1>1 DEF SessionTypeOK
  <2>. QED
    BY <1>0, <1>1, <1>3, <1>5, <2>1 DEF SessionTypeOK, ListenerRecord
<1>7. HasBeenActive(ch) /\ socket[s].state # "none"
  BY <1>0, <1>1, <1>2 DEF Turns, Connections
<1>8. Turns' /\ Connections'
  <2>1. \A q \in Calls :
            \/ feed'[q] = feed[q]
            \/ /\ HasBeenActive(q) /\ (feed[q].closed => feed'[q].closed)
               /\ \E v \in Words : /\ feed'[q].held = Append(feed[q].held, v)
                                   /\ v.socket \in Sockets /\ socket[v.socket].state # "none"
    BY <1>4, <1>5, <1>7
  <2>2. UNCHANGED <<call, conn, reqMu, socket, events>>
    BY <1>1
  <2>3. \A t \in Sockets :
            /\ listener'[t].pc = "none" => listener[t].pc = "none"
            /\ socket[t].state = "none" => listener'[t].pc = listener[t].pc
            /\ listener'[t].ch \in {listener[t].ch, activeCh, Unset}
    BY <1>2, <1>3, <1>7
  <2>4. activeCh' \in {activeCh, Unset} /\ (activeCh' # activeCh => feed'[activeCh].closed)
    BY <1>5
  <2>. QED
    BY <2>1, <2>2, <2>3, <2>4, ReaderStep
<1>9. UNCHANGED <<call, socket, events>>
  BY <1>1
<1>10. Answers'
  <2>1. \A t \in Sockets : listener'[t].pc \in {"pass", "fail"} => listener'[t] = listener[t]
    BY <1>3
  <2>. QED
    BY <1>9, <2>1, AnswersKept
<1>11. OwnWords'
  <2>. SUFFICES ASSUME NEW q \in Calls, call[q].pc \in {"send", "read"}, Undisturbed(q)
                PROVE  AllHeard(q)'
    BY <1>9 DEF OwnWords, Undisturbed, CutOff
  <2>1. AllHeard(q)
    BY <1>0 DEF OwnWords
  <2>2. PICK k \in Sockets : k = call[q].conn
    BY <1>0, SessionFacts DEF Connections
  <2>3. listener[k].pc = "pass" \/ listener'[k].pc = "pass" => listener'[k] = listener[k]
    BY <1>1, <1>3
  <2>4. CASE feed'[q] = feed[q]
    BY <1>9, <2>1, <2>2, <2>3, <2>4, StillHeard
  <2>5. CASE feed'[q] # feed[q]
    <3>1. feed'[q].held = Append(feed[q].held, w) /\ feed'[q].closed
      BY <1>5, <2>5
    <3>2. ~FromConn(q, w)
      BY <1>4 DEF FromConn
    <3>. QED
      BY <1>0, <1>4, <1>9, <2>1, <2>2, <2>3, <3>1, <3>2, StillHeardMore
  <2>. QED
    BY <2>4, <2>5
<1>12. DoneIsOver'
  <2>1. \A t \in Sockets, q \in Calls : CarriesFor(t, q)' => CarriesFor(t, q)
    BY <1>3 DEF CarriesFor
  <2>. QED
    BY <1>9, <2>1, DoneStays
<1>. QED
  BY <1>6, <1>8, <1>10, <1>11, <1>12 DEF SessionInv
LEMMA HearStep == ASSUME SessionInv, NEW s \in Sockets, Hear(s) PROVE SessionInv'
<1>0. SessionTypeOK /\ Turns /\ Connections /\ Answers /\ OwnWords /\ DoneIsOver
  BY DEF SessionInv
<1>1. PICK kind \in {"event", "completed", "error"} :
        /\ IF kind = "event"
           THEN /\ events[Head(socket[s].owes)] < MaxEvents
                /\ events' = [events EXCEPT ![Head(socket[s].owes)] = @ + 1]
                /\ UNCHANGED socket
           ELSE socket' = [socket EXCEPT ![s].owes = Tail(@)] /\ UNCHANGED events
        /\ IF activeCh = Unset THEN UNCHANGED listener
           ELSE listener' = [listener EXCEPT ![s] =
                    [pc |-> "pass", ch |-> activeCh,
                     word |-> [socket |-> s, of |-> Head(socket[s].owes), kind |-> kind]]]
  BY DEF Hear, Listening
<1>2. /\ listener[s].pc = "listen" /\ socket[s].state = "open" /\ socket[s].owes # <<>>
      /\ UNCHANGED <<kept, reqMu, conn, activeCh, call, feed, departed, panicked>>
  BY DEF Hear
<1>3. PICK o \in Seq(Calls) : o = socket[s].owes
  BY <1>0, SessionFacts
<1>4. PICK c \in Calls : c = Head(o) /\ c = o[1]
  BY <1>2, <1>3, TailFacts
<1>5. /\ call[c].conn = s /\ call[c].pc \in Replied /\ 1 \in DOMAIN o
      /\ \A i \in DOMAIN o : i # 1 => o[i] # c
  <2>1. 1 \in DOMAIN o
    BY <1>2, <1>3, TailFacts
  <2>. QED
    BY <1>0, <1>3, <1>4, <2>1 DEF Answers
<1>6. /\ events' \in [Calls -> 0..MaxEvents]
      /\ \A q \in Calls \ {c} : events'[q] = events[q]
      /\ events'[c] = events[c] + IF kind = "event" THEN 1 ELSE 0
  <2>1. events \in [Calls -> 0..MaxEvents] /\ events[c] \in Nat
    BY <1>0, SessionTypes, SessionFacts
  <2>2. CASE kind = "event"
    <3>1. events' = [events EXCEPT ![c] = events[c] + 1] /\ events[c] < MaxEvents
      BY <1>1, <1>3, <1>4, <2>2
    <3>. QED
      BY <2>1, <2>2, <3>1, SessionAssumption
  <2>3. CASE kind # "event"
    BY <1>1, <2>1, <2>3
  <2>. QED
    BY <2>2, <2>3
<1>7. /\ socket' \in [Sockets -> SocketRecord]
      /\ \A t \in Sockets : socket'[t].state = socket[t].state
      /\ \A t \in Sockets \ {s} : socket'[t] = socket[t]
      /\ socket'[s].owes = IF kind = "event" THEN o ELSE Tail(o)
  <2>1. socket \in [Sockets -> SocketRecord] /\ Tail(o) \in Seq(Calls)
    BY <1>0, <1>2, <1>3, SessionTypes, TailFacts
  <2>2. CASE kind = "event"
    BY <1>1, <1>3, <2>1, <2>2
  <2>3. CASE kind # "event"
    <3>1. socket' = [socket EXCEPT ![s].owes = Tail(o)]
      BY <1>1, <1>3, <2>3
    <3>. QED
      BY <2>1, <2>3, <3>1 DEF SocketRecord
  <2>. QED
    BY <2>2, <2>3
<1>8. PICK w \in Words : w.socket = s /\ w.of = c /\ w.kind = kind
  <2>1. [socket |-> s, of |-> c, kind |-> kind] \in Words
    BY DEF Words
  <2>. QED
    BY <2>1
<1>9. /\ listener' \in [Sockets -> ListenerRecord]
      /\ \A t \in Sockets \ {s} : listener'[t] = listener[t]
      /\ activeCh = Unset => listener'[s] = listener[s]
      /\ activeCh # Unset => /\ listener'[s].pc = "pass" /\ listener'[s].ch = activeCh
                             /\ listener'[s].word.socket = s /\ listener'[s].word.of = c
                             /\ listener'[s].word.kind = kind
  <2>1. listener \in [Sockets -> ListenerRecord] /\ activeCh \in {Unset} \cup Calls
    BY <1>0, SessionTypes
  <2>2. [socket |-> s, of |-> c, kind |-> kind] \in Words
    BY DEF Words
  <2>3. CASE activeCh = Unset
    BY <1>1, <2>1, <2>3
  <2>4. CASE activeCh # Unset
    <3>1. listener' = [listener EXCEPT ![s] =
              [pc |-> "pass", ch |-> activeCh, word |-> [socket |-> s, of |-> c, kind |-> kind]]]
      BY <1>1, <1>3, <1>4, <2>4
    <3>. QED
      BY <2>1, <2>2, <2>4, <3>1 DEF ListenerRecord
  <2>. QED
    BY <2>3, <2>4
<1>10. SessionTypeOK'
  BY <1>0, <1>2, <1>6, <1>7, <1>9 DEF SessionTypeOK, SocketRecord, ListenerRecord
<1>11. Turns' /\ Connections'
  <2>1. UNCHANGED <<call, conn, reqMu, activeCh, feed>>
    BY <1>2
  <2>2. \A q \in Calls : call[q].pc \notin Replied => events'[q] = events[q]
    BY <1>5, <1>6
  <2>3. \A t \in Sockets :
            /\ socket'[t].state = socket[t].state
            /\ socket[t].state = "none" => socket'[t].owes = socket[t].owes
            /\ listener'[t].pc = "none" => listener[t].pc = "none"
            /\ socket[t].state = "none" => listener'[t].pc = listener[t].pc
            /\ listener'[t].ch \in {listener[t].ch, activeCh, Unset}
    BY <1>2, <1>7, <1>9
  <2>. QED
    BY <2>1, <2>2, <2>3, ReaderStep
<1>12. /\ \A i \in DOMAIN socket'[s].owes : \E j \in DOMAIN o : socket'[s].owes[i] = o[j]
       /\ kind # "event" => \A i \in DOMAIN socket'[s].owes : socket'[s].owes[i] # c
       /\ \A i, j \in DOMAIN socket'[s].owes : i # j => socket'[s].owes[i] # socket'[s].owes[j]
  <2>1. \A i, j \in DOMAIN o : i # j => o[i] # o[j]
    BY <1>0, <1>3 DEF Answers
  <2>2. CASE kind = "event"
    BY <1>7, <2>1, <2>2
  <2>3. CASE kind # "event"
    <3>1. /\ socket'[s].owes = Tail(o) /\ DOMAIN Tail(o) \in SUBSET (Nat \ {0})
          /\ \A i \in DOMAIN Tail(o) : Tail(o)[i] = o[i + 1] /\ i + 1 \in DOMAIN o
      BY <1>2, <1>3, <1>7, <2>3, TailFacts
    <3>2. \A i, j \in DOMAIN Tail(o) : i + 1 # 1 /\ (i # j => i + 1 # j + 1)
      BY <3>1
    <3>. QED
      BY <1>5, <2>1, <3>1, <3>2
  <2>. QED
    BY <2>2, <2>3
<1>13. Answers'
  <2>1. ASSUME NEW t \in Sockets, NEW i \in DOMAIN socket'[t].owes
        PROVE  /\ call'[socket'[t].owes[i]].conn = t /\ call'[socket'[t].owes[i]].pc \in Replied
               /\ \A j \in DOMAIN socket'[t].owes : i # j => socket'[t].owes[i] # socket'[t].owes[j]
    <3>1. CASE t = s
      BY <1>0, <1>2, <1>3, <1>12, <2>1, <3>1 DEF Answers
    <3>2. CASE t # s
      <4>1. socket'[t] = socket[t] /\ call' = call
        BY <1>2, <1>7, <3>2
      <4>. QED
        BY <1>0, <2>1, <4>1 DEF Answers
    <3>. QED
      BY <3>1, <3>2
  <2>2. ASSUME NEW t \in Sockets, listener'[t].pc = "pass"
        PROVE  LET v == listener'[t].word IN
               /\ v # NoWord /\ v.socket = t /\ v.of # Unset /\ v.kind # "down"
               /\ call'[v.of].conn = t /\ call'[v.of].pc \in Replied
               /\ v.kind # "event" => \A i \in DOMAIN socket'[t].owes : socket'[t].owes[i] # v.of
    <3>1. CASE t = s
      <4>1. listener'[s].word.socket = s /\ listener'[s].word.of = c /\ listener'[s].word.kind = kind
        BY <1>2, <1>9, <2>2, <3>1
      <4>2. listener'[s].word # NoWord
        BY <4>1, NumbersOfCalls DEF NoWord
      <4>. QED
        BY <1>2, <1>5, <1>12, <3>1, <4>1, <4>2, NumbersOfCalls
    <3>2. CASE t # s
      <4>1. socket'[t] = socket[t] /\ listener'[t] = listener[t] /\ call' = call
        BY <1>2, <1>7, <1>9, <3>2
      <4>. QED
        BY <1>0, <2>2, <4>1 DEF Answers
    <3>. QED
      BY <3>1, <3>2
  <2>3. ASSUME NEW t \in Sockets, listener'[t].pc \in {"pass", "fail"} PROVE listener'[t].ch # Unset
    BY <1>0, <1>2, <1>9, <2>3 DEF Answers
  <2>. QED
    BY <2>1, <2>2, <2>3 DEF Answers
<1>14. OwnWords'
  <2>. SUFFICES ASSUME NEW q \in Calls, call[q].pc \in {"send", "read"}, Undisturbed(q)
                PROVE  AllHeard(q)'
    BY <1>2 DEF OwnWords, Undisturbed, CutOff
  <2>1. AllHeard(q)
    BY <1>0 DEF OwnWords
  <2>2. PICK k \in Sockets : k = call[q].conn
    BY <1>0, SessionFacts DEF Connections
  <2>3. CASE k # s
    <3>1. q # c /\ events'[q] = events[q]
      BY <1>5, <1>6, <2>2, <2>3
    <3>2. socket'[k] = socket[k] /\ listener'[k] = listener[k] /\ feed' = feed /\ call' = call
      BY <1>2, <1>7, <1>9, <2>3
    <3>. QED
      BY <2>1, <2>2, <3>1, <3>2, StillHeard
  <2>4. CASE k = s
    <3>1. q = c /\ call[q].pc = "read"
      <4>1. call[q].pc \in {"activate", "send", "read"} /\ s = call[q].conn
        BY <2>2, <2>4
      <4>2. \A i \in DOMAIN socket[s].owes : socket[s].owes[i] = q /\ call[q].pc = "read"
        BY <4>1, AloneOnConnection
      <4>. QED
        BY <1>3, <1>4, <1>5, <4>2
    <3>2. activeCh \in {Unset, q} /\ (activeCh = q \/ feed[q].closed)
      <4>1. call[q].pc \in InCall /\ HasBeenActive(q)
        BY <3>1 DEF InCall, HasBeenActive, Replied
      <4>. QED
        BY <1>0, <3>1, <4>1, InCallFacts DEF Turns
    <3>3. /\ ~call[q].foreign
          /\ \A i \in DOMAIN feed[q].held :
                FromConn(q, feed[q].held[i]) => feed[q].held[i].of = q /\ feed[q].held[i].kind = "event"
          /\ ~feed[q].closed =>
                events[q] = call[q].got + EventsHeld(q) + IF EventInHand(q) THEN 1 ELSE 0
      BY <1>3, <1>4, <1>5, <2>1, <2>2, <2>4, <3>1 DEF AllHeard
    <3>4. /\ ~EventInHand(q) /\ EventsHeld(q)' = EventsHeld(q)
          /\ \A v : FromConn(q, v)' <=> FromConn(q, v)
      BY <1>2, <2>2, <2>4 DEF EventInHand, EventsHeld, FromConn
    <3>5. call'[q].conn = s /\ call' = call /\ feed' = feed
      BY <1>2, <2>2, <2>4
    <3>6. activeCh = q => (EventInHand(q)' <=> kind = "event")
      BY <1>9, <3>1, <3>5, NumbersOfCalls DEF EventInHand
    <3>7. CarriesFor(s, q)' => listener'[s].ch = q
      BY <1>2, <1>9, <3>2 DEF CarriesFor
    <3>8. ~feed[q].closed =>
                events'[q] = call[q].got + EventsHeld(q)' + IF EventInHand(q)' THEN 1 ELSE 0
      <4>. SUFFICES ASSUME ~feed[q].closed
                    PROVE  events'[q] = call[q].got + EventsHeld(q)' + IF EventInHand(q)' THEN 1 ELSE 0
        OBVIOUS
      <4>1. EventInHand(q)' <=> kind = "event"
        BY <3>2, <3>6
      <4>2. EventsHeld(q) \in Nat /\ call[q].got \in Nat
        <5>1. EventsHeld(q) = Cardinality(EventsOf(feed[q].held, s)) /\ feed[q].held \in Seq(Words)
          BY <1>0, <2>2, <2>4, SessionFacts DEF EventsHeld, EventsOf
        <5>. QED
          BY <1>0, <5>1, EventsAreFew, SessionFacts
      <4>3. events[q] = call[q].got + EventsHeld(q) + 0
        BY <3>3, <3>4
      <4>4. events'[q] = events[q] + IF kind = "event" THEN 1 ELSE 0
        BY <1>6, <3>1
      <4>. QED
        BY <3>4, <4>1, <4>2, <4>3, <4>4
    <3>. QED
      BY <3>1, <3>3, <3>4, <3>5, <3>7, <3>8 DEF AllHeard
  <2>. QED
    BY <2>3, <2>4
<1>15. DoneIsOver'
  <2>1. ASSUME NEW q \in Calls, call[q].outcome = "done", Undisturbed(q) PROVE q # c
    <3>1. \A j \in DOMAIN o : o[j] # q
      BY <1>0, <1>3, <2>1 DEF DoneIsOver
    <3>. QED
      BY <1>4, <1>5, <3>1
  <2>2. ASSUME NEW q \in Calls, q # c, NEW t \in Sockets
        PROVE  /\ CarriesFor(t, q)' => CarriesFor(t, q)
               /\ (\E i \in DOMAIN socket'[t].owes : socket'[t].owes[i] = q) =>
                   \E i \in DOMAIN socket[t].owes : socket[t].owes[i] = q
    <3>1. CASE t = s
      BY <1>2, <1>3, <1>9, <1>12, <2>2, <3>1 DEF CarriesFor
    <3>2. CASE t # s
      <4>1. socket'[t] = socket[t] /\ listener'[t] = listener[t]
        BY <1>7, <1>9, <3>2
      <4>. QED
        BY <4>1 DEF CarriesFor
    <3>. QED
      BY <3>1, <3>2
  <2>3. \A q \in Calls : call[q].outcome = "done" /\ Undisturbed(q) => events'[q] = events[q]
    BY <1>6, <2>1
  <2>4. \A t \in Sockets, q \in Calls : call[q].outcome = "done" /\ Undisturbed(q) =>
            /\ CarriesFor(t, q)' => CarriesFor(t, q)
            /\ (\E i \in DOMAIN socket'[t].owes : socket'[t].owes[i] = q) =>
                \E i \in DOMAIN socket[t].owes : socket[t].owes[i] = q
    BY <2>1, <2>2
  <2>. QED
    BY <1>2, <2>3, <2>4, DoneStays
<1>. QED
  BY <1>10, <1>11, <1>13, <1>14, <1>15 DEF SessionInv

-----------------------------------------------------------------------------
(* UpstreamSession: the theorems.                                          *)

\* The parts of SessionInv hold of every reachable state of a session, for any number
\* of calls, of connections and of events: the turns the calls take, who has which
\* connection, what upstream owes and sends over it, and what a call has heard of it.
THEOREM SessionInvariance == SessionSpec => []SessionInv
<1>1. SessionInit => SessionInv
  <2>. SUFFICES ASSUME SessionInit PROVE SessionInv
    OBVIOUS
  <2>1. \A c \in Calls : /\ call[c].pc = "new" /\ call[c].conn = Unset /\ ~call[c].again
                         /\ call[c].outcome = "none" /\ call[c].got = 0 /\ ~call[c].foreign
                         /\ feed[c].held = <<>> /\ ~feed[c].closed /\ events[c] = 0
    BY DEF SessionInit
  <2>2. \A s \in Sockets : /\ socket[s].state = "none" /\ socket[s].owes = <<>>
                           /\ listener[s].pc = "none" /\ listener[s].ch = Unset
    BY DEF SessionInit
  <2>3. SessionTypeOK
    <3>1. /\ call \in [Calls -> CallRecord]
          /\ feed \in [Calls -> [held: Seq(Words), closed: BOOLEAN]]
          /\ socket \in [Sockets -> SocketRecord] /\ listener \in [Sockets -> ListenerRecord]
          /\ events \in [Calls -> 0..MaxEvents]
      BY SessionAssumption DEF SessionInit, CallRecord, SocketRecord, ListenerRecord, Outcomes
    <3>. QED
      BY <3>1, SessionTypes DEF SessionInit
  <2>4. \A c \in Calls : ~HasBeenActive(c)
    BY <2>1 DEF HasBeenActive, Replied
  <2>5. Turns
    BY <2>1, <2>2, <2>4, NumbersOfCalls DEF Turns, InCall, SessionInit
  <2>6. Connections
    BY <2>1, <2>2, <2>4, NumbersOfCalls DEF Connections, SessionInit
  <2>7. Answers
    BY <2>2 DEF Answers
  <2>8. OwnWords /\ DoneIsOver
    BY <2>1 DEF OwnWords, DoneIsOver
  <2>. QED
    BY <2>3, <2>5, <2>6, <2>7, <2>8 DEF SessionInv
<1>2. SessionInv /\ [SessionNext]_sessionVars => SessionInv'
  <2>. SUFFICES ASSUME SessionInv, [SessionNext]_sessionVars PROVE SessionInv'
    OBVIOUS
  <2>1. ASSUME NEW c \in Calls, Come(c) \/ Executes(c) PROVE SessionInv'
    <3>1. CASE SendFails(c)
      BY <3>1, SendAgainStep, EndingSteps
    <3>2. CASE Come(c) \/ TakeTurn(c) \/ Ensure(c) \/ Dial(c) \/ DialFails(c) \/ Refused(c)
      BY <3>2, ComeStep, TakeTurnStep, EnsureStep, DialStep, EndingSteps, RefusedStep
    <3>3. CASE Activate(c) \/ SendBody(c) \/ ReadWord(c)
      BY <3>3, ActivateStep, SendBodyStep, ReadWordStep
    <3>4. CASE ReadClosed(c) \/ GiveUpCall(c) \/ GiveTurn(c)
      BY <3>4, EndingSteps, GiveTurnStep
    <3>. QED
      BY <2>1, <3>1, <3>2, <3>3, <3>4 DEF Executes
  <2>2. ASSUME NEW s \in Sockets, Listen(s) \/ Drop(s) PROVE SessionInv'
    BY <2>2, HearStep, PassOnStep, HearEndStep, FailActiveStep, ForsakeStep, DropStep DEF Listen
  <2>3. CASE Depart \/ CloseSession
    BY <2>3, DepartStep, CloseSessionStep
  <2>4. CASE UNCHANGED sessionVars
    <3>1. UNCHANGED <<kept, reqMu, conn, activeCh, call, feed, socket, listener, events, departed, panicked>>
      BY <2>4 DEF sessionVars
    <3>2. SessionTypeOK'
      BY <3>1 DEF SessionInv, SessionTypeOK
    <3>3. Answers
      BY DEF SessionInv
    <3>. QED
      BY <3>1, <3>2, <3>3, StaysFades, ConnectionStep DEF Answers
  <2>. QED
    BY <2>1, <2>2, <2>3, <2>4 DEF SessionNext
<1>. QED
  BY <1>1, <1>2, PTL DEF SessionSpec

\* A call that ends well has the whole of its own answer and nothing of another's,
\* unless an earlier call was cut off on the connection the two share.
THEOREM AnswersAreOwn == SessionSpec => []SessionAnswerIsOwn
<1>1. SessionInv => SessionAnswerIsOwn
  BY DEF SessionInv, DoneIsOver, Undisturbed, SessionAnswerIsOwn
<1>. QED
  BY <1>1, SessionInvariance, PTL

-----------------------------------------------------------------------------
(* UpstreamSession: no call is stranded.                                   *)

UnderWay == {"ensure", "dial", "activate", "send", "read", "ending"}

\* Who has the turn is under way or was refused.
TurnIsUsed == reqMu # Unset => call[reqMu].pc \in UnderWay \/ call[reqMu].outcome = "refused"

\* A reader that was given a channel at the end of its connection closed it, and each
\* connection has its reader.
EndIsTold ==
    \A s \in Sockets :
        /\ listener[s].pc \in {"invalidate", "gone"} /\ listener[s].ch # Unset =>
              feed[listener[s].ch].closed
        /\ listener[s].pc = "none" => socket[s].state = "none"

\* A reader that has seen the end of its connection was given the channel of the call
\* that uses it, unless that call came late or its channel was closed already.
EndIsHeard ==
    \A c \in Calls :
        call[c].pc \in {"send", "read"} /\ ~call[c].late /\ SawEnd(call[c].conn) =>
            listener[call[c].conn].ch = c \/ feed[c].closed

LEMMA StrandedGives == SessionInv /\ TurnIsUsed /\ EndIsTold /\ EndIsHeard => NoCallIsStranded
<1>. SUFFICES ASSUME SessionInv, TurnIsUsed, EndIsTold, EndIsHeard PROVE NoCallIsStranded
  OBVIOUS
<1>0. SessionTypeOK /\ Connections
  BY DEF SessionInv
<1>1. ASSUME NEW c \in Calls, call[c].pc = "read"
      PROVE  LET l == listener[call[c].conn] IN
             l.pc \in {"listen", "pass"} \/ (l.pc = "fail" /\ l.ch = c) \/ feed[c].closed
                 \/ call[c].late
  <2>. DEFINE s == call[c].conn
  <2>1. s \in Sockets
    BY <1>0, <1>1, SessionFacts DEF Connections
  <2>2. listener[s].pc # "none"
    BY <1>0, <2>1 DEF Connections, EndIsTold
  <2>3. listener[s].pc \in {"none", "listen", "pass", "fail", "invalidate", "gone"}
    BY <1>0, <2>1, SessionTypes DEF ListenerRecord
  <2>4. c # Unset
    BY NumbersOfCalls
  <2>5. listener[s].pc \in {"invalidate", "gone"} /\ listener[s].ch = c => feed[c].closed
    BY <2>1, <2>4 DEF EndIsTold
  <2>6. ~call[c].late /\ listener[s].pc \in {"fail", "invalidate", "gone"} =>
            listener[s].ch = c \/ feed[c].closed
    BY <1>1 DEF EndIsHeard, SawEnd
  <2>. QED
    BY <2>2, <2>3, <2>5, <2>6
<1>. QED
  BY <1>1 DEF NoCallIsStranded, TurnIsUsed, UnderWay

\* The steps of the calls and the turn.
LEMMA TurnUsed ==
    ASSUME SessionInv, TurnIsUsed, NEW c \in Calls, Come(c) \/ Executes(c)
    PROVE  TurnIsUsed'
<1>0. SessionTypeOK /\ Turns /\ call \in [Calls -> CallRecord] /\ reqMu \in {Unset} \cup Calls
  BY SessionTypes DEF SessionInv
<1>1. CASE Come(c)
  <2>1. call[c].pc = "new" /\ reqMu' = reqMu /\ \A d \in Calls : d # c => call'[d] = call[d]
    BY <1>0, <1>1 DEF Come, Moves
  <2>2. call[c].outcome = "none"
    BY <1>0, <2>1 DEF Turns
  <2>3. reqMu # Unset => reqMu # c
    BY <2>1, <2>2 DEF TurnIsUsed, UnderWay
  <2>. QED
    BY <1>0, <2>1, <2>3 DEF TurnIsUsed
<1>2. CASE TakeTurn(c)
  BY <1>0, <1>2 DEF TakeTurn, Moves, TurnIsUsed, UnderWay, CallRecord
<1>3. CASE GiveTurn(c)
  BY <1>3 DEF GiveTurn, TurnIsUsed
<1>4. CASE Ensure(c) \/ Dial(c) \/ DialFails(c) \/ Refused(c) \/ Activate(c) \/ SendBody(c)
           \/ SendFails(c) \/ ReadWord(c) \/ ReadClosed(c) \/ GiveUpCall(c)
  <2>1. reqMu' = reqMu
    BY <1>4 DEF Ensure, Dial, DialFails, Refused, Activate, SendBody, SendFails, ReadWord,
                ReadClosed, GiveUpCall
  <2>2. /\ \A d \in Calls : d # c => call'[d] = call[d]
        /\ call'[c].pc \in UnderWay \/ call'[c].outcome = "refused"
    <3>1. CASE Ensure(c)
      BY <1>0, <3>1 DEF Ensure, Connected, UnderWay, CallRecord
    <3>2. CASE Dial(c)
      BY <1>0, <3>2 DEF Dial, Connected, UnderWay, CallRecord
    <3>3. CASE DialFails(c) \/ Refused(c) \/ ReadClosed(c) \/ GiveUpCall(c)
      BY <1>0, <3>3 DEF DialFails, Refused, ReadClosed, GiveUpCall, Ended, UnderWay, CallRecord
    <3>4. CASE Activate(c) \/ SendBody(c)
      BY <1>0, <3>4 DEF Activate, SendBody, Moves, UnderWay, CallRecord
    <3>5. CASE SendFails(c)
      BY <1>0, <3>5 DEF SendFails, Ended, UnderWay, CallRecord
    <3>6. CASE ReadWord(c)
      <4>. DEFINE heard == [call EXCEPT ![c].got = @ + 1, ![c].foreign = @ \/ Head(feed[c].held).of # c]
      <4>1. call[c].pc = "read"
        BY <3>6 DEF ReadWord
      <4>2. call' \in {call, heard, [heard EXCEPT ![c].pc = "ending", ![c].outcome = "done"],
                       Ended(c, "failed")}
        BY <3>6 DEF ReadWord
      <4>3. /\ \A d \in Calls : d # c => heard[d] = call[d]
            /\ heard[c].pc = "read"
        BY <1>0, <4>1 DEF CallRecord
      <4>4. CASE call' = [heard EXCEPT ![c].pc = "ending", ![c].outcome = "done"]
        BY <1>0, <4>4 DEF UnderWay, CallRecord
      <4>5. CASE call' = heard \/ call' = call
        BY <4>1, <4>3, <4>5 DEF UnderWay
      <4>6. CASE call' = Ended(c, "failed")
        BY <1>0, <4>6 DEF Ended, UnderWay, CallRecord
      <4>. QED
        BY <4>2, <4>4, <4>5, <4>6
    <3>. QED
      BY <1>4, <3>1, <3>2, <3>3, <3>4, <3>5, <3>6
  <2>. QED
    BY <1>0, <2>1, <2>2 DEF TurnIsUsed
<1>. QED
  BY <1>1, <1>2, <1>3, <1>4 DEF Executes

\* What the readers have told stays told, as long as they and the channels stay.
LEMMA ToldStays ==
    ASSUME SessionInv, EndIsTold, listener' = listener,
           \A c \in Calls : feed[c].closed => feed'[c].closed,
           \A s \in Sockets : socket[s].state = "none" => socket'[s].state = "none"
    PROVE  EndIsTold'
<1>1. \A s \in Sockets : listener[s].ch # Unset => listener[s].ch \in Calls
  BY SessionFacts DEF SessionInv
<1>. QED
  BY <1>1 DEF EndIsTold

\* The steps of the calls.
LEMMA CallsTold ==
    ASSUME SessionInv, EndIsTold, NEW c \in Calls, Come(c) \/ Executes(c)
    PROVE  EndIsTold'
<1>0. /\ SessionTypeOK /\ Connections /\ call \in [Calls -> CallRecord]
      /\ feed \in [Calls -> [held: Seq(Words), closed: BOOLEAN]]
      /\ socket \in [Sockets -> SocketRecord] /\ listener \in [Sockets -> ListenerRecord]
  BY SessionTypes DEF SessionInv
<1>1. CASE Dial(c)
  <2>1. PICK s \in Sockets :
           /\ socket[s].state = "none" /\ socket' = [socket EXCEPT ![s].state = "open"]
           /\ listener' = [listener EXCEPT ![s].pc = "listen"]
    BY <1>1 DEF Dial
  <2>2. feed' = feed
    BY <1>1 DEF Dial
  <2>3. listener'[s].pc = "listen" /\ \A t \in Sockets : t # s => listener'[t] = listener[t]
                                                             /\ socket'[t] = socket[t]
    BY <1>0, <2>1 DEF ListenerRecord
  <2>. QED
    BY <2>2, <2>3 DEF EndIsTold
<1>2. CASE SendFails(c) \/ ReadWord(c)
  <2>1. listener' = listener
    BY <1>2 DEF SendFails, ReadWord
  <2>2. \A d \in Calls : feed'[d].closed = feed[d].closed
    BY <1>0, <1>2, SMTT(30) DEF SendFails, ReadWord
  <2>3. UNCHANGED <<conn, socket>> \/ Invalidated(call[c].conn)
    BY <1>2 DEF SendFails, ReadWord
  <2>4. \A s \in Sockets : socket[s].state = "none" => socket'[s].state = "none"
    <3>1. call[c].conn \in Sockets
      BY <1>0, <1>2, SessionFacts DEF Connections, SendFails, ReadWord
    <3>. QED
      BY <2>3, <3>1, InvalidatedFades, StaysFades DEF Fades
  <2>. QED
    BY <2>1, <2>2, <2>4, ToldStays
<1>3. CASE SendBody(c)
  <2>1. listener' = listener /\ feed' = feed
    BY <1>3 DEF SendBody
  <2>2. \A s \in Sockets : socket'[s].state = socket[s].state
    BY <1>0, <1>3 DEF SendBody, SocketRecord
  <2>. QED
    BY <2>1, <2>2, ToldStays
<1>4. CASE Come(c) \/ TakeTurn(c) \/ Ensure(c) \/ DialFails(c) \/ Refused(c) \/ Activate(c)
           \/ ReadClosed(c) \/ GiveUpCall(c) \/ GiveTurn(c)
  <2>1. UNCHANGED <<listener, feed, socket>>
    BY <1>4 DEF Come, TakeTurn, Ensure, DialFails, Refused, Activate, ReadClosed, GiveUpCall, GiveTurn
  <2>. QED
    BY <2>1, ToldStays
<1>. QED
  BY <1>1, <1>2, <1>3, <1>4 DEF Executes

\* The steps of the readers.
LEMMA ReadersTold ==
    ASSUME SessionInv, EndIsTold, NEW s \in Sockets, Listen(s)
    PROVE  EndIsTold'
<1>0. /\ SessionTypeOK /\ Connections
      /\ feed \in [Calls -> [held: Seq(Words), closed: BOOLEAN]]
      /\ socket \in [Sockets -> SocketRecord] /\ listener \in [Sockets -> ListenerRecord]
      /\ \A t \in Sockets : listener[t].ch # Unset => listener[t].ch \in Calls
  BY SessionTypes, SessionFacts DEF SessionInv
<1>1. /\ \A t \in Sockets \ {s} : listener'[t] = listener[t]
      /\ listener[s].pc \in {"listen", "pass", "fail", "invalidate"}
      /\ listener'[s].pc # "none"
  <2>1. CASE Hear(s)
    BY <1>0, <2>1 DEF Hear, Listening
  <2>2. CASE PassOn(s)
    BY <1>0, <2>2 DEF PassOn, Listening, Listens
  <2>3. CASE HearEnd(s) \/ FailActive(s) \/ Forsake(s)
    BY <1>0, <2>3 DEF HearEnd, FailActive, Forsake, Listening, ListenerRecord
  <2>. QED
    BY <2>1, <2>2, <2>3 DEF Listen
<1>2. \A c \in Calls : feed[c].closed => feed'[c].closed
  BY <1>0 DEF Listen, Hear, PassOn, HearEnd, FailActive, Forsake
<1>3. \A t \in Sockets : socket[t].state = "none" => socket'[t].state = "none"
  <2>1. CASE Forsake(s)
    BY <2>1, InvalidatedFades DEF Forsake, Fades
  <2>2. CASE Hear(s)
    BY <1>0, <2>2 DEF Hear, SocketRecord
  <2>3. CASE PassOn(s) \/ HearEnd(s) \/ FailActive(s)
    BY <2>3 DEF PassOn, HearEnd, FailActive
  <2>. QED
    BY <2>1, <2>2, <2>3 DEF Listen
<1>4. listener'[s].pc \in {"invalidate", "gone"} /\ listener'[s].ch # Unset =>
          feed'[listener'[s].ch].closed
  <2>1. CASE Hear(s) \/ PassOn(s)
    BY <1>0, <2>1 DEF Hear, PassOn, Listening, Listens
  <2>2. CASE HearEnd(s)
    BY <1>0, <2>2 DEF HearEnd, Listening
  <2>3. CASE FailActive(s)
    <3>1. listener[s].ch # Unset
      BY <2>3 DEF FailActive, SessionInv, Answers
    <3>2. feed'[listener[s].ch].closed
      BY <1>0, <2>3, <3>1 DEF FailActive
    <3>3. listener'[s].ch = listener[s].ch
      BY <1>0, <2>3 DEF FailActive, Listening, ListenerRecord
    <3>. QED
      BY <3>2, <3>3
  <2>4. CASE Forsake(s)
    <3>1. listener'[s].ch = listener[s].ch /\ feed' = feed /\ listener[s].pc = "invalidate"
      BY <1>0, <2>4 DEF Forsake, Listening, ListenerRecord
    <3>. QED
      BY <3>1 DEF EndIsTold
  <2>. QED
    BY <2>1, <2>2, <2>3, <2>4 DEF Listen
<1>. QED
  BY <1>0, <1>1, <1>2, <1>3, <1>4 DEF EndIsTold

\* A call that sends or reads goes on with the connection it has, and the readers and
\* the channels stay: what was heard stays.
LEMMA HeardStays ==
    ASSUME EndIsHeard, listener' = listener,
           \A c \in Calls : feed[c].closed => feed'[c].closed,
           \A c \in Calls : call'[c].pc \in {"send", "read"} =>
              /\ call[c].pc \in {"send", "read"}
              /\ call'[c].conn = call[c].conn /\ call'[c].late = call[c].late
    PROVE  EndIsHeard'
BY DEF EndIsHeard, SawEnd

\* The steps of the calls.
LEMMA CallsHeard ==
    ASSUME SessionInv, EndIsHeard, NEW c \in Calls, Come(c) \/ Executes(c)
    PROVE  EndIsHeard'
<1>0. /\ SessionTypeOK /\ Connections /\ call \in [Calls -> CallRecord]
      /\ feed \in [Calls -> [held: Seq(Words), closed: BOOLEAN]]
      /\ listener \in [Sockets -> ListenerRecord]
  BY SessionTypes DEF SessionInv
<1>1. CASE Dial(c)
  <2>1. PICK s \in Sockets :
           /\ socket[s].state = "none" /\ listener' = [listener EXCEPT ![s].pc = "listen"]
           /\ call' = [call EXCEPT ![c].pc = Connected(c), ![c].conn = s, ![c].late = FALSE]
    BY <1>1 DEF Dial
  <2>2. feed' = feed
    BY <1>1 DEF Dial
  <2>3. listener'[s].pc = "listen" /\ \A t \in Sockets : t # s => listener'[t] = listener[t]
    BY <1>0, <2>1 DEF ListenerRecord
  <2>4. call'[c].conn = s /\ \A d \in Calls : d # c => call'[d] = call[d]
    BY <1>0, <2>1 DEF CallRecord
  <2>5. \A d \in Calls : d # c => call[d].conn # s
    BY <1>0, <2>1 DEF Connections
  <2>6. \A d \in Calls : d # c /\ call[d].pc \in {"send", "read"} => call[d].conn \in Sockets
    BY <1>0, SessionFacts DEF Connections
  <2>7. ASSUME NEW d \in Calls, d # c, call'[d].pc \in {"send", "read"}, ~call'[d].late,
               SawEnd(call[d].conn)'
        PROVE  listener'[call'[d].conn].ch = d \/ feed'[d].closed
    <3>1. call'[d] = call[d] /\ listener'[call[d].conn] = listener[call[d].conn]
      BY <2>3, <2>4, <2>5, <2>6, <2>7
    <3>2. SawEnd(call[d].conn)
      BY <2>7, <3>1 DEF SawEnd
    <3>. QED
      BY <2>2, <2>7, <3>1, <3>2 DEF EndIsHeard
  <2>8. ~SawEnd(call[c].conn)'
    BY <2>3, <2>4 DEF SawEnd
  <2>. QED
    BY <2>7, <2>8 DEF EndIsHeard
<1>2. CASE Activate(c)
  <2>1. /\ call' = [call EXCEPT ![c].pc = "send", ![c].late = SawEnd(call[c].conn)]
        /\ UNCHANGED <<listener, feed>>
    BY <1>2 DEF Activate
  <2>2. /\ call'[c].conn = call[c].conn /\ call'[c].late = SawEnd(call[c].conn)
        /\ \A d \in Calls : d # c => call'[d] = call[d]
    BY <1>0, <2>1 DEF CallRecord
  <2>. QED
    BY <2>1, <2>2 DEF EndIsHeard, SawEnd
<1>3. CASE ~Dial(c) /\ ~Activate(c)
  <2>1. listener' = listener
    BY <1>3 DEF Come, Executes, TakeTurn, Ensure, DialFails, Refused, SendBody, SendFails,
                ReadWord, ReadClosed, GiveUpCall, GiveTurn
  <2>2. \A d \in Calls : feed'[d].closed = feed[d].closed
    <3>1. CASE ReadWord(c)
      BY <1>0, <3>1, SMTT(30) DEF ReadWord
    <3>2. CASE ~ReadWord(c)
      <4>1. feed' = feed
        BY <1>3, <3>2 DEF Come, Executes, TakeTurn, Ensure, DialFails, Refused, SendBody, SendFails,
                          ReadClosed, GiveUpCall, GiveTurn
      <4>. QED
        BY <4>1
    <3>. QED
      BY <3>1, <3>2
  <2>3. ASSUME NEW d \in Calls, d # c PROVE call'[d] = call[d]
    <3>1. CASE ReadWord(c)
      BY <1>0, <2>3, <3>1, SMTT(30) DEF ReadWord, Ended, CallRecord
    <3>2. CASE SendFails(c)
      BY <1>0, <2>3, <3>2 DEF SendFails, Ended, CallRecord
    <3>3. CASE ~ReadWord(c) /\ ~SendFails(c)
      BY <1>0, <1>3, <2>3, <3>3 DEF Come, Executes, TakeTurn, Ensure, DialFails, Refused, SendBody,
                          ReadClosed, GiveUpCall, GiveTurn, Moves, Ended, CallRecord
    <3>. QED
      BY <3>1, <3>2, <3>3
  <2>4. call'[c].pc \in {"send", "read"} =>
            /\ call[c].pc \in {"send", "read"}
            /\ call'[c].conn = call[c].conn /\ call'[c].late = call[c].late
    <3>1. CASE ReadWord(c)
      <4>. DEFINE heard == [call EXCEPT ![c].got = @ + 1, ![c].foreign = @ \/ Head(feed[c].held).of # c]
      <4>1. call' \in {call, heard, [heard EXCEPT ![c].pc = "ending", ![c].outcome = "done"],
                       Ended(c, "failed")}
        BY <3>1 DEF ReadWord
      <4>2. heard[c].pc = call[c].pc /\ heard[c].conn = call[c].conn /\ heard[c].late = call[c].late
        BY <1>0 DEF CallRecord
      <4>3. CASE call' = [heard EXCEPT ![c].pc = "ending", ![c].outcome = "done"]
        BY <1>0, <4>3 DEF CallRecord
      <4>4. CASE call' = Ended(c, "failed")
        BY <1>0, <4>4 DEF Ended, CallRecord
      <4>. QED
        BY <4>1, <4>2, <4>3, <4>4
    <3>2. CASE SendBody(c)
      BY <1>0, <3>2 DEF SendBody, Moves, CallRecord
    <3>3. CASE Ensure(c)
      BY <1>0, <3>3 DEF Ensure, Connected, Connections, CallRecord
    <3>4. CASE SendFails(c)
      BY <1>0, <3>4 DEF SendFails, Ended, CallRecord
    <3>5. CASE Come(c) \/ TakeTurn(c) \/ DialFails(c) \/ Refused(c) \/ ReadClosed(c)
               \/ GiveUpCall(c) \/ GiveTurn(c)
      BY <1>0, <3>5 DEF Come, TakeTurn, DialFails, Refused, ReadClosed, GiveUpCall, GiveTurn, Moves,
                        Ended, CallRecord
    <3>. QED
      BY <1>3, <3>1, <3>2, <3>3, <3>4, <3>5 DEF Executes
  <2>. QED
    BY <2>1, <2>2, <2>3, <2>4, HeardStays
<1>. QED
  BY <1>1, <1>2, <1>3

\* The steps of the readers.
LEMMA ReadersHeard ==
    ASSUME SessionInv, EndIsHeard, NEW s \in Sockets, Listen(s)
    PROVE  EndIsHeard'
<1>0. /\ SessionTypeOK /\ Turns /\ Connections
      /\ feed \in [Calls -> [held: Seq(Words), closed: BOOLEAN]]
      /\ listener \in [Sockets -> ListenerRecord]
  BY SessionTypes DEF SessionInv
<1>1. call' = call
  BY DEF Listen, Hear, PassOn, HearEnd, FailActive, Forsake
<1>2. \A c \in Calls : feed[c].closed => feed'[c].closed
  BY <1>0 DEF Listen, Hear, PassOn, HearEnd, FailActive, Forsake
<1>3. \A t \in Sockets \ {s} : listener'[t] = listener[t]
  BY <1>0 DEF Listen, Hear, PassOn, HearEnd, FailActive, Forsake, Listening
<1>4. ASSUME NEW c \in Calls, call[c].pc \in {"send", "read"}, ~call[c].late, call[c].conn = s,
             SawEnd(s)'
      PROVE  listener'[s].ch = c \/ feed'[c].closed
  <2>1. CASE Hear(s) \/ PassOn(s)
    BY <1>0, <1>4, <2>1 DEF Hear, PassOn, Listening, Listens, SawEnd
  <2>2. CASE HearEnd(s)
    <3>1. activeCh = c \/ feed[c].closed
      BY <1>0, <1>4 DEF Turns, HasBeenActive, Replied
    <3>2. listener'[s].ch = activeCh
      BY <1>0, <2>2 DEF HearEnd, Listening
    <3>. QED
      BY <1>2, <3>1, <3>2
  <2>3. CASE FailActive(s) \/ Forsake(s)
    <3>1. listener'[s].ch = listener[s].ch /\ SawEnd(s)
      BY <1>0, <2>3 DEF FailActive, Forsake, Listening, ListenerRecord, SawEnd
    <3>. QED
      BY <1>2, <1>4, <3>1 DEF EndIsHeard
  <2>. QED
    BY <2>1, <2>2, <2>3 DEF Listen
<1>5. \A c \in Calls : call[c].pc \in {"send", "read"} => call[c].conn \in Sockets
  BY <1>0, SessionFacts DEF Connections
<1>. QED
  BY <1>1, <1>2, <1>3, <1>4, <1>5 DEF EndIsHeard, SawEnd

\* No call is stranded: the turn is with one that goes on, or was refused, and a call
\* that reads, unless it came late, is told the end of its connection by the reader that
\* was given its channel.
THEOREM NoneStranded == SessionSpec => []NoCallIsStranded
<1>. DEFINE Extra == TurnIsUsed /\ EndIsTold /\ EndIsHeard
<1>1. SessionInit => Extra
  BY DEF SessionInit, TurnIsUsed, EndIsTold, EndIsHeard
<1>2. SessionInv /\ Extra /\ [SessionNext]_sessionVars => Extra'
  <2>. SUFFICES ASSUME SessionInv, TurnIsUsed, EndIsTold, EndIsHeard, [SessionNext]_sessionVars
                PROVE  TurnIsUsed' /\ EndIsTold' /\ EndIsHeard'
    OBVIOUS
  <2>1. ASSUME NEW c \in Calls, Come(c) \/ Executes(c) PROVE TurnIsUsed' /\ EndIsTold' /\ EndIsHeard'
    BY <2>1, TurnUsed, CallsTold, CallsHeard
  <2>2. ASSUME NEW s \in Sockets, Listen(s) PROVE TurnIsUsed' /\ EndIsTold' /\ EndIsHeard'
    <3>1. UNCHANGED <<reqMu, call>>
      BY <2>2 DEF Listen, Hear, PassOn, HearEnd, FailActive, Forsake
    <3>. QED
      BY <2>2, <3>1, ReadersTold, ReadersHeard DEF TurnIsUsed
  <2>3. ASSUME NEW s \in Sockets, Drop(s) PROVE TurnIsUsed' /\ EndIsTold' /\ EndIsHeard'
    <3>1. UNCHANGED <<reqMu, call, listener, feed>>
      BY <2>3 DEF Drop
    <3>2. \A t \in Sockets : socket[t].state = "none" => socket'[t].state = "none"
      BY <2>3, SessionTypes DEF Drop, SessionInv, SocketRecord
    <3>. QED
      BY <3>1, <3>2, ToldStays, HeardStays DEF TurnIsUsed
  <2>4. CASE Depart
    <3>1. UNCHANGED <<reqMu, call, listener, feed, socket>>
      BY <2>4 DEF Depart
    <3>. QED
      BY <3>1, ToldStays, HeardStays DEF TurnIsUsed
  <2>5. CASE CloseSession
    <3>1. UNCHANGED <<reqMu, call, listener, feed>>
      BY <2>5 DEF CloseSession
    <3>2. \A t \in Sockets : socket[t].state = "none" => socket'[t].state = "none"
      BY <2>5, SessionTypes DEF CloseSession, SessionInv, SocketRecord, Shut, Connections
    <3>. QED
      BY <3>1, <3>2, ToldStays, HeardStays DEF TurnIsUsed
  <2>6. CASE UNCHANGED sessionVars
    <3>1. UNCHANGED <<reqMu, call, listener, feed, socket>>
      BY <2>6 DEF sessionVars
    <3>. QED
      BY <3>1, ToldStays, HeardStays DEF TurnIsUsed
  <2>. QED
    BY <2>1, <2>2, <2>3, <2>4, <2>5, <2>6 DEF SessionNext
<1>3. SessionInv /\ Extra => NoCallIsStranded
  BY StrandedGives
<1>. QED
  BY <1>1, <1>2, <1>3, SessionInvariance, PTL DEF SessionSpec

=============================================================================
