--------------------------- MODULE WebSocketRelay ---------------------------
(***************************************************************************)
(* The requests of one websocket session (internal/wsrelay/session.go and  *)
(* http.go).                                                               *)
(*                                                                         *)
(* A request is entered in the session's pending map and written to the    *)
(* peer; its answer, some chunks and an end or an error, goes through a    *)
(* small buffered channel.  The session's reader fills the channels, a     *)
(* goroutine of each request removes it when its context is done, and one  *)
(* cleanup, from the reader, the heartbeat or Stop, ends what is pending.  *)
(* The reader and the cleanup look a request up and send to its channel    *)
(* afterwards: a send on a channel closed meanwhile is a panic, in a       *)
(* goroutine that recovers from none.                                      *)
(***************************************************************************)
EXTENDS Naturals, Sequences

CONSTANTS
    Requests,
    Buffer,      \* of a request's channel: 8
    Longest      \* bound: chunks of an answer

ASSUME RelayAssumption == Buffer \in Nat \ {0} /\ Longest \in Nat

VARIABLES
    session,      \* "open", "closing" once closed is closed, "gone" with its map
    waiting,      \* pending
    late,         \* entered while the cleanup goes through the map: it may miss them
    cleaned,      \* what the cleanup has been through
    client,       \* per request, who asked for it
    channel,      \* per request
    peer,         \* per request, what the peer has sent that was read
    lost,         \* requests of which a message found the channel full
    gaveUp,       \* requests whose context is done
    reader, cleaner,  \* the message in hand
    crashed       \* a panic ended the process

relayVars == <<session, waiting, late, cleaned, client, channel, peer, lost, gaveUp, reader,
               cleaner, crashed>>

NoMessage == [kind |-> "none"]
Kinds == {"chunk", "end", "error"}
Ends(kind) == kind \in {"end", "error"}
Finished == {"done", "failed", "left"}

RelayTypeOK ==
    /\ session \in {"open", "closing", "gone"}
    /\ waiting \subseteq Requests /\ late \subseteq Requests /\ cleaned \subseteq Requests
    /\ client \in [Requests -> [step: {"new", "entered", "found", "waits"} \cup Finished,
                                stream: BOOLEAN, got: 0..Longest]]
    /\ channel \in [Requests -> [held: UNION {[1..n -> Kinds] : n \in 0..Buffer}, closed: BOOLEAN]]
    /\ peer \in [Requests -> [sent: 0..Longest, ended: BOOLEAN]]
    /\ lost \subseteq Requests /\ gaveUp \subseteq Requests
    /\ reader \in [kind: Kinds, to: Requests, sent: BOOLEAN] \cup {NoMessage}
    /\ cleaner \in [kind: {"error"}, to: Requests] \cup {NoMessage}
    /\ crashed \in BOOLEAN

RelayInit ==
    /\ session = "open" /\ waiting = {} /\ late = {} /\ cleaned = {}
    /\ client \in [Requests -> [step: {"new"}, stream: BOOLEAN, got: {0}]]
    /\ channel = [r \in Requests |-> [held |-> <<>>, closed |-> FALSE]]
    /\ peer = [r \in Requests |-> [sent |-> 0, ended |-> FALSE]]
    /\ lost = {} /\ gaveUp = {}
    /\ reader = NoMessage /\ cleaner = NoMessage /\ crashed = FALSE

Closed(r) == channel' = [channel EXCEPT ![r].closed = TRUE]
Becomes(r, next) == client' = [client EXCEPT ![r].step = next]

\* LoadAndDelete, and the close if it was there.
Removed(r) ==
    IF r \in waiting THEN waiting' = waiting \ {r} /\ Closed(r) ELSE UNCHANGED <<waiting, channel>>

-----------------------------------------------------------------------------
(* request.                                                                *)

Enter(r) ==
    /\ client[r].step = "new" /\ Becomes(r, "entered")
    /\ waiting' = waiting \cup {r}
    /\ late' = IF session = "closing" THEN late \cup {r} ELSE late
    /\ UNCHANGED <<session, cleaned, channel, peer, lost, gaveUp, reader, cleaner, crashed>>

\* It is looked up again.  The map may be another one by now: the handler's panic is
\* a failure of its request.
LookUp(r) ==
    /\ client[r].step = "entered"
    /\ Becomes(r, IF r \in waiting THEN "found" ELSE "failed")
    /\ UNCHANGED <<session, waiting, late, cleaned, channel, peer, lost, gaveUp, reader, cleaner,
                   crashed>>

\* send, which fails once the session is closed, and may fail before.
Ask(r) ==
    /\ client[r].step = "found"
    /\ \/ session = "open" /\ Becomes(r, "waits") /\ UNCHANGED <<waiting, channel>>
       \/ Becomes(r, "failed") /\ Removed(r)
    /\ UNCHANGED <<session, late, cleaned, peer, lost, gaveUp, reader, cleaner, crashed>>

\* The client leaves, and NonStream or Stream returns.
GiveUp(r) ==
    /\ client[r].step = "waits" /\ r \notin gaveUp /\ gaveUp' = gaveUp \cup {r}
    /\ UNCHANGED <<session, waiting, late, cleaned, client, channel, peer, lost, reader, cleaner,
                   crashed>>

Return(r) ==
    /\ client[r].step = "waits" /\ r \in gaveUp /\ Becomes(r, "left")
    /\ UNCHANGED <<session, waiting, late, cleaned, channel, peer, lost, gaveUp, reader, cleaner,
                   crashed>>

\* The goroutine that waits for the context, done also once the request returned;
\* it may see first that the session is closed.
Withdraw(r) ==
    /\ r \in waiting /\ (r \in gaveUp \/ client[r].step \in Finished)
    /\ Removed(r)
    /\ UNCHANGED <<session, late, cleaned, client, peer, lost, gaveUp, reader, cleaner, crashed>>

\* NonStream and Stream take a message.
Take(r) ==
    /\ client[r].step = "waits" /\ channel[r].held # <<>>
    /\ channel' = [channel EXCEPT ![r].held = Tail(@)]
    /\ LET kind == Head(channel[r].held) IN
        client' = IF kind = "chunk" THEN [client EXCEPT ![r].got = @ + 1]
                  ELSE [client EXCEPT ![r].step = IF kind = "end" THEN "done" ELSE "failed"]
    /\ UNCHANGED <<session, waiting, late, cleaned, peer, lost, gaveUp, reader, cleaner, crashed>>

\* The channel is closed.  NonStream takes an answer that began for the whole one.
FindClosed(r) ==
    /\ client[r].step = "waits" /\ channel[r].held = <<>> /\ channel[r].closed
    /\ Becomes(r, IF ~client[r].stream /\ client[r].got > 0 THEN "done" ELSE "failed")
    /\ UNCHANGED <<session, waiting, late, cleaned, channel, peer, lost, gaveUp, reader, cleaner,
                   crashed>>

Client(r) == Enter(r) \/ LookUp(r) \/ Ask(r) \/ Return(r) \/ Take(r) \/ FindClosed(r)

-----------------------------------------------------------------------------
(* dispatch.                                                               *)

\* A message for r comes in and its request is looked up.
ReadMessage(r) ==
    /\ reader = NoMessage /\ session # "gone"
    /\ client[r].step \in {"waits"} \cup Finished /\ ~peer[r].ended
    /\ \E kind \in Kinds :
        /\ kind = "chunk" => peer[r].sent < Longest
        /\ peer' = IF Ends(kind) THEN [peer EXCEPT ![r].ended = TRUE]
                   ELSE [peer EXCEPT ![r].sent = @ + 1]
        /\ reader' = IF r \in waiting THEN [kind |-> kind, to |-> r, sent |-> FALSE]
                     ELSE NoMessage
    /\ UNCHANGED <<session, waiting, late, cleaned, client, channel, lost, gaveUp, cleaner, crashed>>

\* A send that does not block.
Sent(r, kind) ==
    IF channel[r].closed THEN crashed' = TRUE /\ UNCHANGED <<channel, lost>>
    ELSE /\ UNCHANGED crashed
         /\ IF Len(channel[r].held) < Buffer
            THEN channel' = [channel EXCEPT ![r].held = Append(@, kind)] /\ UNCHANGED lost
            ELSE lost' = lost \cup {r} /\ UNCHANGED channel

Deliver ==
    /\ reader # NoMessage /\ ~reader.sent
    /\ Sent(reader.to, reader.kind)
    /\ reader' = IF Ends(reader.kind) THEN [reader EXCEPT !.sent = TRUE] ELSE NoMessage
    /\ UNCHANGED <<session, waiting, late, cleaned, client, peer, gaveUp, cleaner>>

\* Mutant: only an answer that ends well is taken out of the map.
EndPendingEnd ==
    /\ reader # NoMessage /\ reader.sent /\ reader' = NoMessage
    /\ IF reader.kind = "end" THEN Removed(reader.to) ELSE UNCHANGED <<waiting, channel>>
    /\ UNCHANGED <<session, late, cleaned, client, peer, lost, gaveUp, cleaner, crashed>>

\* The end of an answer ends the request.
EndPending ==
    /\ reader # NoMessage /\ reader.sent /\ reader' = NoMessage
    /\ Removed(reader.to)
    /\ UNCHANGED <<session, late, cleaned, client, peer, lost, gaveUp, cleaner, crashed>>

Reader == (\E r \in Requests : ReadMessage(r)) \/ Deliver \/ EndPending

-----------------------------------------------------------------------------
(* cleanup: the connection fails, or the relay stops.                      *)

Close ==
    /\ session = "open" /\ session' = "closing"
    /\ UNCHANGED <<waiting, late, cleaned, client, channel, peer, lost, gaveUp, reader, cleaner,
                   crashed>>

\* The next one of the map ...
CleanNext(r) ==
    /\ session = "closing" /\ cleaner = NoMessage /\ r \in waiting \ cleaned
    /\ cleaner' = [kind |-> "error", to |-> r]
    /\ UNCHANGED <<session, waiting, late, cleaned, client, channel, peer, lost, gaveUp, reader,
                   crashed>>

\* Mutant: the channel is closed with no word.
CleanSilently ==
    /\ cleaner # NoMessage /\ cleaner' = NoMessage /\ cleaned' = cleaned \cup {cleaner.to}
    /\ Closed(cleaner.to)
    /\ UNCHANGED <<session, waiting, late, client, peer, lost, gaveUp, reader, crashed>>

\* ... gets an error, if there is room, and its channel is closed.
Clean ==
    /\ cleaner # NoMessage /\ cleaner' = NoMessage /\ cleaned' = cleaned \cup {cleaner.to}
    /\ LET r == cleaner.to  c == channel[r] IN
        IF c.closed THEN crashed' = TRUE /\ UNCHANGED <<channel, lost>>
        ELSE /\ UNCHANGED crashed
             /\ LET room == Len(c.held) < Buffer IN
                /\ channel' = [channel EXCEPT ![r] =
                        [held |-> IF room THEN Append(c.held, "error") ELSE c.held, closed |-> TRUE]]
                /\ lost' = IF room THEN lost ELSE lost \cup {r}
    /\ UNCHANGED <<session, waiting, late, client, peer, gaveUp, reader>>

\* The map is replaced and the connection closed.
Replace ==
    /\ session = "closing" /\ cleaner = NoMessage /\ waiting \ cleaned \subseteq late
    /\ session' = "gone" /\ waiting' = {}
    /\ UNCHANGED <<late, cleaned, client, channel, peer, lost, gaveUp, reader, cleaner, crashed>>

Cleanup == (\E r \in Requests : CleanNext(r)) \/ Clean \/ Replace

RelayNext ==
    /\ ~crashed
    /\ \/ \E r \in Requests : Client(r) \/ GiveUp(r) \/ Withdraw(r)
       \/ Reader \/ Close \/ Cleanup

\* Every goroutine goes on; the peer, the client and the connection are free.
RelaySpec ==
    /\ RelayInit /\ [][RelayNext]_relayVars
    /\ WF_relayVars(~crashed /\ (Deliver \/ EndPending)) /\ WF_relayVars(~crashed /\ Cleanup)
    /\ \A r \in Requests :
        /\ WF_relayVars(~crashed /\ Client(r))
        /\ WF_relayVars(~crashed /\ session = "open" /\ Withdraw(r))

-----------------------------------------------------------------------------
(* Properties.                                                             *)

\* A request that ends well, for a client that waited, has the whole answer, unless
\* a message found the channel full: no removal, no cleanup and no other end of the
\* session passes for the end of an answer.
AnswerIsWhole ==
    \A r \in Requests :
        client[r].step = "done" /\ r \notin gaveUp \cup lost =>
            client[r].got = peer[r].sent /\ peer[r].ended

\* A request that waits is remembered by somebody who will end it: the reader, with
\* the end of its answer in hand, or the cleanup, which cannot miss it; or its channel
\* is closed.  An entry that comes while the cleanup goes through the map, or after it
\* has replaced the map, is never asked.
NobodyIsForgotten ==
    \A r \in Requests : client[r].step = "waits" /\ ~channel[r].closed =>
        /\ peer[r].ended => reader # NoMessage /\ reader.to = r
        /\ session = "closing" => r \in (waiting \ cleaned) \ late
        /\ session # "gone"

\* A request ends once its answer was read, its client left or its session is
\* closed, whatever was dropped; or the process has ended.  Until then it is remembered.
RequestReturns ==
    /\ [][NobodyIsForgotten']_relayVars
    /\ \A r \in Requests :
          <>[](client[r].step = "waits" /\ (peer[r].ended \/ r \in gaveUp \/ session # "open")
                   => crashed)

-----------------------------------------------------------------------------
(* What no text of the repository promises, and a reader would expect.     *)

NoPanic == ~crashed
NothingDropped == lost = {}

-----------------------------------------------------------------------------
(* The inductive invariant.                                                *)

\* The reader has a message that it will send to the channel of r.
InHand(r) == reader # NoMessage /\ reader.to = r /\ ~reader.sent

\* A request is asked once it is in the map, and until then nothing is known of it.
BeforeAsked(r) ==
    client[r].step \notin {"waits"} \cup Finished =>
        /\ client[r].got = 0 /\ peer[r].sent = 0 /\ ~peer[r].ended /\ r \notin gaveUp
        /\ reader # NoMessage => reader.to # r
        /\ session = "open" => channel[r] = [held |-> <<>>, closed |-> FALSE]
        /\ session = "open" /\ client[r].step # "new" => r \in waiting
        /\ \A i \in DOMAIN channel[r].held : channel[r].held[i] = "error"

\* What is in the channel, and in the reader's hand, is what the peer sent: no chunk
\* is counted twice, ...
NoMoreThanSent(r) ==
    /\ client[r].got <= peer[r].sent
    /\ \A i \in DOMAIN channel[r].held :
          channel[r].held[i] = "chunk" => client[r].got + i <= peer[r].sent
    /\ ~channel[r].closed /\ ~InHand(r) /\ ~peer[r].ended =>
          client[r].got + Len(channel[r].held) <= peer[r].sent
    /\ ~channel[r].closed /\ InHand(r) /\ reader.kind = "chunk" =>
          client[r].got + Len(channel[r].held) + 1 <= peer[r].sent

\* ... and, while the client waits and nothing was dropped, none is missing before
\* the end; a channel closed by then tells how the answer ended.
NoLessThanSent(r) ==
    client[r].step = "waits" /\ r \notin gaveUp \cup lost =>
        /\ \A i \in DOMAIN channel[r].held : channel[r].held[i] = "end" =>
              peer[r].ended /\ ~InHand(r) /\ client[r].got + i = peer[r].sent + 1
        /\ channel[r].closed \/ (peer[r].ended /\ ~InHand(r)) =>
              \E i \in DOMAIN channel[r].held : channel[r].held[i] # "chunk"
        /\ ~channel[r].closed /\ (peer[r].ended => InHand(r)) =>
              client[r].got + Len(channel[r].held)
                  = IF InHand(r) /\ reader.kind = "chunk" THEN peer[r].sent - 1 ELSE peer[r].sent

\* Who is out of the map has a closed channel; the reader ends what has an end.
Removals(r) ==
    /\ client[r].step = "waits" /\ r \notin waiting /\ session # "gone" => channel[r].closed
    /\ InHand(r) => (peer[r].ended <=> Ends(reader.kind))
    /\ reader # NoMessage /\ reader.to = r /\ reader.sent => peer[r].ended

RelayInv ==
    /\ RelayTypeOK
    /\ \A r \in Requests : BeforeAsked(r) /\ NoMoreThanSent(r) /\ NoLessThanSent(r) /\ Removals(r)
    /\ session = "open" => cleaner = NoMessage
    /\ AnswerIsWhole
=============================================================================
