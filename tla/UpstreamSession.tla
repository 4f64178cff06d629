---------------------------- MODULE UpstreamSession ----------------------------
(***************************************************************************)
(* The upstream websocket of one execution session                         *)
(* (internal/runtime/executor/codex_websockets_executor.go).               *)
(*                                                                         *)
(* A client that is connected by websocket makes one call after the other; *)
(* the executor sends them over one connection of the session, which it    *)
(* dials when there is none.  A call holds the session's reqMu from its    *)
(* first step to the end of its stream, and gives the session a channel.   *)
(* Each connection has a goroutine that passes what it reads to whatever   *)
(* channel is the active one, and that tells and closes it when the        *)
(* connection ends.  A reader outlives its connection for a while, so it   *)
(* may find the channel of a later call, or of one that moved on to        *)
(* another connection.  A send on a closed channel, or a second close, is  *)
(* a panic in a goroutine that recovers from none.                         *)
(*                                                                         *)
(* The steps are those of ExecuteStream; Execute takes the same ones, but  *)
(* always gives reqMu back.                                                *)
(***************************************************************************)
EXTENDS Naturals, Sequences, FiniteSets

CONSTANTS
    MaxCalls,      \* bound: calls of the session
    MaxSockets,    \* bound: connections dialled
    MaxEvents      \* bound: events of an answer before its last one

ASSUME SessionAssumption ==
    MaxCalls \in Nat \ {0} /\ MaxSockets \in Nat \ {0} /\ MaxEvents \in Nat

Calls == 1..MaxCalls
Sockets == 1..MaxSockets
Unset == 0

VARIABLES
    kept,         \* the store has the session
    reqMu,         \* the call that holds reqMu
    conn,         \* the session's connection
    activeCh,     \* the call whose channel is the active one
    call,         \* per call, its goroutine; late: only a history, the reader of its connection
                  \* had seen the end before the call became the active one
    feed,         \* per call, its channel
    socket,       \* per connection: open, dropped at the other end, or shut at this one; and
                  \* the calls upstream has to answer
    listener,     \* per connection, readUpstreamLoop
    events,       \* per call, the events upstream sent for it
    departed,     \* the client is gone
    panicked

sessionVars == <<kept, reqMu, conn, activeCh, call, feed, socket, listener, events, departed, panicked>>

NoWord == [socket |-> Unset, of |-> Unset, kind |-> "none"]
Words == [socket: Sockets, of: Calls \cup {Unset}, kind: {"event", "completed", "error", "down"}]

Outcomes == {"none", "done", "failed", "refused", "left"}

SessionTypeOK ==
    /\ kept \in BOOLEAN
    /\ reqMu \in {Unset} \cup Calls /\ conn \in {Unset} \cup Sockets
    /\ activeCh \in {Unset} \cup Calls
    /\ call \in [Calls -> [pc: {"new", "wants", "ensure", "dial", "activate", "send", "read",
                                "ending", "over"},
                           conn: {Unset} \cup Sockets, again: BOOLEAN, outcome: Outcomes,
                           got: Nat, foreign: BOOLEAN, late: BOOLEAN]]
    /\ feed \in [Calls -> [held: Seq(Words), closed: BOOLEAN]]
    /\ socket \in [Sockets -> [state: {"none", "open", "dropped", "shut"}, owes: Seq(Calls)]]
    /\ listener \in [Sockets -> [pc: {"none", "listen", "pass", "fail", "invalidate", "gone"},
                                 ch: {Unset} \cup Calls, word: Words \cup {NoWord}]]
    /\ events \in [Calls -> 0..MaxEvents]
    /\ departed \in BOOLEAN /\ panicked \in BOOLEAN

SessionInit ==
    /\ kept = TRUE /\ reqMu = Unset /\ conn = Unset /\ activeCh = Unset
    /\ call = [c \in Calls |-> [pc |-> "new", conn |-> Unset, again |-> FALSE, outcome |-> "none",
                                got |-> 0, foreign |-> FALSE, late |-> FALSE]]
    /\ feed = [c \in Calls |-> [held |-> <<>>, closed |-> FALSE]]
    /\ socket = [s \in Sockets |-> [state |-> "none", owes |-> <<>>]]
    /\ listener = [s \in Sockets |-> [pc |-> "none", ch |-> Unset, word |-> NoWord]]
    /\ events = [c \in Calls |-> 0]
    /\ departed = FALSE /\ panicked = FALSE

Moves(c, next) == call' = [call EXCEPT ![c].pc = next]
Ended(c, how) == [call EXCEPT ![c].pc = "ending", ![c].outcome = how]
Shut(s) == [socket EXCEPT ![s].state = "shut"]

\* invalidateUpstreamConn: who comes second finds another connection, or none.
Invalidated(s) ==
    IF s = conn THEN conn' = Unset /\ socket' = Shut(s)
    ELSE UNCHANGED <<conn, socket>>

-----------------------------------------------------------------------------
(* ExecuteStream.                                                          *)

\* getOrCreateSession: the client waits for the outcome of the call before.
Come(c) ==
    /\ call[c].pc = "new" /\ kept /\ ~departed
    /\ \A d \in Calls : d < c => call[d].outcome # "none"
    /\ Moves(c, "wants")
    /\ UNCHANGED <<kept, reqMu, conn, activeCh, feed, socket, listener, events,
                   departed, panicked>>

TakeTurn(c) ==
    /\ call[c].pc = "wants" /\ reqMu = Unset /\ reqMu' = c
    /\ Moves(c, "ensure")
    /\ UNCHANGED <<kept, conn, activeCh, feed, socket, listener, events, departed,
                   panicked>>

Connected(c) == IF call[c].again THEN "send" ELSE "activate"

\* ensureUpstreamConn, when the session has a connection ...
Ensure(c) ==
    /\ call[c].pc = "ensure"
    /\ call' = IF conn = Unset THEN [call EXCEPT ![c].pc = "dial"]
               ELSE [call EXCEPT ![c].pc = Connected(c), ![c].conn = conn]
    /\ UNCHANGED <<kept, reqMu, conn, activeCh, feed, socket, listener, events,
                   departed, panicked>>

\* ... and when it has to dial.
Dial(c) ==
    /\ call[c].pc = "dial"
    /\ \E s \in Sockets :
        /\ socket[s].state = "none" /\ \A t \in Sockets : t < s => socket[t].state # "none"
        /\ socket' = [socket EXCEPT ![s].state = "open"] /\ conn' = s
        /\ listener' = [listener EXCEPT ![s].pc = "listen"]
        /\ call' = [call EXCEPT ![c].pc = Connected(c), ![c].conn = s, ![c].late = FALSE]
    /\ UNCHANGED <<kept, reqMu, activeCh, feed, events, departed, panicked>>

DialFails(c) ==
    /\ call[c].pc = "dial" /\ call' = Ended(c, "failed")
    /\ UNCHANGED <<kept, reqMu, conn, activeCh, feed, socket, listener, events,
                   departed, panicked>>

\* Upstream answers the handshake with a status: the first time, ExecuteStream
\* returns and does not unlock reqMu.
Refused(c) ==
    /\ call[c].pc = "dial" /\ ~call[c].again
    /\ call' = [call EXCEPT ![c].pc = "over", ![c].outcome = "refused"]
    /\ UNCHANGED <<kept, reqMu, conn, activeCh, feed, socket, listener, events,
                   departed, panicked>>

\* The reader of s has seen the end of its connection.
SawEnd(s) == listener[s].pc \in {"fail", "invalidate", "gone"}

Activate(c) ==
    /\ call[c].pc = "activate" /\ activeCh' = c
    /\ call' = [call EXCEPT ![c].pc = "send", ![c].late = SawEnd(call[c].conn)]
    /\ UNCHANGED <<kept, reqMu, conn, feed, socket, listener, events, departed,
                   panicked>>

\* The body is written; what is written after the other end closed is lost.
SendBody(c) ==
    /\ call[c].pc = "send" /\ socket[call[c].conn].state # "shut" /\ Moves(c, "read")
    /\ LET s == call[c].conn IN
        socket' = IF socket[s].state = "open" THEN [socket EXCEPT ![s].owes = Append(@, c)]
                  ELSE socket
    /\ UNCHANGED <<kept, reqMu, conn, activeCh, feed, listener, events, departed,
                   panicked>>

\* It cannot be written: once again, over another connection.
SendFails(c) ==
    /\ call[c].pc = "send" /\ socket[call[c].conn].state # "open"
    /\ Invalidated(call[c].conn)
    /\ call' = IF call[c].again THEN Ended(c, "failed")
               ELSE [call EXCEPT ![c].pc = "ensure", ![c].again = TRUE]
    /\ UNCHANGED <<kept, reqMu, activeCh, feed, listener, events, departed, panicked>>

\* readCodexWebsocketMessage, and what the stream makes of it.
ReadWord(c) ==
    /\ call[c].pc = "read" /\ feed[c].held # <<>>
    /\ feed' = [feed EXCEPT ![c].held = Tail(@)]
    /\ LET w == Head(feed[c].held)
           heard == [call EXCEPT ![c].got = @ + 1, ![c].foreign = @ \/ w.of # c]
       IN  IF w.socket # call[c].conn THEN UNCHANGED <<call, conn, socket>>
           ELSE CASE w.kind = "event" -> call' = heard /\ UNCHANGED <<conn, socket>>
                  [] w.kind = "completed" ->
                        /\ call' = [heard EXCEPT ![c].pc = "ending", ![c].outcome = "done"]
                        /\ UNCHANGED <<conn, socket>>
                  [] w.kind = "error" -> call' = Ended(c, "failed") /\ Invalidated(call[c].conn)
                  [] OTHER -> call' = Ended(c, "failed") /\ UNCHANGED <<conn, socket>>
    /\ UNCHANGED <<kept, reqMu, activeCh, listener, events, departed, panicked>>

ReadClosed(c) ==
    /\ call[c].pc = "read" /\ feed[c].held = <<>> /\ feed[c].closed
    /\ call' = Ended(c, "failed")
    /\ UNCHANGED <<kept, reqMu, conn, activeCh, feed, socket, listener, events,
                   departed, panicked>>

\* The client's handler cancels the context once a write to the client fails.
GiveUpCall(c) ==
    /\ call[c].pc = "read" /\ departed /\ call[c].got > 0
    /\ call' = Ended(c, "left")
    /\ UNCHANGED <<kept, reqMu, conn, activeCh, feed, socket, listener, events,
                   departed, panicked>>

\* clearActive, and reqMu is free again.
GiveTurn(c) ==
    /\ call[c].pc = "ending" /\ Moves(c, "over")
    /\ reqMu' = Unset /\ activeCh' = IF activeCh = c THEN Unset ELSE activeCh
    /\ UNCHANGED <<kept, conn, feed, socket, listener, events, departed, panicked>>

\* Mutant: the channel becomes the active one only after the body was sent.
ExecutesLate(c) ==
    \/ TakeTurn(c) \/ Ensure(c) \/ Dial(c) \/ DialFails(c) \/ Refused(c) \/ SendBody(c)
    \/ SendFails(c) \/ ReadClosed(c) \/ GiveUpCall(c) \/ GiveTurn(c)
    \/ /\ call[c].pc = "activate" /\ Moves(c, "send")
       /\ UNCHANGED <<kept, reqMu, conn, activeCh, feed, socket, listener, events,
                      departed, panicked>>
    \/ /\ call[c].pc = "read" /\ activeCh # c /\ activeCh' = c
       /\ UNCHANGED <<kept, reqMu, conn, call, feed, socket, listener, events,
                      departed, panicked>>
    \/ activeCh = c /\ ReadWord(c)

Executes(c) ==
    \/ TakeTurn(c) \/ Ensure(c) \/ Dial(c) \/ DialFails(c) \/ Refused(c) \/ Activate(c) \/ SendBody(c)
    \/ SendFails(c) \/ ReadWord(c) \/ ReadClosed(c) \/ GiveUpCall(c) \/ GiveTurn(c)

-----------------------------------------------------------------------------
(* readUpstreamLoop.                                                       *)

Listening(s, next) == listener' = [listener EXCEPT ![s] = next]

\* A message comes in; the next step of its answer, of which upstream sends one
\* after the other.  It is dropped if nobody is active.
Hear(s) ==
    /\ listener[s].pc = "listen" /\ socket[s].state = "open" /\ socket[s].owes # <<>>
    /\ LET c == Head(socket[s].owes) IN
        \E kind \in {"event", "completed", "error"} :
            /\ IF kind = "event"
               THEN /\ events[c] < MaxEvents /\ events' = [events EXCEPT ![c] = @ + 1]
                    /\ UNCHANGED socket
               ELSE socket' = [socket EXCEPT ![s].owes = Tail(@)] /\ UNCHANGED events
            /\ IF activeCh = Unset THEN UNCHANGED listener
               ELSE Listening(s, [pc |-> "pass", ch |-> activeCh,
                                  word |-> [socket |-> s, of |-> c, kind |-> kind]])
    /\ UNCHANGED <<kept, reqMu, conn, activeCh, call, feed, departed, panicked>>

Listens == [pc |-> "listen", ch |-> Unset, word |-> NoWord]

\* It goes to the channel that was active, unless that call is done: of several
\* cases that are ready the runtime picks any.
PassOn(s) ==
    /\ listener[s].pc = "pass" /\ Listening(s, Listens)
    /\ LET ch == listener[s].ch IN
        \/ ~feed[ch].closed /\ feed' = [feed EXCEPT ![ch].held = Append(@, listener[s].word)]
           /\ UNCHANGED panicked
        \/ feed[ch].closed /\ panicked' = TRUE /\ UNCHANGED feed
        \/ activeCh # ch /\ UNCHANGED <<feed, panicked>>
    /\ UNCHANGED <<kept, reqMu, conn, activeCh, call, socket, events, departed>>

\* The connection has ended.
HearEnd(s) ==
    /\ listener[s].pc = "listen" /\ socket[s].state \in {"dropped", "shut"}
    /\ Listening(s, [pc |-> IF activeCh = Unset THEN "invalidate" ELSE "fail", ch |-> activeCh,
                     word |-> NoWord])
    /\ UNCHANGED <<kept, reqMu, conn, activeCh, call, feed, socket, events, departed,
                   panicked>>

\* Mutant: takes the channel out of the session and does not close it.
FailActiveSilently(s) ==
    /\ listener[s].pc = "fail"
    /\ Listening(s, [listener[s] EXCEPT !.pc = "invalidate"])
    /\ activeCh' = IF activeCh = listener[s].ch THEN Unset ELSE activeCh
    /\ UNCHANGED <<kept, reqMu, conn, call, feed, socket, events, departed,
                   panicked>>

\* Whoever is active now is told, loses its place, and its channel is closed.
FailActive(s) ==
    /\ listener[s].pc = "fail"
    /\ Listening(s, [listener[s] EXCEPT !.pc = "invalidate"])
    /\ LET ch == listener[s].ch IN
        IF feed[ch].closed THEN panicked' = TRUE /\ UNCHANGED <<feed, activeCh>>
        ELSE /\ feed' = [feed EXCEPT ![ch] =
                    [held |-> Append(@.held, [socket |-> s, of |-> Unset, kind |-> "down"]),
                     closed |-> TRUE]]
             /\ activeCh' = IF activeCh = ch THEN Unset ELSE activeCh
             /\ UNCHANGED panicked
    /\ UNCHANGED <<kept, reqMu, conn, call, socket, events, departed>>

Forsake(s) ==
    /\ listener[s].pc = "invalidate"
    /\ Listening(s, [listener[s] EXCEPT !.pc = "gone"])
    /\ Invalidated(s)
    /\ UNCHANGED <<kept, reqMu, activeCh, call, feed, events, departed, panicked>>

Listen(s) == Hear(s) \/ PassOn(s) \/ HearEnd(s) \/ FailActive(s) \/ Forsake(s)

-----------------------------------------------------------------------------
(* Upstream, the client, and who closes the session.                       *)

\* Upstream closes, or is silent for longer than the read deadline.
Drop(s) ==
    /\ socket[s].state = "open" /\ socket' = [socket EXCEPT ![s].state = "dropped"]
    /\ UNCHANGED <<kept, reqMu, conn, activeCh, call, feed, listener, events,
                   departed, panicked>>

\* The client leaves; or its connection is closed when upstream's was lost.
Depart ==
    /\ ~departed /\ departed' = TRUE
    /\ UNCHANGED <<kept, reqMu, conn, activeCh, call, feed, socket, listener, events, panicked>>

\* CloseExecutionSession at the end of the client's handler, and
\* CloseCodexWebsocketSessionsForAuthID when the auth is removed.
CloseSession ==
    /\ kept /\ kept' = FALSE
    /\ conn' = Unset /\ socket' = IF conn = Unset THEN socket ELSE Shut(conn)
    /\ UNCHANGED <<reqMu, activeCh, call, feed, listener, events, departed, panicked>>

SessionNext ==
    /\ ~panicked
    /\ \/ \E c \in Calls : Come(c) \/ Executes(c)
       \/ \E s \in Sockets : Listen(s) \/ Drop(s)
       \/ Depart \/ CloseSession

\* The goroutines go on, and a connection that stays silent is given up.
SessionSpec ==
    /\ SessionInit /\ [][SessionNext]_sessionVars
    /\ \A c \in Calls : WF_sessionVars(~panicked /\ Executes(c))
    /\ \A s \in Sockets : WF_sessionVars(~panicked /\ Listen(s)) /\ WF_sessionVars(~panicked /\ Drop(s))

-----------------------------------------------------------------------------
(* Properties.                                                             *)

\* A call that was cut off: its answer may still come over its connection.
CutOff(c) == call[c].outcome \in {"failed", "left"}

\* A call that ends well has all of its own answer and nothing of another's,
\* unless an earlier call on the same connection was cut off.
SessionAnswerIsOwn ==
    \A c \in Calls :
        call[c].outcome = "done" =>
            \/ ~call[c].foreign /\ call[c].got = events[c] + 1
            \/ \E d \in Calls : d < c /\ CutOff(d) /\ call[d].conn = call[c].conn

\* The reader of its connection had seen the end before the call became the active
\* one, and told another or nobody; the write succeeded all the same, and no answer
\* comes.
Unheard(c) ==
    call[c].pc = "read" /\ call[c].late /\ ~feed[c].closed /\ listener[call[c].conn].pc = "gone"

\* Whoever waits for the session waits for a call that is under way, or for one that
\* was refused; and a call that reads is told how its connection ends: the reader has not
\* seen the end yet, or has the call's channel to close, or closed it.  Excepted is only
\* the call that became the active one after the reader had seen the end.
NoCallIsStranded ==
    /\ reqMu # Unset =>
          call[reqMu].pc \in {"ensure", "dial", "activate", "send", "read", "ending"}
              \/ call[reqMu].outcome = "refused"
    /\ \A c \in Calls : call[c].pc = "read" =>
          LET l == listener[call[c].conn] IN
          l.pc \in {"listen", "pass"} \/ (l.pc = "fail" /\ l.ch = c) \/ feed[c].closed
              \/ call[c].late

\* At last no call is under way, or waits for its session, whatever happens to the
\* connections meanwhile, unless one was refused or is unheard, or the process has
\* ended; until then none is stranded.
SessionCallEnds ==
    /\ [][NoCallIsStranded']_sessionVars
    /\ <>[](\A c \in Calls :
              \/ call[c].pc \in {"new", "over"} \/ panicked
              \/ \E d \in Calls : call[d].outcome = "refused" \/ (d <= c /\ Unheard(d)))

-----------------------------------------------------------------------------
(* What a comment says and the code does not do.                           *)

\* "Retry once with a fresh websocket connection. This is mainly to handle upstream
\* closing the socket between sequential requests": the call that goes out over the
\* fresh connection does not fail while that connection is open.
RetryHelps ==
    \A c \in Calls :
        call[c].again /\ call[c].outcome = "failed" =>
            call[c].conn = Unset \/ socket[call[c].conn].state # "open"

\* What no text promises, and a reader would expect.
OwnAnswerOnly == \A c \in Calls : ~call[c].foreign
TurnComesBack == \A c \in Calls : reqMu = c => call[c].pc # "over"
SessionNoPanic == ~panicked

-----------------------------------------------------------------------------
(* The inductive invariant.                                                *)

InCall == {"ensure", "dial", "activate", "send", "read"}
Replied == {"read", "ending", "over"}

\* Its channel was made the active one, or may have been.
HasBeenActive(c) ==
    call[c].pc \in {"send"} \cup Replied \/ (call[c].pc \in {"ensure", "dial"} /\ call[c].again)

\* One call after the other: who is in its call holds reqMu, and the channel of none
\* but that one is the active one.
Turns ==
    /\ activeCh # Unset => HasBeenActive(activeCh) /\ call[activeCh].pc # "over"
    /\ \A c \in Calls :
        /\ call[c].pc \in InCall \cup {"ending"} => reqMu = c
        /\ call[c].outcome = "none" <=> call[c].pc \notin {"ending", "over"}
        /\ call[c].pc # "new" => \A d \in Calls : d < c => call[d].outcome # "none"
        /\ HasBeenActive(c) /\ call[c].pc \notin {"ending", "over"} => activeCh = c \/ feed[c].closed
        /\ ~HasBeenActive(c) => feed[c].held = <<>> /\ ~call[c].again
        /\ call[c].pc \notin Replied => events[c] = 0 /\ call[c].got = 0 /\ ~call[c].foreign
        /\ \A s \in Sockets : listener[s].ch = c => HasBeenActive(c)

\* A call has the connection it sends its body over; only the session's connection
\* is open.
Connections ==
    /\ \A c \in Calls :
        /\ call[c].pc \in {"activate", "send", "read"} =>
              call[c].conn # Unset /\ conn \in {Unset, call[c].conn}
        /\ (~HasBeenActive(c) /\ call[c].pc # "activate") \/ call[c].outcome = "refused" =>
              call[c].conn = Unset
        /\ call[c].pc = "dial" \/ (call[c].pc = "ensure" /\ call[c].again) => conn = Unset
    /\ \A s \in Sockets :
        /\ socket[s].state = "open" => conn = s
        /\ socket[s].state = "none" =>
              /\ socket[s].owes = <<>> /\ listener[s].pc = "none" /\ conn # s
              /\ \A c \in Calls : call[c].conn # s
              /\ \A c \in Calls : \A i \in DOMAIN feed[c].held : feed[c].held[i].socket # s

\* The call s carries a word of.
CarriesFor(s, c) == listener[s].pc = "pass" /\ listener[s].word.of = c

\* What upstream owes, and sends, over a connection is for calls that used it, each
\* of them once.
Answers ==
    \A s \in Sockets :
        /\ \A i \in DOMAIN socket[s].owes :
              /\ call[socket[s].owes[i]].conn = s /\ call[socket[s].owes[i]].pc \in Replied
              /\ \A j \in DOMAIN socket[s].owes : i # j => socket[s].owes[i] # socket[s].owes[j]
        /\ listener[s].pc \in {"pass", "fail"} => listener[s].ch # Unset
        /\ listener[s].pc = "pass" =>
              LET w == listener[s].word IN
              /\ w # NoWord /\ w.socket = s /\ w.of # Unset /\ w.kind # "down"
              /\ call[w.of].conn = s /\ call[w.of].pc \in Replied
              /\ w.kind # "event" => \A i \in DOMAIN socket[s].owes : socket[s].owes[i] # w.of

\* No earlier call on its connection was cut off.
Undisturbed(c) == ~ \E d \in Calls : d < c /\ CutOff(d) /\ call[d].conn = call[c].conn

FromConn(c, w) == w.socket = call[c].conn /\ w.kind # "down"
EventsHeld(c) ==
    Cardinality({i \in DOMAIN feed[c].held :
                    feed[c].held[i].socket = call[c].conn /\ feed[c].held[i].kind = "event"})
EventInHand(c) == listener[call[c].conn].pc = "pass" /\ listener[call[c].conn].word.kind = "event"

\* While a call reads, every event of its answer is counted or on its way, at least
\* until its channel is closed; nothing follows the last word.
AllHeard(c) ==
    LET s == call[c].conn  h == feed[c].held IN
    /\ ~call[c].foreign /\ (CarriesFor(s, c) => listener[s].ch = c)
    /\ \A i \in DOMAIN h : FromConn(c, h[i]) => h[i].of = c /\ call[c].pc = "read"
    /\ \A i \in DOMAIN h : FromConn(c, h[i]) /\ h[i].kind # "event" =>
          /\ \A j \in DOMAIN h : j > i => ~FromConn(c, h[j])
          /\ ~CarriesFor(s, c) /\ \A j \in DOMAIN socket[s].owes : socket[s].owes[j] # c
    /\ ~feed[c].closed \/ (\E i \in DOMAIN h : FromConn(c, h[i]) /\ h[i].kind # "event") =>
          events[c] = call[c].got + EventsHeld(c) + IF EventInHand(c) THEN 1 ELSE 0

OwnWords ==
    \A c \in Calls : Undisturbed(c) /\ call[c].pc \in {"send", "read"} => AllHeard(c)

\* Once it is done nothing of it is left over there.
DoneIsOver ==
    \A c \in Calls : Undisturbed(c) /\ call[c].outcome = "done" =>
        /\ ~call[c].foreign /\ call[c].got = events[c] + 1
        /\ \A s \in Sockets :
            ~CarriesFor(s, c) /\ \A j \in DOMAIN socket[s].owes : socket[s].owes[j] # c

SessionInv == SessionTypeOK /\ Turns /\ Connections /\ Answers /\ OwnWords /\ DoneIsOver
==============================================================================
