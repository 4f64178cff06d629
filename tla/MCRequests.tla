------------------------------ MODULE MCRequests ------------------------------
(***************************************************************************)
(* The modules about what goes through the program, for one run of TLC: a  *)
(* request with its retries, the order in which a view hands out auths,    *)
(* the relay of a stream, the counters, the updates of auths, the requests *)
(* of a websocket provider, the calls over one upstream websocket and the  *)
(* records of usage.  They share no variable and no property speaks of two *)
(* of them, so one of them, the part, takes steps in a behaviour, and      *)
(* fairness is asked of that one alone.                                    *)
(***************************************************************************)
EXTENDS RequestRetry, ReadyView, StreamRelay, RequestCounts, AuthUpdates, WebSocketRelay,
        UpstreamSession, UsageRecords, TLC

VARIABLE part

requestsVars ==
    <<part, retryVars, viewVars, streamVars, countVars, updateVars, relayVars,
      sessionVars, usageVars>>

\* The updates of auths, when there are logins but no websocket provider, and when
\* there are providers but no login.
Updating == {"logins", "providers"}
\* The flat rotation of a view beside a smooth one with the same weight for all, and the
\* smooth rotation with weights that differ from pick to pick.
Viewing == {"rotation", "weights"}
Parts == {"retry", "rotation", "weights", "stream", "counts", "logins", "providers", "relay",
          "session", "usage"}

RequestsInit ==
    /\ part \in Parts
    /\ RetryInit /\ ViewInit /\ StreamInit /\ CountsInit /\ UpdatesInit /\ RelayInit
    /\ SessionInit /\ UsageInit
    \* The initial states of a part count once.
    /\ part \notin Updating => file = [f \in Files |-> Absent]
    /\ part # "relay" => \A r \in Requests : client[r].stream
    /\ part # "usage" => ~home

\* Everything but the variables of one part stays.
Apart(p) ==
    /\ p # "retry" => UNCHANGED retryVars
    /\ p \notin Viewing => UNCHANGED viewVars
    /\ p # "stream" => UNCHANGED streamVars
    /\ p # "counts" => UNCHANGED countVars
    /\ p \notin Updating => UNCHANGED updateVars
    /\ p # "relay" => UNCHANGED relayVars
    /\ p # "session" => UNCHANGED sessionVars
    /\ p # "usage" => UNCHANGED usageVars

\* Only the first answer has an event before its end.
ShortAnswers == \A c \in Calls : c > 1 => events'[c] = 0

EvenWeights == PickSmooth => Smooth([i \in Ids |-> 1])

RequestsNext ==
    /\ UNCHANGED part
    /\ \/ part = "retry" /\ RetryNext
       \/ part = "rotation" /\ ViewNext /\ EvenWeights
       \/ part = "weights" /\ ViewNext /\ UNCHANGED <<cursor, passed>>
       \/ part = "stream" /\ StreamNext
       \/ part = "counts" /\ CountsNext
       \/ part = "logins" /\ UpdatesNext /\ \A ch \in Channels : at'[ch] = "idle"
       \/ part = "providers" /\ UpdatesNext /\ at'["login"] = "idle"
       \/ part = "relay" /\ RelayNext
       \/ part = "session" /\ SessionNext /\ ShortAnswers
       \/ part = "usage" /\ UsageNext
    /\ Apart(part)

\* The fairness of the specifications of the parts.
RequestsSpec ==
    /\ RequestsInit /\ [][RequestsNext]_requestsVars
    /\ WF_retryVars(part = "retry" /\ Request)
    /\ WF_retryVars(part = "retry" /\ Pass /\ step = "wait")
    /\ WF_viewVars(part \in Viewing /\ PickSmooth)
    /\ WF_streamVars(part = "stream" /\ Relay)
    /\ WF_streamVars(part = "stream" /\ Writer)
    /\ WF_streamVars(part = "stream" /\ Cancel)
    /\ \A s \in Streams : /\ WF_streamVars(part = "stream" /\ CloseWhenCancelled(s))
                          /\ WF_streamVars(part = "stream" /\ WrapGiveUp(s) /\ Wrapper(s))
    /\ WF_countVars(part = "counts" /\ (Wake \/ Read \/ Save))
    /\ WF_updateVars(part \in Updating /\ Loop) /\ WF_updateVars(part \in Updating /\ Consume)
    /\ WF_relayVars(part = "relay" /\ ~crashed /\ (Deliver \/ EndPending))
    /\ WF_relayVars(part = "relay" /\ ~crashed /\ Cleanup)
    /\ \A r \in Requests :
        /\ WF_relayVars(part = "relay" /\ ~crashed /\ Client(r))
        /\ WF_relayVars(part = "relay" /\ ~crashed /\ session = "open" /\ Withdraw(r))
    /\ \A c \in Calls : WF_sessionVars(part = "session" /\ ~panicked /\ Executes(c))
    /\ \A s \in Sockets : /\ WF_sessionVars(part = "session" /\ ~panicked /\ Listen(s))
                          /\ WF_sessionVars(part = "session" /\ ~panicked /\ Drop(s))
    /\ WF_usageVars(part = "usage" /\ DispatchUsage)
    /\ WF_usageVars(part = "usage" /\ WriteUsage)
    /\ WF_usageVars(part = "usage" /\ PopBatch)
    /\ WF_usageVars(part = "usage" /\ ForwarderEnds)
    /\ SF_usageVars(part = "usage" /\ Push)
    /\ WF_usageVars(part = "usage" /\ PushFails)

-----------------------------------------------------------------------------
\* A request comes to its end: its rounds of retries are over at some time, and
\* its goroutines are gone once its stream has ended or its client has left.
NothingHangs == RequestEnds /\ EverythingEnds

-----------------------------------------------------------------------------
(* The values.                                                             *)

Kind == CHOOSE f \in [Auths -> 0..2] : \A x, y \in Auths : x # y => f[x] # f[y]
RetriesChecked == [x \in Auths |-> Kind[x]]
ModelsChecked == [x \in Auths |-> <<2, 1, 1>>[Kind[x] + 1]]
===============================================================================
