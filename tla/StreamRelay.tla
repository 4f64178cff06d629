---------------------------- MODULE StreamRelay ----------------------------
(***************************************************************************)
(* One streamed request, from the provider to the client.                  *)
(*                                                                         *)
(* Four goroutines hand chunks to each other over unbuffered channels: the *)
(* executor of each upstream stream (outside this module: it sends data,   *)
(* an error or closes), wrapStreamResult's goroutine, which marks the      *)
(* result (sdk/cliproxy/auth/conductor.go), the relay of                   *)
(* executeStreamWithAuthManagerFormats, which may open another upstream    *)
(* stream while nothing was sent (sdk/api/handlers/handlers.go), and the   *)
(* gin handler, which first peeks and then runs ForwardStream              *)
(* (sdk/api/handlers/stream_forwarder.go, openai/openai_handlers.go).      *)
(***************************************************************************)
EXTENDS Naturals, Sequences

CONSTANTS
    MaxRetries,    \* streaming.bootstrap-retries
    MaxChunks      \* bound: payloads of one upstream stream

ASSUME StreamAssumption == MaxRetries \in Nat /\ MaxChunks \in Nat \ {0}

Streams == 1..(MaxRetries + 1)

VARIABLES
    opened,        \* upstream streams so far; the relay reads the last one
    wrap,          \* per upstream stream, its wrapper goroutine
    marks,         \* per upstream stream, the results its wrapper marked
    relay,         \* the relay goroutine
    sentPayload, bootstrapRetries,
    errs,          \* errChan: its buffered error, and whether it is closed
    dataClosed,    \* dataChan is closed
    writer,        \* the gin handler
    written,       \* per upstream stream, the payloads the client got
    left,          \* per upstream stream, the payloads a plugin dropped
    gone,          \* the client went away
    cancelled      \* the context of the request is done

streamVars == <<opened, wrap, marks, relay, sentPayload, bootstrapRetries, errs, dataClosed,
                writer, written, left, gone, cancelled>>

\* The channel a wrapper offers is closed once it is done.  A stream that failed
\* before its first payload is a closed channel with the error in it.
NotOpened == [pc |-> "none", failed |-> FALSE, sent |-> 0]
Reading == [pc |-> "read", failed |-> FALSE, sent |-> 0]
ErrorOnly == [pc |-> "error", failed |-> TRUE, sent |-> 0]

StreamTypeOK ==
    /\ opened \in 0..(MaxRetries + 1)
    /\ wrap \in [Streams -> [pc: {"none", "read", "data", "error", "done"}, failed: BOOLEAN,
                             sent: 0..MaxChunks]]
    /\ marks \in [Streams -> UNION {[1..n -> {"success", "failure"}] : n \in 0..1}]
    /\ relay \in {"open", "first", "firstData", "firstError", "next", "data", "send", "error",
                  "reopen", "sendErr", "closeErrs", "closeData", "ended"}
    /\ sentPayload \in BOOLEAN /\ bootstrapRetries \in 0..MaxRetries
    /\ errs \in [full: BOOLEAN, closed: BOOLEAN] /\ dataClosed \in BOOLEAN
    /\ writer \in {"none", "peek", "forward", "done", "error", "gone"}
    /\ written \in [Streams -> 0..MaxChunks] /\ left \in [Streams -> 0..MaxChunks]
    /\ gone \in BOOLEAN /\ cancelled \in BOOLEAN

StreamInit ==
    /\ opened = 0 /\ wrap = [s \in Streams |-> NotOpened]
    /\ marks = [s \in Streams |-> <<>>]
    /\ relay = "open" /\ sentPayload = FALSE /\ bootstrapRetries = 0
    /\ errs = [full |-> FALSE, closed |-> FALSE] /\ dataClosed = FALSE
    /\ writer = "none"
    /\ written = [s \in Streams |-> 0] /\ left = [s \in Streams |-> 0]
    /\ gone = FALSE /\ cancelled = FALSE

-----------------------------------------------------------------------------
(* wrapStreamResult: the wrapper of stream s.                              *)

Wrapping(s, w) == wrap' = [wrap EXCEPT ![s] = w]
Marked(s, result) == marks' = [marks EXCEPT ![s] = Append(@, result)]

\* A payload comes from upstream.
WrapData(s) ==
    /\ wrap[s].pc = "read" /\ ~wrap[s].failed /\ wrap[s].sent < MaxChunks
    /\ Wrapping(s, [wrap[s] EXCEPT !.pc = "data"])
    /\ UNCHANGED marks

\* An error comes from upstream: it is marked, then handed on.
WrapError(s) ==
    /\ wrap[s].pc = "read" /\ ~wrap[s].failed
    /\ Wrapping(s, [wrap[s] EXCEPT !.pc = "error", !.failed = TRUE])
    /\ Marked(s, "failure")

\* Upstream closes: a stream that did not fail is marked a success.
WrapClose(s) ==
    /\ wrap[s].pc = "read"
    /\ Wrapping(s, [wrap[s] EXCEPT !.pc = "done"])
    /\ IF wrap[s].failed THEN UNCHANGED marks ELSE Marked(s, "success")

\* The context is done before the chunk is taken: the rest is discarded.
WrapGiveUp(s) ==
    /\ cancelled /\ wrap[s].pc \in {"data", "error"}
    /\ Wrapping(s, [wrap[s] EXCEPT !.pc = "done"])
    /\ UNCHANGED marks

Wrapper(s) ==
    /\ WrapData(s) \/ WrapError(s) \/ WrapClose(s) \/ WrapGiveUp(s)
    /\ UNCHANGED <<opened, relay, sentPayload, bootstrapRetries, errs, dataClosed, writer, written,
                   left, gone, cancelled>>

\* What wrapper s is left with when its chunk is taken.
Taken(s) ==
    CASE wrap[s].pc = "data" -> [wrap[s] EXCEPT !.pc = "read", !.sent = @ + 1]
      [] wrap[s] = ErrorOnly -> [ErrorOnly EXCEPT !.pc = "done"]
      [] OTHER -> [wrap[s] EXCEPT !.pc = "read"]

-----------------------------------------------------------------------------
(* executeStreamWithAuthManagerFormats.                                    *)

\* Manager.ExecuteStream gives another stream, the wrapped one of an auth or the
\* error the last auth failed with.
Opening(next) ==
    /\ \E w \in {Reading, ErrorOnly} : Wrapping(opened + 1, w)
    /\ opened' = opened + 1 /\ relay' = next
    /\ UNCHANGED <<errs, writer>>

\* Or it fails: the only channel the handler gets has the error in it.
OpenFails ==
    /\ errs' = [full |-> TRUE, closed |-> TRUE]
    /\ relay' = "ended" /\ writer' = "peek"
    /\ UNCHANGED <<opened, wrap>>

Open ==
    /\ relay = "open"
    /\ Opening("first") \/ OpenFails
    /\ UNCHANGED <<marks, sentPayload, bootstrapRetries, dataClosed, written, left, gone, cancelled>>

\* readInitialStreamChunks, before the goroutine starts and the handler peeks.
First ==
    /\ relay = "first" /\ writer' = "peek"
    /\ \/ /\ wrap[opened].pc \in {"data", "error"} /\ Wrapping(opened, Taken(opened))
          /\ relay' = IF wrap[opened].pc = "data" THEN "firstData" ELSE "firstError"
       \/ wrap[opened].pc = "done" /\ relay' = "closeErrs" /\ UNCHANGED wrap
       \/ cancelled /\ relay' = "closeErrs" /\ UNCHANGED wrap
    /\ UNCHANGED <<opened, marks, sentPayload, bootstrapRetries, errs, dataClosed, written, left,
                   gone, cancelled>>

\* nextStreamChunk: the chunk that was read before, or the next one.
Next ==
    /\ \/ relay = "firstData" /\ relay' = "data" /\ UNCHANGED wrap
       \/ relay = "firstError" /\ relay' = "error" /\ UNCHANGED wrap
       \/ relay = "next" /\ wrap[opened].pc \in {"data", "error"} /\ Wrapping(opened, Taken(opened))
          /\ relay' = wrap[opened].pc
       \/ relay = "next" /\ (cancelled \/ wrap[opened].pc = "done") /\ relay' = "closeErrs"
          /\ UNCHANGED wrap
    /\ UNCHANGED <<opened, marks, sentPayload, bootstrapRetries, errs, dataClosed, writer, written,
                   left, gone, cancelled>>

\* A payload: a plugin drops it, it is no valid JSON, or it is sent.
Payload ==
    /\ relay = "data"
    /\ \/ relay' = "next" /\ left' = [left EXCEPT ![opened] = @ + 1] /\ UNCHANGED sentPayload
       \/ relay' = "sendErr" /\ UNCHANGED <<left, sentPayload>>
       \/ relay' = "send" /\ sentPayload' = TRUE /\ UNCHANGED left
    /\ UNCHANGED <<opened, wrap, marks, bootstrapRetries, errs, dataClosed, writer, written, gone,
                   cancelled>>

\* Mutant: whether the client got something is not asked.
MayRetryAlways == bootstrapRetries < MaxRetries

MayRetry == ~sentPayload /\ bootstrapRetries < MaxRetries

\* The upstream error: another stream is opened if nothing was sent, for most
\* errors.
Failed ==
    /\ relay = "error"
    /\ \/ MayRetry /\ relay' = "reopen" /\ bootstrapRetries' = bootstrapRetries + 1
       \/ relay' = "sendErr" /\ UNCHANGED bootstrapRetries
    /\ UNCHANGED <<opened, wrap, marks, sentPayload, errs, dataClosed, writer, written, left, gone,
                   cancelled>>

Reopen ==
    /\ relay = "reopen"
    /\ \/ Opening("next")
       \/ relay' = "sendErr" /\ UNCHANGED <<opened, wrap, errs, writer>>
    /\ UNCHANGED <<marks, sentPayload, bootstrapRetries, dataClosed, written, left, gone, cancelled>>

SendErr ==
    /\ relay = "sendErr" /\ relay' = "closeErrs"
    /\ \/ errs' = [errs EXCEPT !.full = TRUE]
       \/ cancelled /\ UNCHANGED errs
    /\ UNCHANGED <<opened, wrap, marks, sentPayload, bootstrapRetries, dataClosed, writer, written,
                   left, gone, cancelled>>

\* Mutant: only the handler can take the payload.
SendGivesUpNever == FALSE

SendGivesUp == cancelled

\* The deferred closes, or the payload of a request that is over.
Finish ==
    /\ \/ relay = "send" /\ SendGivesUp /\ relay' = "closeErrs" /\ UNCHANGED <<errs, dataClosed>>
       \/ relay = "closeErrs" /\ relay' = "closeData" /\ errs' = [errs EXCEPT !.closed = TRUE]
          /\ UNCHANGED dataClosed
       \/ relay = "closeData" /\ relay' = "ended" /\ dataClosed' = TRUE /\ UNCHANGED errs
    /\ UNCHANGED <<opened, wrap, marks, sentPayload, bootstrapRetries, writer, written, left, gone,
                   cancelled>>

Relay == Open \/ First \/ Next \/ Payload \/ Failed \/ Reopen \/ SendErr \/ Finish

-----------------------------------------------------------------------------
(* The gin handler: it peeks, then runs ForwardStream.                     *)

\* The handler returns and cancels the context.
Ending(how) ==
    /\ writer' = how /\ cancelled' = TRUE
    /\ UNCHANGED <<opened, wrap, marks, relay, sentPayload, bootstrapRetries, dataClosed, written,
                   left, gone>>

Active == writer \in {"peek", "forward"}

\* A payload is written; the first one commits the response.
Write ==
    /\ Active /\ relay = "send"
    /\ relay' = "next" /\ writer' = "forward"
    /\ written' = [written EXCEPT ![opened] = @ + 1]
    /\ UNCHANGED <<opened, wrap, marks, sentPayload, bootstrapRetries, errs, dataClosed, left, gone,
                   cancelled>>

\* The error that waits is written.
WriteError == Active /\ errs.full /\ errs' = [errs EXCEPT !.full = FALSE] /\ Ending("error")

\* Mutant: ForwardStream, too, does not look for an error when the data ends.
WriteDoneAnyway == Active /\ dataClosed /\ Ending("done") /\ UNCHANGED errs

\* The data ends: ForwardStream still prefers an error that waits, the peek does not.
WriteDone ==
    /\ Active /\ dataClosed
    /\ writer = "peek" \/ ~errs.full
    /\ Ending("done") /\ UNCHANGED errs

Leave == Active /\ gone /\ Ending("gone") /\ UNCHANGED errs

Writer == Write \/ WriteError \/ WriteDone \/ Leave

-----------------------------------------------------------------------------
(* The client, and the goroutine that passes its departure on.             *)

Disconnect ==
    /\ ~gone /\ gone' = TRUE
    /\ UNCHANGED <<opened, wrap, marks, relay, sentPayload, bootstrapRetries, errs, dataClosed,
                   writer, written, left, cancelled>>

Cancel ==
    /\ gone /\ ~cancelled /\ cancelled' = TRUE
    /\ UNCHANGED <<opened, wrap, marks, relay, sentPayload, bootstrapRetries, errs, dataClosed,
                   writer, written, left, gone>>

StreamNext == (\E s \in Streams : Wrapper(s)) \/ Relay \/ Writer \/ Disconnect \/ Cancel

\* An executor closes its stream once the context is done, if not before: each of its
\* sends, ClaudeExecutor's and the others', waits for the context as well.
CloseWhenCancelled(s) == cancelled /\ WrapClose(s) /\ Wrapper(s)

StreamSpec ==
    /\ StreamInit /\ [][StreamNext]_streamVars
    /\ WF_streamVars(Relay) /\ WF_streamVars(Writer) /\ WF_streamVars(Cancel)
    /\ \A s \in Streams : WF_streamVars(CloseWhenCancelled(s)) /\ WF_streamVars(WrapGiveUp(s) /\ Wrapper(s))

-----------------------------------------------------------------------------
(* Properties.                                                             *)

Got(s) == written[s] > 0

\* Whatever is retried and however late its error comes, the client gets bytes of
\* one upstream stream only, and from its first payload on.  A response that began
\* and ends as complete is complete: the client got every payload the provider
\* sent, except those a plugin dropped, of a stream that was marked a success before
\* the client saw the end, and no error waits for it.
StreamIsWhole ==
    /\ \A s, t \in Streams : Got(s) /\ Got(t) => s = t
    /\ writer = "done" /\ ~gone /\ (\E s \in Streams : Got(s)) =>
           /\ written[opened] + left[opened] = wrap[opened].sent
           /\ wrap[opened].pc = "done" /\ marks[opened] = <<"success">> /\ ~errs.full

\* Nobody waits at a channel that nobody will come to: for the one who sends, the
\* reader still runs or the context that releases both is done; an upstream stream
\* that was given up holds no chunk; and for the handler there is, once the relay has
\* ended, an error or the end to find.
NobodyWaitsAlone ==
    /\ relay = "send" => Active \/ cancelled
    /\ \A s \in Streams : wrap[s].pc \in {"data", "error"} =>
          s = opened /\ (relay = "first" \/ Active \/ cancelled)
    /\ Active /\ relay = "ended" => dataClosed \/ errs.full

\* Once the client is gone, or the response has ended, every goroutine of the
\* request ends; and before, none waits for one that is gone.
Over == writer \in {"done", "error", "gone"} /\ relay = "ended"
        /\ \A s \in Streams : wrap[s] \in {NotOpened, ErrorOnly} \/ wrap[s].pc = "done"
EverythingEnds == [][NobodyWaitsAlone']_streamVars /\ <>[](gone \/ cancelled => Over)

-----------------------------------------------------------------------------
(* What a comment says and the code does not do.                           *)

\* "Peek at the first chunk to determine success or failure before setting headers"
\* (openai_handlers.go): a request that failed without a payload ends in an error.
FailureIsTold == writer = "done" /\ ~gone => ~errs.full

-----------------------------------------------------------------------------
(* The inductive invariant.                                                *)

\* The relay reads the last stream that was opened, and opens no other once it
\* offered a payload to the client.
OneStream ==
    /\ relay = "open" => opened = 0
    /\ opened = 0 => relay \in {"open", "ended"} /\ ~dataClosed
    /\ opened <= bootstrapRetries + 1
    /\ relay = "reopen" => opened <= bootstrapRetries /\ ~sentPayload
    /\ relay = "send" => sentPayload
    /\ \A s \in Streams : s > opened => wrap[s] = NotOpened /\ marks[s] = <<>>
    /\ \A s \in Streams : Got(s) => s = opened /\ sentPayload /\ writer \notin {"none", "peek"}

\* The handler starts when the relay does, and its end cancels the context.
EndsInv ==
    /\ writer = "none" <=> relay \in {"open", "first"}
    /\ dataClosed => relay = "ended"
    /\ errs.full => relay \in {"closeErrs", "closeData", "ended"}
    /\ writer = "done" => dataClosed
    /\ cancelled => gone \/ writer \in {"done", "error", "gone"}

\* A wrapper marks a stream once: a failure before its error is handed on, a success
\* before its channel is closed.
WrappersMark ==
    \A s \in Streams :
        /\ wrap[s].pc \in {"none", "read", "data"} /\ ~wrap[s].failed => marks[s] = <<>>
        /\ wrap[s].pc = "data" => ~wrap[s].failed /\ wrap[s].sent < MaxChunks
        /\ wrap[s].pc = "error" => wrap[s].failed
        /\ wrap[s].pc = "done" /\ ~wrap[s].failed => cancelled \/ marks[s] = <<"success">>

\* The payload in the relay's hand.
Held == IF relay \in {"firstData", "data", "send"} THEN 1 ELSE 0

Whole == /\ written[opened] + left[opened] = wrap[opened].sent
         /\ wrap[opened].pc = "done" /\ marks[opened] = <<"success">>

\* While the relay reads, it accounts for each payload it took, and has not seen an
\* error; when it ends, the stream was whole, an error waits, or nobody does.
PayloadsCount ==
    /\ \A s \in Streams : written[s] + left[s] <= wrap[s].sent
    /\ relay \in {"first", "firstData", "next", "data", "send"} =>
           /\ written[opened] + left[opened] + Held = wrap[opened].sent
           /\ wrap[opened].failed => wrap[opened].pc = "error" \/ cancelled
    /\ relay \in {"closeErrs", "closeData", "ended"} =>
           gone \/ writer \in {"error", "gone"} \/ errs.full \/ (opened > 0 /\ Whole)
    /\ writer = "done" /\ ~gone /\ (\E s \in Streams : Got(s)) => Whole /\ ~errs.full

StreamInv == StreamTypeOK /\ OneStream /\ EndsInv /\ WrappersMark /\ PayloadsCount
=============================================================================
