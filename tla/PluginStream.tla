---------------------------- MODULE PluginStream ----------------------------
(***************************************************************************)
(* One streamed answer of a plugin, from its callbacks to the request.     *)
(*   internal/pluginhost/stream_bridge.go      streamBridge                *)
(*   internal/pluginhost/rpc_client_stream.go  ExecuteStream               *)
(*   internal/pluginhost/callback_contexts.go  callbackContextRegistry     *)
(*   internal/pluginhost/adapters.go           mapExecutorStreamChunks     *)
(*                                                                         *)
(* ExecuteStream opens a channel and calls the plugin, which emits chunks  *)
(* by calling back, during that call or after it returned, and closes the  *)
(* stream when it is through.  A goroutine reads the channel and hands     *)
(* over to the request's; another closes the stream when the request's     *)
(* context ends.  Emitting looks the channel up under the bridge's mutex   *)
(* and sends without it; closing takes the channel out of the map, may     *)
(* send an error and closes the channel.  A plugin emits and closes from   *)
(* one thread, that of the call or another, as those under examples/ do.   *)
(***************************************************************************)
EXTENDS Naturals, Sequences

CONSTANTS
    Capacity,    \* of the channel (16)
    MaxChunks    \* bound: chunks a plugin emits

ASSUME PluginStreamAssumption == Capacity \in Nat \ {0} /\ MaxChunks \in Nat

VARIABLES
    listed,      \* the stream is in streamBridge.streams
    channel,     \* its buffer; 0 is an error, a positive number a chunk
    shut,        \* close(channel)
    closer,      \* the close that found the stream, if it has an error to send
    emitter,     \* the plugin's thread: it emits, is in emit, or is through
    call,        \* the plugin's call: it runs, streams, gave its chunks or failed
    ended,       \* the request's context is done
    scope,       \* the callback context is open
    reader,      \* the goroutine of cleanupWhenStreamDone
    present,     \* mapExecutorStreamChunks still receives
    given,       \* what it received
    sent,        \* history: what went into the channel
    panicked     \* the process is gone: a send on a closed channel

pluginStreamVars == <<listed, channel, shut, closer, emitter, call, ended, scope, reader,
                      present, given, sent, panicked>>

Error == 0
Chunks == 0..MaxChunks

PluginStreamTypeOK ==
    /\ {listed, shut, ended, scope, present, panicked} \subseteq BOOLEAN
    /\ channel \in Seq(Chunks) /\ Len(channel) <= Capacity
    /\ closer \in {"none", "send", "close", "done"}
    /\ emitter \in [at: {"runs", "sends", "through"}, next: 1..MaxChunks + 1]
    /\ call \in {"in", "streams", "chunks", "failed"}
    /\ reader \in [at: {"none", "reads", "offers", "cleans", "done"}, chunk: Chunks]
    /\ given \in Seq(Chunks) /\ sent \in Seq(Chunks)

PluginStreamInit ==
    /\ listed = TRUE /\ shut = FALSE /\ scope = TRUE /\ ended = FALSE /\ present = TRUE
    /\ panicked = FALSE
    /\ channel = <<>> /\ given = <<>> /\ sent = <<>>
    /\ closer = "none" /\ call = "in"
    /\ emitter = [at |-> "runs", next |-> 1]
    /\ reader = [at |-> "none", chunk |-> Error]

Send(x) == channel' = Append(channel, x) /\ sent' = Append(sent, x)
HasRoom == Len(channel) < Capacity

-----------------------------------------------------------------------------
(* The plugin.                                                             *)

\* emit finds the channel.  Else it returns an error and the plugin stops.
BeginEmit ==
    /\ emitter.at = "runs" /\ emitter.next <= MaxChunks
    /\ emitter' = [emitter EXCEPT !.at = IF listed THEN "sends" ELSE "through"]
    /\ UNCHANGED <<listed, channel, shut, closer, call, ended, scope, reader, present, given,
                   sent, panicked>>

\* The callback's context is never done, so only room lets the send go on.
Emit ==
    /\ emitter.at = "sends" /\ (HasRoom \/ shut)
    /\ IF shut THEN panicked' = TRUE /\ UNCHANGED <<channel, sent, emitter>>
       ELSE /\ Send(emitter.next)
            /\ emitter' = [at |-> "runs", next |-> emitter.next + 1]
            /\ UNCHANGED panicked
    /\ UNCHANGED <<listed, shut, closer, call, ended, scope, reader, present, given>>

\* Mutant: without an error to send the channel stays open.
CloseOnlyErrors(error) ==
    /\ listed' = FALSE
    /\ UNCHANGED shut
    /\ closer' = IF listed /\ error THEN "send" ELSE closer

\* streamBridge.close.  Without an error it only closes the channel, which nobody
\* can tell from one step.
Close(error) ==
    /\ listed' = FALSE
    /\ IF ~listed THEN UNCHANGED <<shut, closer>>
       ELSE IF error THEN closer' = "send" /\ UNCHANGED shut
       ELSE shut' = TRUE /\ UNCHANGED closer

PluginCloses(error) ==
    /\ emitter.at = "runs"
    /\ emitter' = [emitter EXCEPT !.at = "through"]
    /\ Close(error)
    /\ UNCHANGED <<channel, call, ended, scope, reader, present, given, sent, panicked>>

-----------------------------------------------------------------------------
(* The host.                                                               *)

\* Mutant: the callbacks end with the call, as if every plugin had emitted by then.
CallReturnsAndCleans ==
    /\ call = "in"
    /\ call' = "streams" /\ scope' = FALSE
    /\ reader' = [reader EXCEPT !.at = "reads"]
    /\ UNCHANGED <<listed, channel, shut, closer, emitter, ended, present, given, sent,
                   panicked>>

\* ExecuteStream goes on: an async plugin streams from now on.
CallReturns ==
    /\ call = "in"
    /\ call' = "streams"
    /\ reader' = [reader EXCEPT !.at = "reads"]
    /\ UNCHANGED <<listed, channel, shut, closer, emitter, ended, scope, present, given, sent,
                   panicked>>

\* The call failed, or brought all chunks with it: combinedCleanup.
CallEnds(how) ==
    /\ call = "in"
    /\ call' = how
    /\ Close(FALSE) /\ scope' = FALSE
    /\ UNCHANGED <<channel, emitter, ended, reader, present, given, sent, panicked>>

SendError ==
    /\ closer = "send" /\ HasRoom
    /\ Send(Error) /\ closer' = "close"
    /\ UNCHANGED <<listed, shut, emitter, call, ended, scope, reader, present, given, panicked>>

CloseChannel ==
    /\ closer = "close"
    /\ shut' = TRUE /\ closer' = "done"
    /\ UNCHANGED <<listed, channel, emitter, call, ended, scope, reader, present, given, sent,
                   panicked>>

\* The client has left.
ContextEnds ==
    /\ ~ended
    /\ ended' = TRUE
    /\ UNCHANGED <<listed, channel, shut, closer, emitter, call, scope, reader, present, given,
                   sent, panicked>>

\* The goroutine of open that waits for the context.
CloseOnEnd ==
    /\ ended /\ listed /\ Close(TRUE)
    /\ UNCHANGED <<channel, emitter, call, ended, scope, reader, present, given, sent, panicked>>

\* Mutant: reading stops when the channel is closed, empty or not.
ReadUntilClosed ==
    /\ reader.at = "reads" /\ (shut \/ channel # <<>>)
    /\ IF shut THEN reader' = [reader EXCEPT !.at = "cleans"] /\ UNCHANGED channel
       ELSE reader' = [at |-> "offers", chunk |-> Head(channel)] /\ channel' = Tail(channel)
    /\ UNCHANGED <<listed, shut, closer, emitter, call, ended, scope, present, given, sent,
                   panicked>>

\* for chunk := range chunks.
ReadChunk ==
    /\ reader.at = "reads"
    /\ IF channel # <<>>
       THEN reader' = [at |-> "offers", chunk |-> Head(channel)] /\ channel' = Tail(channel)
       ELSE shut /\ reader' = [reader EXCEPT !.at = "cleans"] /\ UNCHANGED channel
    /\ UNCHANGED <<listed, shut, closer, emitter, call, ended, scope, present, given, sent,
                   panicked>>

\* The two goroutines meet.
HandOver ==
    /\ reader.at = "offers" /\ present
    /\ given' = Append(given, reader.chunk)
    /\ reader' = [reader EXCEPT !.at = "reads"]
    /\ UNCHANGED <<listed, channel, shut, closer, emitter, call, ended, scope, present, sent,
                   panicked>>

ReaderLeaves ==
    /\ reader.at = "offers" /\ ended
    /\ reader' = [reader EXCEPT !.at = "cleans"]
    /\ UNCHANGED <<listed, channel, shut, closer, emitter, call, ended, scope, present, given,
                   sent, panicked>>

RequestLeaves ==
    /\ present /\ ended
    /\ present' = FALSE
    /\ UNCHANGED <<listed, channel, shut, closer, emitter, call, ended, scope, reader, given,
                   sent, panicked>>

\* combinedCleanup, then close(out).
Clean ==
    /\ reader.at = "cleans"
    /\ reader' = [reader EXCEPT !.at = "done"]
    /\ Close(FALSE) /\ scope' = FALSE
    /\ UNCHANGED <<channel, emitter, call, ended, present, given, sent, panicked>>

PluginStep == BeginEmit \/ Emit \/ \E error \in BOOLEAN : PluginCloses(error)
HostStep ==
    \/ SendError \/ CloseChannel \/ CloseOnEnd
    \/ ReadChunk \/ HandOver \/ ReaderLeaves \/ RequestLeaves \/ Clean

PluginStreamNext ==
    /\ ~panicked
    /\ \/ PluginStep \/ HostStep \/ ContextEnds
       \/ CallReturns \/ (\E how \in {"chunks", "failed"} : CallEnds(how))

PluginStreamSpec == PluginStreamInit /\ [][PluginStreamNext]_pluginStreamVars

-----------------------------------------------------------------------------
(* Properties.                                                             *)

\* A request that waited for the end received all that the plugin sent, in order.
WholeIfWaited == reader.at = "done" /\ ~ended => given = sent

\* The plugin's callbacks work as long as its stream does, and no longer than the
\* request is served.
ScopeFollowsStream ==
    /\ listed => scope
    /\ reader.at = "done" \/ call \in {"chunks", "failed"} => ~scope /\ ~listed

\* What the host's goroutines wait for is there: HostStep is enabled.
HostCanStep ==
    \/ (closer = "send" /\ HasRoom) \/ closer = "close"
    \/ ended /\ (listed \/ present)
    \/ reader.at = "reads" /\ (channel # <<>> \/ shut)
    \/ reader.at = "offers" /\ (present \/ ended)
    \/ reader.at = "cleans"

\* A stream that was closed, by whoever it was, comes to its end: the host has a step
\* to take until the request's channel is closed.
ClosedComesToEnd ==
    ~listed /\ call = "streams" /\ ~panicked /\ reader.at # "done" => HostCanStep

\* A plugin's stream is given whole to a request that waits for it, keeps the plugin's
\* callbacks alive exactly as long, and ends once it is closed.
PluginStreamIsKept == WholeIfWaited /\ ScopeFollowsStream /\ ClosedComesToEnd

-----------------------------------------------------------------------------
(* The inductive invariant.                                                *)

\* The stream is listed until one close finds it; the error it may send comes
\* before the channel is closed.
ClosedOnce ==
    /\ listed <=> closer = "none" /\ ~shut
    /\ closer \in {"send", "close"} => ~shut
    /\ closer = "done" => shut

InHand == IF reader.at = "offers" THEN <<reader.chunk>> ELSE <<>>

\* Until the request's context ends, what was sent is what was received, what the
\* reader holds and what the channel buffers; the reader stops at the end of it.
NothingIsLost ==
    ~ended =>
        /\ present /\ sent = (given \o InHand) \o channel
        /\ reader.at \in {"cleans", "done"} => shut /\ channel = <<>>

\* What is being sent is a chunk of the plugin; it is read once the call returned.
Positions ==
    /\ emitter.at = "sends" => emitter.next <= MaxChunks
    /\ reader.at = "none" <=> call # "streams"

PluginStreamInv ==
    PluginStreamTypeOK /\ Positions /\ ClosedOnce /\ NothingIsLost /\ ScopeFollowsStream
==============================================================================
