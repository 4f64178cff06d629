---------------------------- MODULE UsageRecords ----------------------------
(***************************************************************************)
(* The usage record of each upstream request, on its way to the readers.   *)
(*   sdk/cliproxy/usage/manager.go       Manager                           *)
(*   internal/redisqueue                 the queue plugin and its queue    *)
(*   internal/usagepersist/plugin.go     the file plugin                   *)
(*   internal/api/redis_queue_protocol.go, internal/api/handlers/          *)
(*     management/usage.go               who subscribes and pops           *)
(*   sdk/cliproxy/service.go             the forwarder to a home server,   *)
(*                                       Shutdown                          *)
(*                                                                         *)
(* Requests publish records; one dispatcher hands each to the two plugins, *)
(* in the order in which their packages are initialised.  The queue plugin *)
(* gives a record to all subscribers or, if there is none, keeps it for    *)
(* whoever pops, for a time.  With a home server nobody subscribes, and a  *)
(* forwarder pops and pushes.  Records are numbered as they are published. *)
(* The statistics stay switched on, and a day is one file.                 *)
(***************************************************************************)
EXTENDS Integers, FiniteSets, SequencesExt

CONSTANTS
    MaxRecords,      \* bound: records published
    Subscribers,     \* connections that subscribe
    Room,            \* places in a subscriber's channel
    WriteRoom,       \* places in the channel of the file plugin
    Retention,       \* how long the queue keeps a record, in ticks
    MaxBatch         \* records the forwarder pops at once

ASSUME UsageAssumption ==
    /\ MaxRecords \in Nat /\ Room \in Nat \ {0} /\ WriteRoom \in Nat \ {0}
    /\ Retention \in Nat \ {0} /\ MaxBatch \in Nat \ {0}

VARIABLES
    home,            \* the configuration has a home server
    published,       \* how many records were published
    backlog,         \* usage.Manager.queue
    ended,           \* usage.Manager.closed
    handing,         \* the dispatcher
    enabled,         \* redisqueue.enabled
    items,            \* redisqueue.global.items
    sub,             \* redisqueue.global.subscribers and their connections
    forward,         \* the forwarder: what it popped and has not pushed
    writes,          \* usagepersist.writeQueue
    outcome          \* history: where records ended

usageVars == <<home, published, backlog, ended, handing, enabled, items, sub,
               forward, writes, outcome>>

Records == 1..MaxRecords
Refresh == 0         \* the payloads that are no records

Sub == [open: BOOLEAN, chan: Seq(Records \cup {Refresh}),
        from: Nat, got: Seq(Records)]      \* history: what came before, and what was read
NoSub == [open |-> FALSE, chan |-> <<>>, from |-> 0, got |-> <<>>]

UsageTypeOK ==
    /\ home \in BOOLEAN /\ published \in 0..MaxRecords /\ backlog \in Seq(Records)
    /\ ended \in BOOLEAN /\ enabled \in BOOLEAN
    /\ handing \in [at: {"idle", "check", "offer", "keep", "file"}, rec: 0..MaxRecords]
    /\ items \in Seq([rec: Records, left: 0..Retention])
    /\ sub \in [Subscribers -> Sub]
    /\ forward \in [state: {"on", "canceled", "over"}, batch: Seq(Records)]
    /\ writes \in Seq(Records)
    /\ outcome \in [sent: Seq(Records), popped: Seq(Records), written: Seq(Records),
                    unwritten: SUBSET Records, arrived: SUBSET Records,
                    expired: SUBSET Records]

UsageInit ==
    /\ home \in BOOLEAN /\ published = 0 /\ backlog = <<>> /\ ended = FALSE
    /\ handing = [at |-> "idle", rec |-> 0] /\ enabled = TRUE /\ items = <<>>
    /\ sub = [s \in Subscribers |-> NoSub]
    /\ forward = [state |-> IF home THEN "on" ELSE "over", batch |-> <<>>]
    /\ writes = <<>>
    /\ outcome = [sent |-> <<>>, popped |-> <<>>, written |-> <<>>, unwritten |-> {},
                  arrived |-> {}, expired |-> {}]

-----------------------------------------------------------------------------
(* usage.Manager.                                                          *)

\* Publish; after Stop a record is not taken.
PublishUsage ==
    /\ published < MaxRecords /\ ~ended
    /\ published' = published + 1 /\ backlog' = Append(backlog, published')
    /\ UNCHANGED <<home, ended, handing, enabled, items, sub, forward, writes, outcome>>

\* Shutdown cancels the forwarder, then stops the dispatcher.
Shutdown ==
    /\ \/ forward.state = "on" /\ forward' = [forward EXCEPT !.state = "canceled"]
          /\ UNCHANGED ended
       \/ forward.state # "on" /\ ~ended /\ ended' = TRUE /\ UNCHANGED forward
    /\ UNCHANGED <<home, published, backlog, handing, enabled, items, sub, writes, outcome>>

\* Mutant: run ends as soon as it is told to.
TakeRecordUntilEnded ==
    /\ handing.at = "idle" /\ backlog # <<>> /\ ~ended
    /\ handing' = [at |-> "check", rec |-> Head(backlog)] /\ backlog' = Tail(backlog)
    /\ UNCHANGED <<home, published, ended, enabled, items, sub, forward, writes, outcome>>

\* run, which goes on after Stop until the queue is empty.
TakeRecord ==
    /\ handing.at = "idle" /\ backlog # <<>>
    /\ handing' = [at |-> "check", rec |-> Head(backlog)] /\ backlog' = Tail(backlog)
    /\ UNCHANGED <<home, published, ended, enabled, items, sub, forward, writes, outcome>>

-----------------------------------------------------------------------------
(* The queue plugin.                                                       *)

HandTo(at) == handing' = [handing EXCEPT !.at = at]

\* Enqueue reads whether the queue is enabled ...
CheckEnabled ==
    /\ handing.at = "check" /\ HandTo(IF enabled THEN "offer" ELSE "file")
    /\ UNCHANGED <<home, published, backlog, ended, enabled, items, sub, forward, writes,
                   outcome>>

\* Mutant: a subscriber without room misses a payload and stays.
OfferedOrSkipped(payload) ==
    [s \in Subscribers |->
        IF sub[s].open /\ Len(sub[s].chan) < Room
        THEN [sub[s] EXCEPT !.chan = Append(@, payload)] ELSE sub[s]]

\* publishToSubscribers; a subscriber without room is closed.
Offered(payload) ==
    [s \in Subscribers |->
        IF ~sub[s].open THEN sub[s]
        ELSE IF Len(sub[s].chan) < Room
        THEN [sub[s] EXCEPT !.chan = Append(@, payload)]
        ELSE [sub[s] EXCEPT !.open = FALSE]]

Subscribed == \E s \in Subscribers : sub[s].open

\* ... then offers the record to the subscribers ...
Offer ==
    /\ handing.at = "offer" /\ HandTo(IF Subscribed THEN "file" ELSE "keep")
    /\ sub' = Offered(handing.rec)
    /\ outcome' = IF Subscribed THEN [outcome EXCEPT !.sent = Append(@, handing.rec)]
                  ELSE outcome
    /\ UNCHANGED <<home, published, backlog, ended, enabled, items, forward, writes>>

\* Records at the head whose time is over are dropped when the queue is used.
Outdated == Cardinality({i \in DOMAIN items : \A j \in 1..i : items[j].left = 0})
Pruned == SubSeq(items, Outdated + 1, Len(items))
PrunedRecords == {items[i].rec : i \in 1..Outdated}
KeptNow(recs) == [i \in DOMAIN recs |-> [rec |-> recs[i], left |-> Retention]]

\* ... and keeps it, enabled or not by now.
Keep ==
    /\ handing.at = "keep" /\ HandTo("file")
    /\ items' = Pruned \o KeptNow(<<handing.rec>>)
    /\ outcome' = [outcome EXCEPT !.expired = @ \cup PrunedRecords]
    /\ UNCHANGED <<home, published, backlog, ended, enabled, sub, forward, writes>>

\* A configuration turns the management API on or off; off clears the queue and
\* closes the subscribers.
SetEnabled ==
    /\ ~home /\ enabled' = ~enabled
    /\ IF enabled THEN /\ items' = <<>>
                       /\ sub' = [s \in Subscribers |-> [sub[s] EXCEPT !.open = FALSE]]
       ELSE UNCHANGED <<items, sub>>
    /\ UNCHANGED <<home, published, backlog, ended, handing, forward, writes, outcome>>

\* NotifyUsageRefresh, from the watcher.
NotifyRefresh ==
    /\ Subscribed /\ sub' = Offered(Refresh)
    /\ UNCHANGED <<home, published, backlog, ended, handing, enabled, items, forward, writes,
                   outcome>>

UsageTick ==
    /\ \E i \in DOMAIN items : items[i].left > 0
    /\ items' = [i \in DOMAIN items |-> [items[i] EXCEPT !.left = IF @ > 0 THEN @ - 1 ELSE 0]]
    /\ UNCHANGED <<home, published, backlog, ended, handing, enabled, sub, forward, writes,
                   outcome>>

-----------------------------------------------------------------------------
(* Who reads the queue.                                                    *)

\* SUBSCRIBE, on a new connection.
Subscribe(s) ==
    /\ ~home /\ ~sub[s].open /\ sub[s].chan = <<>>
    /\ sub' = [sub EXCEPT ![s] = [open |-> TRUE, chan |-> <<Refresh>>,
                                  from |-> Len(outcome.sent), got |-> <<>>]]
    /\ UNCHANGED <<home, published, backlog, ended, handing, enabled, items, forward, writes,
                   outcome>>

\* The connection passes on what is in the channel, closed or not.
ReadSub(s) ==
    /\ sub[s].chan # <<>>
    /\ sub' = [sub EXCEPT ![s].chan = Tail(@),
                          ![s].got = IF Head(sub[s].chan) = Refresh THEN @
                                     ELSE Append(@, Head(sub[s].chan))]
    /\ UNCHANGED <<home, published, backlog, ended, handing, enabled, items, forward, writes,
                   outcome>>

\* UNSUBSCRIBE, QUIT or a connection that breaks: nobody reads the rest.
Unsubscribe(s) ==
    /\ sub[s].open \/ sub[s].chan # <<>>
    /\ sub' = [sub EXCEPT ![s].open = FALSE, ![s].chan = <<>>]
    /\ UNCHANGED <<home, published, backlog, ended, handing, enabled, items, forward, writes,
                   outcome>>

\* PopOldest(n), which removes n records or what there is.
Unpopped(n) == SubSeq(Pruned, n + 1, Len(Pruned))
Popped(n) == SubSeq(Pruned, 1, Len(Pruned) - Len(Unpopped(n)))
RecordsIn(some) == [i \in DOMAIN some |-> some[i].rec]

\* LPOP, RPOP and GET of the management API.
Pop(n) ==
    /\ ~home /\ enabled /\ items # <<>>
    /\ items' = Unpopped(n)
    /\ outcome' = [outcome EXCEPT !.popped = @ \o RecordsIn(Popped(n)),
                                  !.expired = @ \cup PrunedRecords]
    /\ UNCHANGED <<home, published, backlog, ended, handing, enabled, sub, forward, writes>>

-----------------------------------------------------------------------------
(* The forwarder to the home server.                                       *)

\* While the home server answers heartbeats.
PopBatch ==
    /\ forward.state = "on" /\ forward.batch = <<>> /\ items # <<>>
    /\ items' = Unpopped(MaxBatch)
    /\ forward' = [forward EXCEPT !.batch = RecordsIn(Popped(MaxBatch))]
    /\ outcome' = [outcome EXCEPT !.expired = @ \cup PrunedRecords]
    /\ UNCHANGED <<home, published, backlog, ended, handing, enabled, sub, writes>>

Push ==
    /\ forward.state = "on" /\ forward.batch # <<>>
    /\ forward' = [forward EXCEPT !.batch = Tail(@)]
    /\ outcome' = [outcome EXCEPT !.arrived = @ \cup {Head(forward.batch)}]
    /\ UNCHANGED <<home, published, backlog, ended, handing, enabled, items, sub, writes>>

\* Mutant: the record that failed is dropped.
PushFailsAndDrops ==
    /\ forward.state # "over" /\ forward.batch # <<>>
    /\ forward' = [forward EXCEPT !.batch = <<>>,
                                  !.state = IF @ = "canceled" THEN "over" ELSE @]
    /\ items' = Pruned \o KeptNow(Tail(forward.batch))
    /\ \E arrived \in SUBSET {Head(forward.batch)} :
           outcome' = [outcome EXCEPT !.expired = @ \cup PrunedRecords,
                                      !.arrived = @ \cup arrived]
    /\ UNCHANGED <<home, published, backlog, ended, handing, enabled, sub, writes>>

\* A push fails, though the record may have arrived: it and the rest go back to
\* the end of the queue, as new.  A cancelled forwarder ends there.
PushFails ==
    /\ forward.state # "over" /\ forward.batch # <<>>
    /\ forward' = [forward EXCEPT !.batch = <<>>,
                                  !.state = IF @ = "canceled" THEN "over" ELSE @]
    /\ items' = Pruned \o KeptNow(forward.batch)
    /\ \E arrived \in SUBSET {Head(forward.batch)} :
           outcome' = [outcome EXCEPT !.expired = @ \cup PrunedRecords,
                                      !.arrived = @ \cup arrived]
    /\ UNCHANGED <<home, published, backlog, ended, handing, enabled, sub, writes>>

ForwarderEnds ==
    /\ forward.state = "canceled" /\ forward.batch = <<>>
    /\ forward' = [forward EXCEPT !.state = "over"]
    /\ UNCHANGED <<home, published, backlog, ended, handing, enabled, items, sub, writes,
                   outcome>>

-----------------------------------------------------------------------------
(* The file plugin.                                                        *)

HandleFile ==
    /\ handing.at = "file" /\ HandTo("idle")
    /\ IF Len(writes) < WriteRoom
       THEN writes' = Append(writes, handing.rec) /\ UNCHANGED outcome
       ELSE /\ outcome' = [outcome EXCEPT !.unwritten = @ \cup {handing.rec}]
            /\ UNCHANGED writes
    /\ UNCHANGED <<home, published, backlog, ended, enabled, items, sub, forward>>

\* usageWorker; what cannot be written is logged and lost.
WriteUsage ==
    /\ writes # <<>> /\ writes' = Tail(writes)
    /\ \/ outcome' = [outcome EXCEPT !.written = Append(@, Head(writes))]
       \/ outcome' = [outcome EXCEPT !.unwritten = @ \cup {Head(writes)}]
    /\ UNCHANGED <<home, published, backlog, ended, handing, enabled, items, sub, forward>>

-----------------------------------------------------------------------------
DispatchUsage == TakeRecord \/ CheckEnabled \/ Offer \/ Keep \/ HandleFile

UsageNext ==
    \/ PublishUsage \/ Shutdown \/ DispatchUsage \/ SetEnabled \/ NotifyRefresh \/ UsageTick
    \/ \E s \in Subscribers : Subscribe(s) \/ ReadSub(s) \/ Unsubscribe(s)
    \/ \E n \in 1..Len(items) : Pop(n)
    \/ PopBatch \/ Push \/ PushFails \/ ForwarderEnds \/ WriteUsage

\* The dispatcher, the worker and the forwarder go on; and a home server that is
\* asked again and again answers at some time.
UsageSpec ==
    /\ UsageInit /\ [][UsageNext]_usageVars
    /\ WF_usageVars(DispatchUsage) /\ WF_usageVars(WriteUsage) /\ WF_usageVars(PopBatch)
    /\ WF_usageVars(ForwarderEnds) /\ SF_usageVars(Push) /\ WF_usageVars(PushFails)

-----------------------------------------------------------------------------
(* Properties.                                                             *)

Rising(recs) == \A i, j \in DOMAIN recs : i < j => recs[i] < recs[j]

\* How many of the first payloads in a channel are records.
RecordsAmong(chan, n) == Cardinality({i \in 1..n : chan[i] # Refresh})

\* What a subscriber was handed is, record by record and with no gap, what was
\* sent since it subscribed, all of it while it is open: one that falls behind is
\* closed, not skipped.  A record goes to subscribers or to who pops, never to
\* both, and to each in the order of publication; so it does to the file.
UsageInOrder ==
    /\ \A s \in Subscribers :
          LET chan == sub[s].chan
              read == sub[s].from + Len(sub[s].got)
              handed == read + RecordsAmong(chan, Len(chan))
          IN  /\ handed <= Len(outcome.sent) /\ (sub[s].open => handed = Len(outcome.sent))
              /\ sub[s].got = SubSeq(outcome.sent, sub[s].from + 1, read)
              /\ \A i \in DOMAIN chan : chan[i] # Refresh =>
                    chan[i] = outcome.sent[read + RecordsAmong(chan, i)]
    /\ Rising(outcome.sent) /\ Rising(outcome.popped) /\ Rising(outcome.written)
    /\ ToSet(outcome.sent) \cap (ToSet(outcome.popped) \cup ToSet(RecordsIn(items))) = {}

\* With the dispatcher, before it has handed the record on at one of the stages.
Undispatched(r, stages) ==
    r \in ToSet(backlog) \/ (handing.at \in stages /\ handing.rec = r)
FileHas(r) ==
    \/ Undispatched(r, {"check", "offer", "keep", "file"}) \/ r \in ToSet(writes)
    \/ r \in ToSet(outcome.written) \/ r \in outcome.unwritten
HomeHas(r) ==
    \/ Undispatched(r, {"check", "offer", "keep"})
    \/ r \in ToSet(RecordsIn(items)) \/ r \in ToSet(forward.batch)
    \/ r \in outcome.arrived \/ r \in outcome.expired

\* No record falls between two of its stages: until its end at the file it is with
\* the dispatcher or the file plugin; and with a home server it is, until it arrived
\* or was kept too long, with the dispatcher, the queue or the forwarder, also when a
\* push of its batch has failed.
NoRecordVanishes == \A r \in 1..published : FileHas(r) /\ (home => HomeHas(r))

\* Every record published is at last handed to the file, also when Stop came
\* meanwhile; and with a home server it arrives there unless it waited longer than
\* records are kept or the forwarder was cancelled.  On its way it is never lost.
UsageArrives ==
    /\ [][NoRecordVanishes']_usageVars
    /\ <>[](\A r \in 1..published :
               /\ r \in ToSet(outcome.written) \cup outcome.unwritten
               /\ home => r \in outcome.arrived \cup outcome.expired \/ forward.state # "on")

-----------------------------------------------------------------------------
(* What the documentation says and the code does not do.                   *)

\* service.go: the record goes to the home server, once.
ArrivesOnce ==
    [][forward.batch # <<>> /\ Head(forward.batch) \in outcome.arrived => ~Push]_usageVars

\* queue_test.go: switched off, the queue is empty.
OffIsEmpty == enabled \/ items = <<>>
==============================================================================
