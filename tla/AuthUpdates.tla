----------------------------- MODULE AuthUpdates -----------------------------
(***************************************************************************)
(* How a change of an auth file, or of a websocket provider, reaches the   *)
(* manager.                                                                *)
(*                                                                         *)
(* Several goroutines of the watcher compute updates: the one that handles *)
(* file events (internal/watcher/events.go, clients.go), a reload of the   *)
(* configuration, a login that has just saved its file, and the relay when *)
(* a provider connects or is gone.  Each compares with currentAuths under  *)
(* clientsMutex, lets go of it, and hands its updates on afterwards, under *)
(* dispatchMu (dispatcher.go).  One loop passes them to a channel, and the *)
(* service applies them (sdk/cliproxy/service.go).                         *)
(*                                                                         *)
(* A file holds one auth.  Its content is a number, 0 if there is no file; *)
(* an update with content 0 is a deletion, any other an addition or a      *)
(* modification, which the service does not tell apart.                    *)
(***************************************************************************)
EXTENDS Naturals, Sequences, FiniteSets, SequencesExt

CONSTANTS
    Files,        \* the auths of files
    Logins,       \* those that a login may save
    Channels,     \* the auths of websocket providers; a name is used once
    Contents,     \* of a file
    QueueSize,    \* of the service's channel
    MaxStimuli    \* bound: file changes, logins, reloads and connections

ASSUME UpdatesAssumption ==
    /\ Logins \subseteq Files /\ IsFiniteSet(Files) /\ IsFiniteSet(Channels)
    /\ Files \cap Channels = {} /\ {"events", "reload", "login"} \cap Channels = {}
    /\ Contents \subseteq Nat \ {0}
    /\ QueueSize \in Nat \ {0} /\ MaxStimuli \in Nat

Absent == 0
AuthIds == Files \cup Channels
Producers == {"events", "reload", "login"} \cup Channels
Updates == [id: AuthIds, content: {Absent, 1} \cup Contents]

VARIABLES
    file,         \* the directory
    notices,      \* file events that were not handled
    recent,       \* files whose last removal event is less than a second old
    hash,         \* lastAuthHashes
    known,        \* fileAuthsByPath
    current,      \* currentAuths
    runtime,      \* runtimeAuths
    at,           \* where each goroutine is
    held,         \* the updates each one computed and did not hand on
    event,        \* the file, content and earlier auth of the event in hand
    snap,         \* what the reload read of the directory
    login,        \* the login's file and its content
    pending,      \* pendingUpdates, in pendingOrder
    asleep,       \* the loop waits on dispatchCond
    batch, queue, \* what the loop, the channel and the service have
    taken, draining,
    manager,      \* the auths the manager has
    said,         \* history: the last update handed on, of each auth
    stimuli       \* bound: stimuli left

watchVars == <<file, notices, recent, hash, known, current, runtime, at, held, event, snap, login>>
pipeVars == <<pending, asleep, batch, queue, taken, draining, manager, said>>
updateVars == <<watchVars, pipeVars, stimuli>>

NoEvent == [id |-> "none", content |-> Absent, old |-> FALSE]
NoSave == [id |-> "none", content |-> Absent]

UpdatesTypeOK ==
    /\ file \in [Files -> {Absent} \cup Contents]
    /\ notices \in Seq([id: Files, removal: BOOLEAN])
    /\ recent \subseteq Files /\ known \subseteq Files
    /\ hash \in [Files -> {Absent} \cup Contents]
    /\ current \in [AuthIds -> {Absent, 1} \cup Contents]
    /\ runtime \subseteq Channels
    /\ at \in [Producers -> {"idle", "snapshot", "diff", "compute", "record",
                             "dispatch", "on", "gone"}]
    /\ held \in [Producers -> SUBSET Updates]
    /\ event \in [id: Files, content: Contents, old: BOOLEAN] \cup {NoEvent}
    /\ snap \in [Files -> {Absent} \cup Contents]
    /\ login \in [id: Files, content: Contents] \cup {NoSave}
    /\ \A s \in {pending, batch, queue, taken} : s \in Seq(Updates)
    /\ Len(queue) <= QueueSize /\ draining \in BOOLEAN /\ asleep \in BOOLEAN
    /\ manager \in [AuthIds -> {Absent, 1} \cup Contents]
    /\ said \in [AuthIds -> {Absent, 1} \cup Contents]
    /\ stimuli \in 0..MaxStimuli

\* The watcher has started: everyone has what is in the files.
UpdatesInit ==
    /\ file \in [Files -> {Absent} \cup Contents] /\ notices = <<>>
    /\ recent = {} /\ hash = file /\ known = {f \in Files : file[f] # Absent}
    /\ current = [a \in AuthIds |-> IF a \in Files THEN file[a] ELSE Absent] /\ runtime = {}
    /\ at = [p \in Producers |-> "idle"] /\ held = [p \in Producers |-> {}]
    /\ event = NoEvent /\ snap = [f \in Files |-> Absent] /\ login = NoSave
    /\ pending = <<>> /\ asleep = FALSE /\ batch = <<>> /\ queue = <<>> /\ taken = <<>> /\ draining = FALSE
    /\ manager = current /\ said = current
    /\ stimuli = MaxStimuli

Goes(p, next) == at' = [at EXCEPT ![p] = next]
Stimulus == stimuli > 0 /\ stimuli' = stimuli - 1

\* What is still to be handed on, if anything.
Hands(p, us, next) ==
    /\ held' = [held EXCEPT ![p] = us]
    /\ Goes(p, IF us = {} THEN next ELSE "dispatch")

-----------------------------------------------------------------------------
(* The directory and its events.                                           *)

Notice(f, removal) == notices' = Append(notices, [id |-> f, removal |-> removal])

WriteFile(f) ==
    /\ Stimulus
    /\ \E c \in Contents \ {file[f]} : file' = [file EXCEPT ![f] = c]
    /\ Notice(f, FALSE)
    /\ UNCHANGED <<recent, hash, known, current, runtime, at, held, event, snap, login, pipeVars>>

RemoveFile(f) ==
    /\ Stimulus
    /\ file[f] # Absent /\ file' = [file EXCEPT ![f] = Absent]
    /\ Notice(f, TRUE)
    /\ UNCHANGED <<recent, hash, known, current, runtime, at, held, event, snap, login, pipeVars>>

\* A second passes since the last removal of f.
Settle(f) ==
    /\ f \in recent /\ recent' = recent \ {f}
    /\ UNCHANGED <<file, notices, hash, known, current, runtime, at, held, event, snap, login,
                   pipeVars, stimuli>>

\* The event, when a removal is not one of a second ago.
Swallowed(e) == e.removal /\ e.id \in recent

\* removeClientLocked.
Forget(f) ==
    /\ hash' = [hash EXCEPT ![f] = Absent] /\ known' = known \ {f}
    /\ IF f \in known
       THEN /\ current' = [current EXCEPT ![f] = Absent]
            /\ Hands("events", {[id |-> f, content |-> Absent]}, "idle")
       ELSE UNCHANGED <<current, at, held>>
    /\ UNCHANGED event

\* addOrUpdateClientLocked, up to its first unlock.
Note(f) ==
    /\ hash' = [hash EXCEPT ![f] = file[f]]
    /\ event' = [id |-> f, content |-> file[f], old |-> f \in known]
    /\ Goes("events", "compute")
    /\ UNCHANGED <<known, current, held>>

\* handleEvent looks at the file as it is now.
HandleEvent ==
    /\ at["events"] = "idle" /\ notices # <<>> /\ notices' = Tail(notices)
    /\ LET e == Head(notices) IN
        /\ recent' = IF e.removal THEN recent \cup {e.id} ELSE recent
        /\ IF ~Swallowed(e) /\ file[e.id] # Absent /\ file[e.id] # hash[e.id] THEN Note(e.id)
           ELSE IF ~Swallowed(e) /\ file[e.id] = Absent /\ e.removal /\ hash[e.id] # Absent
           THEN Forget(e.id)
           ELSE UNCHANGED <<hash, known, current, at, held, event>>
    /\ UNCHANGED <<file, runtime, snap, login, pipeVars, stimuli>>

\* computePerPathUpdatesLocked, for a file that still holds its auth.
ComputeUpdates ==
    /\ at["events"] = "compute"
    /\ LET f == event.id IN
        /\ known' = known \cup {f}
        /\ current' = [current EXCEPT ![f] = event.content]
        /\ Hands("events", IF current[f] = event.content THEN {}
                           ELSE {[id |-> f, content |-> event.content]}, "idle")
    /\ event' = NoEvent
    /\ UNCHANGED <<file, notices, recent, hash, runtime, snap, login, pipeVars, stimuli>>

-----------------------------------------------------------------------------
(* A reload of the configuration.                                          *)

\* reloadClients: the auths of some providers may be dropped from currentAuths.
BeginReload ==
    /\ at["reload"] = "idle" /\ Stimulus
    /\ \E dropped \in SUBSET AuthIds :
            current' = [a \in AuthIds |-> IF a \in dropped THEN Absent ELSE current[a]]
    /\ Goes("reload", "snapshot")
    /\ UNCHANGED <<file, notices, recent, hash, known, runtime, held, event, snap, login, pipeVars>>

\* refreshAuthState reads the directory with no lock held ...
Snapshot ==
    /\ at["reload"] = "snapshot" /\ snap' = file
    /\ Goes("reload", "diff")
    /\ UNCHANGED <<file, notices, recent, hash, known, current, runtime, held, event, login,
                   pipeVars, stimuli>>

\* ... and then compares, with the runtime auths as they are now.  force: auths
\* are handed on although nothing changed.
Diff ==
    /\ at["reload"] = "diff"
    /\ LET new == [a \in AuthIds |-> IF a \in Files THEN snap[a]
                                 ELSE IF a \in runtime THEN 1 ELSE Absent] IN
        /\ current' = new
        /\ \E force \in BOOLEAN :
            Hands("reload", {[id |-> a, content |-> new[a]] :
                        a \in {b \in AuthIds : new[b] # current[b] \/ (force /\ new[b] # Absent)}},
                  "idle")
    /\ snap' = [f \in Files |-> Absent]
    /\ UNCHANGED <<file, notices, recent, hash, known, runtime, event, login, pipeVars, stimuli>>

-----------------------------------------------------------------------------
(* A login, and the providers that connect.                                *)

SaveLogin(f) ==
    /\ at["login"] = "idle" /\ Stimulus
    /\ \E c \in Contents : login' = [id |-> f, content |-> c] /\ file' = [file EXCEPT ![f] = c]
    /\ Notice(f, FALSE) /\ Goes("login", "record")
    /\ UNCHANGED <<recent, hash, known, current, runtime, held, event, snap, pipeVars>>

\* dispatchPersistedAuthUpdate.
RecordLogin ==
    /\ at["login"] = "record"
    /\ known' = known \cup {login.id}
    /\ current' = [current EXCEPT ![login.id] = login.content]
    /\ Hands("login", {[id |-> login.id, content |-> login.content]}, "idle") /\ login' = NoSave
    /\ UNCHANGED <<file, notices, recent, hash, runtime, event, snap, pipeVars, stimuli>>

\* dispatchRuntimeAuthUpdate: wsOnConnected ...
ProviderConnects(c) ==
    /\ at[c] = "idle" /\ Stimulus
    /\ runtime' = runtime \cup {c} /\ current' = [current EXCEPT ![c] = 1]
    /\ Hands(c, {[id |-> c, content |-> 1]}, "on")
    /\ UNCHANGED <<file, notices, recent, hash, known, event, snap, login, pipeVars>>

\* ... and wsOnDisconnected.
ProviderLeaves(c) ==
    /\ at[c] = "on"
    /\ runtime' = runtime \ {c} /\ current' = [current EXCEPT ![c] = Absent]
    /\ Hands(c, {[id |-> c, content |-> Absent]}, "gone")
    /\ UNCHANGED <<file, notices, recent, hash, known, event, snap, login, pipeVars, stimuli>>

-----------------------------------------------------------------------------
(* From the watcher to the manager.                                        *)

Place(us, u) ==
    IF \E i \in DOMAIN us : us[i].id = u.id THEN CHOOSE i \in DOMAIN us : us[i].id = u.id ELSE 0

\* Mutant: the update that came first stays.
MergedFirst(us, u) == IF Place(us, u) = 0 THEN Append(us, u) ELSE us

\* One update for each auth, the last one, in the place of the first.
Merged(us, u) == IF Place(us, u) = 0 THEN Append(us, u) ELSE [us EXCEPT ![Place(us, u)] = u]

\* The update of a among us, which has one at most for each auth, or the earlier one.
UpdateOf(us, a, earlier) ==
    IF \E u \in us : u.id = a THEN CHOOSE u \in us : u.id = a ELSE earlier

\* The same for several updates: those of other auths come last, in any order.
Enqueued(us) ==
    LET waiting == {pending[i].id : i \in DOMAIN pending}
    IN  [i \in DOMAIN pending |-> UpdateOf(us, pending[i].id, pending[i])]
          \o SetToSeq({u \in us : u.id \notin waiting})

\* Mutant: nobody is woken.
SignalsNobody == UNCHANGED asleep

\* dispatchCond.Signal: the loop is the only one that waits.
Signal == asleep' = FALSE

Dispatch(p) ==
    /\ at[p] = "dispatch"
    /\ pending' = Enqueued(held[p]) /\ Signal
    /\ said' = [a \in AuthIds |-> UpdateOf(held[p], a, [id |-> a, content |-> said[a]]).content]
    /\ held' = [held EXCEPT ![p] = {}]
    /\ Goes(p, IF p \notin Channels THEN "idle" ELSE IF p \in runtime THEN "on" ELSE "gone")
    /\ UNCHANGED <<file, notices, recent, hash, known, current, runtime, event, snap, login, batch,
                   queue, taken, draining, manager, stimuli>>

\* nextPendingBatch, when nothing is pending: dispatchCond.Wait gives dispatchMu back only
\* once the loop is among those a signal wakes ...
Sleep ==
    /\ ~asleep /\ batch = <<>> /\ pending = <<>> /\ asleep' = TRUE
    /\ UNCHANGED <<watchVars, pending, batch, queue, taken, draining, manager, said, stimuli>>

\* ... and when something is.
NextBatch ==
    /\ ~asleep /\ batch = <<>> /\ pending # <<>>
    /\ batch' = pending /\ pending' = <<>>
    /\ UNCHANGED <<watchVars, asleep, queue, taken, draining, manager, said, stimuli>>

\* Mutant: pendingUpdates is cleared once the batch was sent.
SendClears ==
    /\ batch # <<>> /\ Len(queue) < QueueSize
    /\ queue' = Append(queue, Head(batch)) /\ batch' = Tail(batch)
    /\ pending' = IF Len(batch) = 1 THEN <<>> ELSE pending
    /\ UNCHANGED <<watchVars, asleep, taken, draining, manager, said, stimuli>>

Send ==
    /\ batch # <<>> /\ Len(queue) < QueueSize
    /\ queue' = Append(queue, Head(batch)) /\ batch' = Tail(batch)
    /\ UNCHANGED <<watchVars, pending, asleep, taken, draining, manager, said, stimuli>>

\* consumeAuthUpdates takes one after the other, and keeps one for each auth ...
Drain ==
    /\ queue # <<>> /\ (draining \/ taken = <<>>)
    /\ taken' = Merged(taken, Head(queue)) /\ queue' = Tail(queue) /\ draining' = TRUE
    /\ UNCHANGED <<watchVars, pending, asleep, batch, manager, said, stimuli>>

\* ... until it finds nothing.
Drained ==
    /\ draining /\ queue = <<>> /\ draining' = FALSE
    /\ UNCHANGED <<watchVars, pending, asleep, batch, queue, taken, manager, said, stimuli>>

\* prepareCoreAuthForModelRegistration or applyCoreAuthRemoval.
Apply ==
    /\ ~draining /\ taken # <<>> /\ taken' = Tail(taken)
    /\ manager' = [manager EXCEPT ![Head(taken).id] = Head(taken).content]
    /\ UNCHANGED <<watchVars, pending, asleep, batch, queue, draining, said, stimuli>>

Loop == Sleep \/ NextBatch \/ Send
Consume == Drain \/ Drained \/ Apply

UpdatesNext ==
    \/ \E f \in Files : WriteFile(f) \/ RemoveFile(f) \/ Settle(f)
    \/ \E f \in Logins : SaveLogin(f)
    \/ HandleEvent \/ ComputeUpdates
    \/ BeginReload \/ Snapshot \/ Diff
    \/ RecordLogin
    \/ \E c \in Channels : ProviderConnects(c) \/ ProviderLeaves(c)
    \/ \E p \in Producers : Dispatch(p)
    \/ Loop \/ Consume

\* The loop and the service's goroutine run.
UpdatesSpec == UpdatesInit /\ [][UpdatesNext]_updateVars
               /\ WF_updateVars(Loop) /\ WF_updateVars(Consume)

-----------------------------------------------------------------------------
(* Properties.                                                             *)

\* The oldest first.
Underway == taken \o queue \o batch \o pending

\* However updates are merged in the watcher and again in the service, and
\* whatever is added while earlier ones are on their way: of the updates of an
\* auth under way the last one to come is the last one handed on, and once none
\* is left the manager has that one.  And the loop does not sleep while one is pending:
\* no signal is missed.
LastUpdateCounts ==
    /\ asleep => pending = <<>>
    /\ \A a \in AuthIds :
        /\ \A i \in DOMAIN pending : pending[i].id = a => pending[i].content = said[a]
        /\ (\A i \in DOMAIN Underway : Underway[i].id # a) => manager[a] = said[a]

Feed == INSTANCE UpdateFeed WITH
    Ids <- AuthIds, Told <- {Absent, 1} \cup Contents, line <- Underway

\* Through all its stages the pipeline is one line on which of each auth nothing is
\* overtaken, and nothing is left out but for the update that follows it.
ImplementsFeed == Feed!FeedSpec

\* What is handed on reaches the manager: it catches up with the watcher again
\* and again, since the stimuli come to an end here; and on the way in the order in
\* which it was handed on.
UpdatesArrive == ImplementsFeed /\ []<>(manager = said)

-----------------------------------------------------------------------------
(* What the documentation says and the code does not do.                   *)

Quiet ==
    /\ notices = <<>> /\ Underway = <<>>
    /\ \A p \in Producers : at[p] \in {"idle", "on", "gone"}

\* "so the latest state is eventually applied" (docs/sdk-watcher.md): when nothing
\* is left to be done, the manager has what is in the files.
LatestIsApplied == Quiet => \A f \in Files : manager[f] = file[f]
==============================================================================
