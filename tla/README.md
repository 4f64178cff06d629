# Verification of the credential pool of CLIProxyAPI

CLIProxyAPI serves several AI APIs from a pool of credentials ("auths": OAuth
accounts and API keys of several providers).  For every request it picks an
auth, sends the request through the provider's executor, and learns from the
result: an auth that hit a rate limit, lost its permission or failed is set
aside for a while, and OAuth auths are refreshed in the background.  Much of
this runs concurrently, on copies of the same records, and in time.  This
directory models those parts in TLA+, checks them with TLC and proves some of
their properties with TLAPS.  Paths below are relative to the repository.

## 1. Inventory

| Part | State | Operations | What is hard | Module |
|---|---|---|---|---|
| Auto refresh, `sdk/cliproxy/auth/auto_refresh_loop.go` | heap of check times, dirty set, wake and jobs channels, timer | rebuild, handleDue, applyDirty, queueReschedule, remove, refreshAuth | loop, workers and callers interleave between two locks | RefreshLoop |
| Availability, `conductor.go`, `selector.go` | per auth, model and model family: status, next retry time, quota, backoff level, last error | MarkResult, ResetQuota, SetConfig, Reconcile, isAuthBlockedForModel | results of concurrent requests arrive in any order, editors write back copies | AuthState, AuthAvailability |
| Manager and scheduler, `conductor.go`, `scheduler.go` | `Manager.auths`, the scheduler's copies | Register, Update, Remove, MarkResult, pickNext, syncScheduler | the copies arrive by calls made after the unlock | SchedulerSync, CredentialPool |
| Scheduler shards, `scheduler.go`, `quota_preference.go` | entries by provider and model, views by priority and transport, cursors, weights | upsert, remove, rebuild, promote, pickSingle, pickMixed | caches of caches; cursors over lists that change | SchedulerShard, ReadyView |
| Session affinity, `selector.go`, `session_cache.go` | session to auth, with expiry | Pick, Get, Set, InvalidateAuth | check and act under two locks | SessionAffinity |
| Retry loop, `conductor.go` | attempts, tried set, cooldown waits | Execute, ExecuteStream, ExecuteCount | termination, bounds | RequestRetry |
| Streaming, `conductor.go`, `sdk/api/handlers` | channels between four goroutines | wrapStreamResult, executeStreamWithAuthManager, ForwardStream | the select between data, error and end; a client that leaves | StreamRelay |
| Cooldown files, `cooldown_state.go` | one file per auth | snapshot, Save, Load, Restore | overtaking saves, crash between two files, two stores | CooldownPersistence |
| Request counters, `request_count_state.go` | counts, one file | markRequestCountDirty, flush | coalescing against shutdown | RequestCounts |
| Registry, `internal/registry/model_registry.go` | models by client, counters, quota marks, suspensions, cached list | Register, Unregister, the marks | counts against re-registration; marks told late | ModelRegistry |
| Watcher and service, `internal/watcher`, `sdk/cliproxy/service.go` | known files, hashes, pending updates, queue | file events, reload, login hook, dispatch, apply | computed under one lock, handed on under another | AuthUpdates |
| WebSocket relay, `internal/wsrelay` | sessions, pending requests, channels | request, dispatch, cleanup | sends on channels closed meanwhile | WebSocketRelay |
| Codex websocket sessions, `internal/runtime/executor/codex_websockets_executor.go` | a connection, its reader, the active channel | ExecuteStream, readUpstreamLoop, close | a reader outlives its connection | UpstreamSession |
| Usage, `sdk/cliproxy/usage`, `internal/redisqueue`, `internal/usagepersist` | queues, subscribers, file | publish, pop, subscribe, forward | bounded queues, switching off, shutdown | UsageRecords |
| Plugin host, `internal/pluginhost` | libraries, guards, snapshot, streams | ApplyConfig, Unload, Shutdown, calls, streams | a call between a reload's steps | PluginHost, PluginStream |
| Logins of the management API, `internal/api/handlers/management` | OAuth sessions, callback forwarders and files | Request...Token, callbacks, GetAuthStatus | goroutines that share a port; files read while they are written | OAuthLogins |
| Home client, stores, executors, translators, caches, command-line logins, TUI | | | external systems, input and output, or data only | section 12 |

How they interact: a request handler calls `Manager.Execute`, which asks the
scheduler (or a selector) for an auth, calls the executor and reports to
`MarkResult`.  MarkResult changes the auth under the manager's lock and calls
the scheduler, the cooldown store, the counters and the registry *after* it
unlocked.  File changes reach the manager through the watcher, the service and
`Register` / `Update` / `Remove`; the management API and finished logins call the
same three.  The refresh loop reads the manager's auths and writes them with
`Update`; Register and Update queue a reschedule in the loop.

Which properties make the parts correct:

- *Refresh*: no reschedule and no auth is lost between heap, dirty set, jobs and
  workers; the timer never sleeps past an entry; a due auth is refreshed; a
  refresh brings back nothing that was removed or switched off meanwhile.
- *Availability*: what was set aside stays aside for its time, whatever arrives
  late; nothing unrelated is set aside; the sums at auth level claim no more than
  the models do; with cooling disabled nothing is left waiting.
- *Scheduler*: the copies may lag, but a request fails only if nothing was ready,
  and nothing that is gone comes back; rotations starve nobody.
- *Files and counters*: what a restart restores was true and had been saved.
- *Registry*: the counters are those of the lists the clients have now.
- *Requests and streams*: effort is bounded, every request ends, an answer that
  ends well is whole and one's own, whoever leaves or fails meanwhile.
- *Updates, usage, plugins, logins*: what is handed on arrives, in order; a call
  meets no closed library; who asks about a login is told the truth.

## 2. How the project is built

`Accounts` and `Credentials` declare the constants that several modules share.
Each module has its state, one action per critical section, channel operation or
handler, a type invariant, a specification with the fairness it needs and its
properties.  Where a system module stands beside a smaller promise (`CredentialPool`
beside `SchedulerSync`, `UpdateFeed` beside `AuthUpdates`), the detailed one is shown to
implement it.

To answer many questions in few runs, modules that share no variable are checked
in one run of TLC.  `MCKeepers`, `MCPicks`, `MCRequests`, `MCBackground` and
`MCAvailabilityParts` have a variable `part`; in a behaviour one part takes steps
and the others stay in an initial state.  No property speaks of two parts, so
such a run covers exactly the behaviours of each part alone; fairness is asked of
the part that moves.  Every constant has the value its .cfg gives it.  Where two
hazards of a module would multiply each other's states, the MC module has a part for
each (calls that overtake each other, picks that do; two auths, two stores) or leaves
out the inputs that only multiply (a disabled auth beside the refresh loop, the events
of a second answer); it restricts what the environment does, never a step that fairness
is asked of.  The theorems hold without any of these limits.

| Run | Module | Shows |
|---|---|---|
| `refresh_live` | MCBackground: RefreshLoop, OAuthLogins | NoLostWakeup, NoLostAuth, WakesInTime, RemovedStaysRemoved, DueIsRefreshed, RemovedLeavesHeap; PortIsServed, LoginIsTold, LoginEnds |
| `avail_family` | MCAuthAvailability: two models of a family, results with and without a model, no editor | TypeOK, FamilyQuotaRespected, FailureKeepsFamilyAside |
| `avail_families` | MCAvailabilityParts: a model in each of two families; an editor beside a model of none | AggregateSound, NoQuotaWhenOff, SuccessKeepsIsolation, FailureStaysInFamily |
| `sync_pick` | MCPicks: SchedulerSync, SessionAffinity | PickFindsReady, ForgottenStays, ImplementsPool; SessionSticks |
| `keepers` | MCKeepers: CooldownPersistence, ModelRegistry, SchedulerShard, PluginHost, PluginStream | NoCooldownInvented, CooldownsAreKept; RegistryIsTrue; PickIsRight, CooldownIsTold; PluginCallIsSafe; PluginStreamIsKept |
| `requests` | MCRequests: RequestRetry, ReadyView, StreamRelay, RequestCounts, AuthUpdates, WebSocketRelay, UpstreamSession, UsageRecords | EffortIsBounded; RotationIsFair; StreamIsWhole; NothingHangs; ResultsAreSaved; LastUpdateCounts, UpdatesArrive; AnswerIsWhole, RequestReturns; SessionAnswerIsOwn, SessionCallEnds; UsageInOrder, UsageArrives |
| `refresh_disabled`, `refresh_forgotten`, `avail_quota`, `sync_stale`, `stream_done`, `session_retry` | | the findings of section 10 |

Some properties are conjunctions of several that are about one thing (CooldownsAreKept,
RegistryIsTrue, PickIsRight, RotationIsFair, NothingHangs, ResultsAreSaved,
PluginCallIsSafe, PluginStreamIsKept, LoginIsTold, LoginEnds, UpdatesArrive,
RequestReturns, SessionCallEnds, UsageArrives); each conjunct is defined and explained on
its own.  Symmetry is used in `keepers`, `avail_family` and `sync_pick`, which check
safety only, over values that no definition tells apart.  `CHECK_DEADLOCK FALSE` stands
where the system really may stop: when the bounded stimuli are used up, or the process has
ended.

Definitions whose comment begins with "Mutant" are plausible bugs: put in the
place of the definition they stand beside, they make the run that `PROJECT.json`
names fail.

## 3. RefreshLoop

Source: `sdk/cliproxy/auth/auto_refresh_loop.go`; `refreshAuth`,
`markRefreshPending`, `Update`, `Remove` and the refresh decisions in
`conductor.go`.

| State | Code |
|---|---|
| `auth` | `Manager.auths`: present, disabled, LastError is a 401, NextRefreshAfter, time until the credential is due |
| `queue` | the heap with `index`: time left until each auth's check |
| `dirty`, `wake`, `jobs`, `timer` | the fields and channels of the loop; `wakeCh` has one place |
| `loopPc`, `hand`, `cur`, `plan` | the loop goroutine: what it popped or drained, which auth it decides about, what it read and has not written |
| `lag` | ticks since the loop read `now`; grows while it waits in a full `jobs` |
| `proc` | the workers (reading, refreshing, rescheduling) and the callers (between reading an auth and storing it, queueing it, unscheduling it) |
| `lapsed`, `evicted` | history, read by no action: auths dropped while unauthorized, auths a late Remove took out |

One action is one critical section of `Manager.mu` or of the loop's own mutex, or
one channel operation.  `handleDueAuth` and `applyDirty` are therefore two steps
each (decide under the manager's lock, write the heap under the loop's), as
`queueReschedule` is (dirty set, then wake channel).  Callers are the file
update (`CommitFile`), the status change of the management API (`CommitStatus`),
`Remove` with its later unschedule, and `MarkResult`, which changes the 401.

Abstractions.  Times are ticks left, so no clock is bounded; `Tick` counts all
down, and may happen only while the loop waits.  One `due` stands for expiry,
lead and last refresh; an evaluator answers as it likes.  The check that Register
makes before it takes the lock is left out.  The statuses pending and refreshing
are never read by this code and are left out.

Why the bounds are enough.  The interleavings that lose an auth or a wakeup involve one
auth, the loop and one or two others, worker and caller; `refresh_live` has one of each.
Whether the operator disabled the auth decides nothing in the loop, so there it is never
disabled; `refresh_disabled` is about that.  More auths matter only as the load that
blocks the loop, and `jobs` of one place with one worker blocks it for a single auth, too:
it may be due again while its refresh is under way.  All durations are one tick; the time
that passes while the loop is blocked makes its clock stale.  The theorems below lift the
safety part to any number of auths, workers, callers and any durations.

Fairness (`FairSpec`).  The loop, each worker and each caller that has begun a
commit keep running (weak fairness: they are goroutines that wait for nothing
else, and executors return from Refresh).  Callers need not start anything.
`SelectTimer` is strongly fair because Go's `select` picks at random among the
ready cases, so a due timer is not passed over for ever by wake tokens.  `Tick` is
strongly fair: time goes on, though the loop's short busy spells disable it.

Proved (`RefreshLoopProofs`, for every instance allowed by `RefreshAssumption`):
`Invariance`, `TypeCorrect`, `WakeupsKept`, `AuthsKept`, `TimerCovers`, `WakesWhenWanted`,
`RemovedStays`.  NoLostAuth is not inductive: the error that makes an auth unschedulable
may go away at any moment, so the invariant `IInv` tracks every auth that is there,
schedulable or not (`EveryPresentTracked`), says that a removal the loop has decided and
not yet written is justified (`RemovalJustified`: whoever brought the auth back meanwhile
is about to queue it), and relates the loop's pc to its local variables (`ControlOK`).
WakesInTime, the safety half of DueIsRefreshed, needs that the heap holds no later time
than the auth asks for, unless somebody is about to reschedule it (`OnTime`, `HeapOnTime`:
an error that a worker is about to write, a commit that has not queued its auth yet); with
the timer that covers the top of the heap the loop then sleeps past no auth that is due.

Only model-checked: DueIsRefreshed and RemovedLeavesHeap (liveness).  DueIsRefreshed asks
that a worker calls Refresh for the auth: due means that the credential wants it, also while
the loop's pending mark or a failure sets it back, so an auth that is only marked, queued or
dropped again and again does not satisfy it.

## 4. AuthState and AuthAvailability

Source: `MarkResult` and the functions it calls, `applyAuthFailureState`,
`updateAggregatedAvailability`, `ResetQuota`, `SetConfig`,
`ReconcileRegistryModelStates`, `Update`, the failure branch of `refreshAuth`
(`conductor.go`); `isAuthBlockedForModel` (`selector.go`); the file update in
`sdk/cliproxy/service.go`.

`AuthState` holds operators on records, one per function of the code: `AfterSuccess`,
`AfterFailure`, `AfterAuthFailure`, `Aggregated`, `ClearCooldown`, `Reset`,
`Reconciled`, `Updated`, `Blocked` and so on.  The record keeps the fields that decide
about availability; a model state that is not in the Go map is `Missing`, and the
pseudo models of families are keys like the others.

`AuthAvailability` has the auth (`auth`), the configuration (`off`: cooling is
disabled; `clearing`: SetConfig stored it and has not cleared yet) and what
editors hold between reading and writing (`held`).  Each action is one critical
section.  A result may come at any time, for requests run concurrently and report
late.  `Fail` ranges over the kinds of failure MarkResult tells apart and, for a
429, over the server's Retry-After.

Abstractions.  Results with an error always carry one, as all callers do.  Cooling
is disabled for all or for none (the per-auth override is left out); a second
SetConfig waits for the first.  `QuotaCooldown` is any positive function of the
level and `MaxLevel` the level where the cooldown reaches its maximum; the code
raises the level no further, so its shift stays in range for every level that
results can reach.  A level restored from a file is not modelled.  `Transient`
may be NoTime, as configured.

Why the bounds are enough.  A rule of this code concerns one model, its family, or
one model and one that is not related; the runs have each.  In `avail_family` a quota
may outlast what other failures cost (a second backoff level and a Retry-After of two
ticks against one), so the backoff level has a step and a maximum.  In `avail_families`,
which is about what a result does to others, one level is enough and only a Retry-After
makes a duration of two ticks; and an editor never meets results for families: an edit
holds a whole auth, and what it writes back does not depend on which keys the auth has.

Proved (`AuthAvailabilityProofs`, any models, families, durations, editors):
`AvailabilityInvariance`, `AvailabilityTypes`, `FamilyQuota`,
`IsolationSurvivesSuccess`, `FamilySurvivesFailure`, `QuotaOff`, `FamiliesStayApart`,
`AggregatesAreSound`.  The invariant
`IInv` adds to the types that a family state with a recovery time is unavailable
until at least that time (`Sound`), in the stored auth *and in what editors hold*:
without the second half a write-back could break the first.  A lemma per operator
says that it keeps this.  QuotaOff needs the types only, and that every operator,
with cooling disabled, sets no recovery time.  FamiliesStayApart follows from the
frame of a failure: it touches the states of its model and family only, and summing
up sets none aside.  AggregateSound is not inductive: a failed refresh calls an auth
unavailable whatever its models do, and an edit brings an old auth back.  Its
invariant `WaitsAreTrue` speaks of the wait an auth *keeps*, also while it is called
available, in the stored auth and in every editor's copy, and bounds it by the waits
of all its models.

## 5. SchedulerSync

Source: `Register`, `Update`, `Remove`, `MarkResult`, `RefreshSchedulerEntry`,
`pickNext`, `syncScheduler` in `conductor.go`; `rebuild`, `upsertAuth`,
`removeAuth`, `pickSingle`, `promoteExpiredLocked` in `scheduler.go`.

| State | Code |
|---|---|
| `auths` | what the manager's record of each auth says to a pick: ready (0), aside for some ticks, switched off, gone |
| `sched` | the shard's entries: ready or waiting, their `nextRetryAt`, and the record they refer to |
| `call` | a caller's `upsertAuth` or `removeAuth` that is under way after `Manager.mu.Unlock` |
| `pick` | a request: first try, syncScheduler's snapshot and rebuild, second try, error; `sure` is history |

`MarkResult` and others pass a clone; `Register` and `Update` pass the record they
stored, which later results change in place.  Such a reference is *live*: it is
read when the call arrives or when the entry is promoted, and becomes a copy when
the manager's record is replaced or removed.  The data race in that sharing is
modelled as an atomic read.  `Store` may carry any state, for its caller built it
from an earlier read.  A result sets any value up to the cooldown.

Left out: several models and providers, supported-model sets, priorities, cursors,
the tried set, websocket preference, and Load (which replaces all auths at start).

Two callers let one call overtake another, beside one request; two requests let one's
stale rebuild undo the other's, beside one call at a time; two auths let a pick end with
one while the other is aside.  A
cooldown of one tick is enough, for only ready or not matters to a pick.

`CredentialPool` says the same without copies, calls or rebuilds: a pool knows the
auths it was given, learns of none by itself, forgets only those nobody counts on,
and fails a pick only if no auth was ready ever since the pick began.  The mapping
takes `known` to be the auths that are not forgotten, a pick's program counter to
its phase, and `sure` to itself; ImplementsPool is the specification of the pool
under it.

Proved (`SchedulerSyncProofs`, any sets and cooldown): `SyncInvariance`, `SyncTypes`,
`PickErrorsJustified`, `ForgottenForGood`, `PoolImplemented` (the initial states map to
initial states, every step to a step or a stutter).  PickFindsReady is the positive side
of `sync_stale`: copies may be stale in either direction, but a request fails only if no
auth was *surely* ready since it began, surely meaning that no call or rebuild under way
said otherwise.  The inductive invariant says that what a pick is sure of is still
certain, and scheduled as ready once its own rebuild is done (`SureIsKnown`), and that a
live reference leads to a record the manager has (`LiveIsHere`), without which
dereferencing has no type.

## 6. What is kept of the auths

### CooldownPersistence

Source: `sdk/cliproxy/auth/cooldown_state.go`, the callers of
`persistCooldownStates` and `RestoreCooldownStates` in `conductor.go`, the start and
the new configuration in `sdk/cliproxy/service.go`.

`aside` is the manager's wait of each auth, `files` the directory, `store` the
manager's current store, `thread` what each goroutine is at (snapshot in hand, files
still to write or to remove, under which store's mutex), `phase` the process.  A save
writes and removes file by file, so a crash or a failed write may come between two.
A new configuration installs a store with a mutex of its own for the same directory.
`told` and `durable` are history.  Settled means: the file says what the manager says
and no older snapshot is in any goroutine's hands.

*NoCooldownInvented*: no sequence of overtaking saves, crashes and restores makes an auth
wait longer than a result once told it to.  *CooldownsAreKept*: a settled cooldown
survives the saves, failures and crashes of others and is in force after the restart; and
a save that was alone leaves the directory equal to its snapshot.  Two auths and two
goroutines are the least with which a save is overtaken or half done, and for a save
beside one of another store one auth is enough; the run has the two in turn.  One tick of
cooldown suffices: only over or not matters.  A file that cannot be read gives up the
whole Load (`LoadFails`), as the code does.

Proved (`KeeperProofs`, any auths, goroutines, stores and longest cooldown):
`CooldownInvariance`, `NoneIsInvented`, `CooldownsKept`.  NoCooldownInvented is
inductive because it speaks of the snapshots in hand as well; that a save which was
alone is exact needs what it has *already* written and removed to be in the directory
(`SavedSoFar`), which holds as long as it is alone, that no file of the snapshot is up
for removal (`CleansStale`), and, for the restart, that nobody saves before the process
is up (`StartIsQuiet`).

### ModelRegistry

Source: `internal/registry/model_registry.go`; the marks of MarkResult.  `bound` and
`provider` are what the clients registered (a list may repeat a model), `models` the
registrations with their counters, marks and suspensions, `report` the calls a
reporter has yet to make after its unlock, `cache` the list that was handed out.
*RegistryIsTrue*: the counters are those of the lists the clients have now, and the
cached list is what would be listed now.  Two clients, two providers, lists of up to
two and a window of two ticks.

Proved (`KeeperProofs`, any clients, providers, models, reporters and length of a list):
`RegistryInvariance`, `RegistryTrue`.  The counters are compared with the number of
occurrences in all lists, written as the cardinality of a set of pairs, so that
replacing the list of one client is a lemma about that client's share and the share of
the others.  That the cached list is the present one is not inductive: a mark of a
quota may run out while the list is cached.  `CacheIsTimely` says that the cache goes
first.

### SchedulerShard and ReadyView

Source: `sdk/cliproxy/auth/scheduler.go`, `quota_preference.go`.  `meta` is the record an
auth came with, `entry` what the shard made of it, `index` the views by priority and
transport, `cadence` when a pinned auth was last picked.  What is known of quotas may be
anything at a pick (`Routings`).  *PickIsRight*: views and entries never drift from the
records; whoever is picked is free and was not tried; whoever looks in vain looks in vain
for one of the reasons the code has.  *CooldownIsTold*: the time in the error is one all
the auths asked for wait for.  `ReadyView` has the order within a view: the flat cursor
and the smooth weights, both over a list that is rebuilt at any time.  *RotationIsFair*:
between rebuilds nobody is passed over more often than there are others, and an auth that
stays is picked again and again by the smooth rotation, although weights change and others
come and go (fair: PickSmooth keeps being called). Three auths come and go; in one part
the flat rotation is checked, in another the smooth one with weights of one and two,
chosen anew at each pick, so that credits drift apart while members leave and return.

Proved: of the shard (`KeeperProofs`, any auths, providers, priorities, waits and
knowledge of the quotas) `ShardInvariance`, `PicksAreRight`, `CooldownsAreTold`.  The
invariant says that an entry tells why its auth is not free and looks at it again at a
time that the record knows (`EntriesTrue`), and that views hold exactly what their
entries say (`ShardComplete`); it is stated one auth at a time, so that a step proves
it for the auths it touches.  The two properties follow in every state, not by
induction: lemmas follow a pick through transport, priority and the urgent pool.  Of the
view (`RequestProofs`, any auths) `ViewInvariance`, `NobodyIsPassedOver`: how often an
auth was passed over and its distance from the cursor are together less than the size,
since every pick that passes over it brings the cursor nearer.

### PluginHost and PluginStream

Source: `internal/pluginhost/host.go`, `client_guard.go`, `adapters.go`;
`stream_bridge.go`, `rpc_client_stream.go`, `callback_contexts.go`.

`PluginHost` follows one plugin through loads, reloads, retirements, unloads and the
shutdown (`lifecycle` holds `applyMu`), while requests read the snapshot, the fuse and
the active version one after the other and then ask the guard.  *PluginCallIsSafe*: no
call runs in a library that was shut down, no open library is forgotten, what is
offered is open, and after an unload nothing of the plugin runs.  Two versions, two
callers, three loads (so that one version is loaded twice).

`PluginStream` is one streamed answer: the plugin's thread, `streamBridge`'s channel,
the goroutine that reads it and the request.  A plugin emits and closes from one
thread, as the examples do; one that does not may send on a closed channel
(`panicked`).  *PluginStreamIsKept*: who waits for the end gets all in order, the
plugin's callbacks live exactly as long as the stream, and a stream that was closed
comes to its end.  More chunks than the channel holds are emitted.

Proved (`PluginProofs`, any files, versions, callers, chunks and size of the channel):
`PluginInvariance`, `CallsAreSafe`, `PluginStreamInvariance`, `StreamIsKept`.  A
call is safe because a guard's counter is the number of callers inside (`GuardsCount`,
a cardinality) and a library is shut only at zero and closed; and an unloaded plugin is
quiet because, while libraries are closed, nothing is offered any more
(`LifecycleInv`).  The stream's invariant cuts what was sent into what was given, what
the reader holds and what the channel buffers (`NothingIsLost`), and follows the one
close (`ClosedOnce`).  That a stream which was closed comes to its end is stated with
the guards of the host's steps (`HostCanStep`), which TLC finds to be the same as
their being ENABLED; it is proved from the positions of the three (`Positions`).

## 7. What goes through the program

### RequestRetry

Source: `Execute`, `ExecuteStream`, `ExecuteCount` and what they call in `conductor.go`.
One request, round by round: pick, prepare, ask each upstream model, wait for the closest
cooldown or the Retry-After.  After the last round, if the error allows it, the request
falls back to the credits of the antigravity auths (`FallBack`, `Spend`): it asks every
one of them that is not switched off, cooling down or tried before as it may be, outside
`max-retry-credentials` and the rounds.  `ExecuteCount` has no such fallback; it is among
the behaviours, as `Refuse` stays possible.  Other requests change the cooldowns at any
time.

*EffortIsBounded* counts what one request may cost: in a round each auth once for each of
its models, no more auths than configured, no more rounds and waits than the auths allow;
and with credits each antigravity auth, and no other, once more for each of its models.
*RequestEnds* (in NothingHangs) says that it ends, and that every step of it is a step
towards the end (NeverGoesBack). Fair: the request's own goroutine, and time while it
waits.  Three auths that differ in their retries and in their number of models, two of
them of antigravity, cooldowns of a tick.  Left out is the home mode, in which the auths
come from a home server and `max-retry-credentials` does not apply (`conductor.go:2589`,
2691, 2793).

Proved (`RequestProofs`, any auths, models, retries and waits): `RetryInvariance`,
`EffortBounded`, `GoesOnlyOn`.  While an auth is asked, its runs and the models left are
together its models, and whoever was asked was attempted in this round or is among those
asked with credits (`RunsInv`, `Asked`); what was waited for is bounded by the round one
is in, or about to enter (`WaitsInv`); and a wrong request keeps its error to the end
(`WrongInv`). GoesOnlyOn orders the positions of a request (`Nearer`): the round, then the
auths tried in it, then those asked with credits, then the step, then the models left of
the auth.  With the bound on rounds this is why a request ends if its goroutine runs; that
it runs is the fairness TLC assumes.

### StreamRelay

Source: `wrapStreamResult` (`conductor.go`), `executeStreamWithAuthManagerFormats`
(`sdk/api/handlers/handlers.go`), `stream_forwarder.go`, `openai/openai_handlers.go`.
The wrapper of each upstream stream, the relay and the handler hand chunks over
unbuffered channels; the client may leave and the context end at any time.
*StreamIsWhole*: bytes of one upstream stream only, and a response that ends as
complete is complete.  *EverythingEnds* (in NothingHangs): no goroutine of the request
is left, and before that none waits for one that is gone (NobodyWaitsAlone).
Fair: the goroutines, and the executors, which close their channels when the context is
done.  One retry, two payloads.

Proved (`RequestProofs`, any number of streams and payloads): `StreamInvariance`,
`StreamsAreWhole`, `NobodyLeftAlone`.  The relay opens no other stream once it offered a
payload (`OneStream`), accounts for each payload it took of the one it reads
(`PayloadsCount`: written, left out by a plugin, or in hand), and a wrapper marks its
stream before it hands the end on (`WrappersMark`), so that an end which is told is the
stream's.  Nobody waits alone because the relay turns to another stream only after an
error of the last one, whose wrapper then offers nothing more, and the handler's end
always cancels the context (`StreamTurns`).

### RequestCounts

Source: MarkResult, `runRequestCountPersistence`, `StopAutoRefresh`,
`request_count_state.go`.  *ResultsAreSaved*: the file does not go back while the
process runs (FileAdvances), and every result reaches it (CountsReachFile).  Fair: the
background goroutine.  Four results in all runs of the process, with crashes between.

Proved (`RequestProofs`, any number of results): `CountsInvariance`, `FileKeepsUp`, the
first part of ResultsAreSaved.  What a goroutine is about to save was read after all
that is in the file, unless the process is stopping, and no more than was counted.

### AuthUpdates

Source: `internal/watcher` (`events.go`, `clients.go`, `dispatcher.go`),
`sdk/cliproxy/service.go`, `builder.go`.  File events, a reload, a finished login and
websocket providers compute updates under one lock and hand them on under another; a
loop batches them into the service's channel, and the service merges and applies them.
The loop waits on a condition variable: it goes to sleep only when nothing is pending
(`Sleep`, one critical section), and nothing but the signal of a dispatch wakes it
(`Signal`).
*LastUpdateCounts*: merging never loses or reorders the last update of an auth, and the loop
never sleeps over pending updates, as it would after a missed signal;
*UpdatesArrive*: the manager catches up again and again (fair: the dispatch loop and
the service), and on the way the pipeline implements `UpdateFeed` (ImplementsFeed): one
line on which what is said of an auth comes last of that auth or takes the place of what
came last, an update is left out only for the one that follows it of the same auth, and
the manager hears what is at the front.  So of each auth it hears what was said, in that
order.  One file, or one provider, with two stimuli, and a channel of one place.

Proved (`RequestProofs`, any files, providers, logins and size of the channel):
`UpdatesInvariance`, `UpdatesCount`, `FeedImplemented`.  An update passes from the pending
ones to a batch, the service's channel, the drained ones and the manager.  The first of
these, seen from the watcher, that has an update of an auth says what was said of it last
(`Chain`): of the pending, the batch and the drained ones, which are merged, any update of
the auth does, of the channel the last one.  To keep this, updates that are handed on
together must be of different auths.  That the loop sleeps over nothing holds because
whoever adds to the pending ones signals under the same lock.

The line of `UpdateFeed` is what is drained, in the channel, in the batch and pending, one
behind the other.  A batch that is taken or sent from leaves it as it is (`SentStays`); what
is drained stays in its place, or moves to that of the one before (`MergedMoves`); and what
is handed on goes into the place of the pending one of its auth, which is the last of that
auth on the whole line, or to the end (`EnqueuedWhere`, `DispatchSays`).

### WebSocketRelay

Source: `internal/wsrelay/session.go`, `http.go`.  The pending map, a channel per
request (here of two places), reader, withdrawals and the one cleanup.  *AnswerIsWhole*
and *RequestReturns* (fair: reader, cleanup and clients; the client's own context may
never end).  An answer may be longer than the channel.

Proved (`SessionProofs`, any requests, capacity and length of an answer):
`RelayInvariance`, `AnswersAreWhole`, `NoneForgotten`.  For each request, what it has
received, what its channel holds and what is in the reader's hand are what its peer sent:
never more
(`NoMoreThanSent`), and while it waits and nothing was dropped never less
(`NoLessThanSent`); a channel that is closed by then holds what tells how it ended.  That
a request which waits is remembered (NobodyIsForgotten, the safety half of RequestReturns)
needs to know whom the cleanup has been through, whom it can miss, and where the end of
an answer is (`Recall`).

### UpstreamSession

Source: `internal/runtime/executor/codex_websockets_executor.go`,
`sdk/api/handlers/openai/openai_responses_websocket.go`.  Calls of one session take
`reqMu` in turn, dial or reuse the connection, set the active channel, send, read, and
retry once; each connection has a reader that outlives it.  *SessionAnswerIsOwn*,
*SessionCallEnds* (fair: callers and readers, and the upstream or the reader's deadline
ends every connection), and on the way nobody waits for the turn of a call that has gone,
nor reads where no end will be told (NoCallIsStranded).  A call that became the active one
only after its connection's reader had seen the end (`late`) may read for ever; so may
those who wait behind it or behind a refused handshake.  They are the exceptions.  Two
calls and two connections: one call behind another, and a retry; an event comes before the
end of the first answer, whose rest may reach the second call.

Proved (`SessionProofs`, any number of calls, connections and events):
`SessionInvariance`, `AnswersAreOwn`, `NoneStranded`.  Four things depend on each other:
the turns (`Turns`: who is in a call holds `reqMu`, the active channel is that call's or
closed), the connections (`Connections`), what upstream owes over them (`Answers`: to
calls that used the connection, each once), and what a call has heard (`OwnWords`: unless
an earlier call on its connection was cut off, each event is counted, in the channel or in
the reader's hand, and nothing follows the last word).  That no call is stranded needs two
more: who has the turn is under way or was refused (`TurnIsUsed`); a reader that was given
a channel at the end of its connection closed it (`EndIsTold`); and a call that was there
when the end was seen is the one whose channel was given (`EndIsHeard`).

### UsageRecords

Source: `sdk/cliproxy/usage/manager.go`, `internal/redisqueue`,
`internal/usagepersist`, `internal/api/redis_queue_protocol.go`, the forwarder in
`sdk/cliproxy/service.go`.  *UsageInOrder*: each reader gets records in order and
without a hole, each record goes to one kind of reader; *UsageArrives*: at last every
record is handed to the file, and with a home server arrives there (fair: dispatcher,
writer, forwarder; a push that is tried again and again succeeds), and on its way it is
always somewhere (NoRecordVanishes).

Proved (`RequestProofs`, any number of records, readers and places): `UsageInvariance`,
`UsageKeepsOrder`, `NoneVanishes`.  Records are numbered in the order of publication; all
sequences they are in rise, and none is ahead of the record that is being handled
(`Passed`, `Stored`).  With a home server nobody pops or subscribes; without one nothing
comes back to the queue, so what is popped is before what waits, and what was sent to
subscribers is apart from both (`QueueInv`).  For each subscriber, what it was handed is
what was sent since it came, element by element (`Follows`).  That no record vanishes is
proved from what each operation on the queue does with the set of its records: what is
pruned, popped and left is together what was there, and a batch that failed is put back
whole.

### SessionAffinity

Source: `SessionAffinitySelector` (`selector.go`), `session_cache.go`, the legacy pick
and `Remove` in `conductor.go`; checked in `sync_pick`.  A pick copies the list of
auths, looks the key up, inherits from the first turn's key, and binds; the cache takes
its mutex for each call.  *SessionSticks*: a pick that no other pick of its conversation
overlaps ends with the auth of the one before, whatever is removed or cleaned up
between its steps.  Two keys (first and later turns), two auths, two requests.

Proved (`SchedulerSyncProofs`, any auths, sessions, requests and time of a binding):
`AffinityInvariance`, `ConversationsStay`.  History says what a session is owed, and for
how long.  An auth that is owed is bound, and for at least that long, and a key never
used is not bound (`BoundInv`); two picks that know the same conversation both know that
they are not alone (`AloneInv`), so a pick that is alone sees no other write; and a pick
that must end with an auth stands where it will (`Leads`).  A pick that is about to
delete an expired binding finds nothing owed to that key (`PickInv`), which is why the
deletion, although it may hit a renewed binding, never costs a conversation its auth.

## 8. OAuthLogins

Source: `internal/api/handlers/management/auth_files.go` (`Request...Token`,
`GetAuthStatus`, the callback forwarders), `oauth_sessions.go`, `oauth_callback.go`.

| State | Code |
|---|---|
| `kind` | how a login is made: in the web UI (with a forwarder), by hand, with a device code, by a plugin |
| `oauthSession` | `oauthSessions.sessions`: none, pending or an error, and the time left |
| `login` | the handler, then the goroutine of each login, with its deadline |
| `portOwner`, `listening` | `callbackForwarders[port]`, and whose forwarder has the port |
| `callbackFile`, `browser` | the file of each login, and the requests that write it: created, then filled |
| `asker` | questions about the status; for a plugin's login they poll, save, roll back and complete |
| `token`, `told`, `timedOut`, `overlapped` | history: saved tokens, the last answers, sessions that ended by time, polls at once |

*LoginIsTold*: ok means that the token is saved, and an answer is final, except for a
session that ended by time and for polls of a plugin's login that overlap.
*PortIsServed*: the forwarder in the map listens; one whose login waits listens unless a
later login took the port; none is left behind.  *LoginEnds*: at last every login is
over and its session no longer pending, and a login whose goroutine has ended leaves no
session pending on the way (NoneAsksForEver).  Fair are the goroutines and time, and one
step of the environment: the provider answers an exchange or a device login, or the
connection to it breaks.  That is an assumption and nothing the code enforces: the
exchanges of Codex, Claude and Antigravity use an `http.Client` without a timeout and
`context.Background()`, so a provider that keeps the connection open and says nothing
holds the goroutine, and its forwarder, until the process ends or a later login takes
the port.  In
`refresh_live` one part is one login of any kind with a browser and two questions, the
other two logins that share the port, one with callbacks and the other with questions.
The provider's real times (a session of ten minutes, a callback of five) are one tick
and none, so that each may run out first: a device login may outlive its session.

Proved (`OAuthLoginsProofs`, any logins, browsers, askers and times): `LoginsInvariance`,
`PortServed`, `ToldTruly`, `NoneAsksOn`.  `PortInv` follows the port through a takeover:
who had it is named by the login that takes it (`prev`), is not the owner any more and
stops listening only through its successor or at its own end.  `CarriedInv` says who
carries a login on, its goroutine or, for a plugin's, the questions about it; `ToldInv`
ties what was answered to the session and the token: a session that is gone although its
login began means a token, unless its time was over or polls overlapped.

## 9. What is proved, and what is only checked

| Module | About | Theorems |
|---|---|---|
| `RefreshLoopProofs` | RefreshLoop | Invariance, TypeCorrect, WakeupsKept, AuthsKept, TimerCovers, WakesWhenWanted, RemovedStays |
| `AuthAvailabilityProofs` | AuthAvailability | AvailabilityInvariance, AvailabilityTypes, FamilyQuota, IsolationSurvivesSuccess, FamilySurvivesFailure, QuotaOff, FamiliesStayApart, AggregatesAreSound |
| `SchedulerSyncProofs` | SchedulerSync, CredentialPool, SessionAffinity | SyncInvariance, SyncTypes, PickErrorsJustified, ForgottenForGood, PoolImplemented; AffinityInvariance, ConversationsStay |
| `KeeperProofs` | CooldownPersistence, SchedulerShard, ModelRegistry | CooldownInvariance, NoneIsInvented, CooldownsKept; ShardInvariance, PicksAreRight, CooldownsAreTold; RegistryInvariance, RegistryTrue |
| `PluginProofs` | PluginHost, PluginStream | PluginInvariance, CallsAreSafe; PluginStreamInvariance, StreamIsKept |
| `RequestProofs` | RequestRetry, StreamRelay, AuthUpdates, UpdateFeed, UsageRecords, RequestCounts, ReadyView | RetryInvariance, EffortBounded, GoesOnlyOn; StreamInvariance, StreamsAreWhole, NobodyLeftAlone; UpdatesInvariance, UpdatesCount, FeedImplemented; UsageInvariance, UsageKeepsOrder, NoneVanishes; CountsInvariance, FileKeepsUp; ViewInvariance, NobodyIsPassedOver |
| `SessionProofs` | WebSocketRelay, UpstreamSession | RelayInvariance, AnswersAreWhole, NoneForgotten; SessionInvariance, AnswersAreOwn, NoneStranded |
| `OAuthLoginsProofs` | OAuthLogins | LoginsInvariance, PortServed, ToldTruly, NoneAsksOn |

They hold for all values of the constants that the named assumptions of the modules
allow.  The assumptions say what the code's configuration allows (sets that are
finite or have a member where the code indexes them, times and sizes that are natural
numbers, auths apart from the values that mean none); that of SessionAffinity, for
example, that there is a key, and that "nobody" and "not known" are no auths.  Each
proof has the same form: an inductive invariant, which holds at first, is kept by each
action (a lemma for each action or for a few that share a frame) and gives the
property, or with it one step gives the action property.  The invariants and why they
are needed are in sections 3 to 8.

Every invariant and every action property that a run checks is a theorem.  Only
model-checked are the liveness properties, which are out of the proof system's reach:
RemovedLeavesHeap, and of nine others the part that says what happens at last, while the
part that says what may never happen on the way is a theorem:

| Property | Safety part | Theorem |
|---|---|---|
| NothingHangs | NeverGoesBack, NobodyWaitsAlone | GoesOnlyOn, NobodyLeftAlone |
| RequestReturns | NobodyIsForgotten | NoneForgotten |
| SessionCallEnds | NoCallIsStranded | NoneStranded |
| LoginEnds | NoneAsksForEver | NoneAsksOn |
| UsageArrives | NoRecordVanishes | NoneVanishes |
| UpdatesArrive | ImplementsFeed | FeedImplemented |
| ResultsAreSaved | FileAdvances | FileKeepsUp |
| RotationIsFair | FewPass | NobodyIsPassedOver |
| DueIsRefreshed | WakesInTime (a property of its own) | WakesWhenWanted |

Where the safety part is a state predicate, the property says it of what every step leaves
(`[][P']`), which is as much, as the initial states have it; the theorem says `[]P`.

The promises that some findings refute are model-checked by their nature.

## 10. Findings

| Run | What |
|---|---|
| `refresh_disabled` | `refreshAuth` writes back the clone it took before the network call; an auth the operator disabled meanwhile is enabled again (`conductor.go:5819`, `types.go:66`) |
| `refresh_forgotten` | an auth with a 401 leaves the heap; when a later result clears the error nobody reschedules it (`conductor.go:4075`, `conductor.go:5449`) |
| `avail_quota` | a late failure of another kind shortens the wait of a model that hit its quota (`conductor.go:3823`, `types.go:173`) |
| `sync_stale` | an older upsert that arrives last makes the scheduler offer what the manager set aside (`scheduler.go:187`) |
| `stream_done` | a stream that failed before its first payload may end as if complete, since the peek takes the closed data channel before the pending error (`openai_handlers.go:501`, `openai_handlers.go:481`) |
| `session_retry` | the reader of the old connection closes the channel of a call that was sent again over a fresh one (`codex_websockets_executor.go:1445`, `codex_websockets_executor.go:306`) |

Met while modelling, stated in the modules and in no run: an upsert that arrives after
the removal leaves the auth in the scheduler until the next rebuild (NoGhost); the
counters may go back when the flush of the shutdown meets a save (CountersCumulate);
after marks that overtook each other a model may be missing from the list although an
auth is available (ListedIfAvailable); a single auth outside its cadence is not fallen
back to, as a test says it is (CadenceFallsBack); the relay may send on a closed channel
and drops messages of a full one (NoPanic, NothingDropped); two scans of the directory
may leave the manager with an older content (LatestIsApplied); an upstream that refuses
the handshake keeps the turn of its session for ever (TurnComesBack), answers of a call
that was cut off reach the next one (OwnAnswerOnly), and a reader may close a channel
twice (SessionNoPanic); the session cache may delete a binding that was just renewed
(OnlyExpiredDropped); a push whose answer is lost is made again (ArrivesOnce), and a
record may enter the queue while it is switched off (OffIsEmpty); ok is also the answer
for a login whose session ended by time (OkMeansSaved), and a callback file that is read
while it is written counts as an error, its code lost (CallbackCounts).

Met, without a formula: a 429 of one model replaces the isolation a 403 put on its family
by a timed wait; the 12 hours for an unsupported model apply although cooling is
disabled; a late Remove takes an auth registered anew out of the refresh heap (the
`evicted` exception of NoLostAuth); the record that Register and Update hand to the
scheduler is the live one although `scheduler.go:52` describes an immutable snapshot;
PluginLoaded and PluginBusy say no while calls of a plugin being unloaded still run; a
plugin that emits more than the channel holds within its own call waits for ever; a
replaced session affinity selector is never stopped (`conductor.go:545`).

## 11. Plan

Theorems worth proving next: that UsageRecords and AuthAvailability implement smaller
promises too (a log of records without the stages, an availability without the sums); a
pick of the smooth rotation keeps the sum of the credits, which needs an induction over
the sum; that cooldowns do not outlive a restart by more than the process was down.

Modules worth adding: the Antigravity executor's own attempts over base URLs and credits
(the manager's fallback to credits is in RequestRetry) with its shared token refresh; the
home mode of Execute; the request logger's streaming writer; the git and object stores'
commit and push under one mutex; the quota preference's report of windows.
StartAutoRefresh and StopAutoRefresh are called once each by `sdk/cliproxy/service.go`, so
their races are not planned.

## 12. What is not modelled

`PROJECT.json` lists every part with its status and reason.  Translators, thinking and
signatures convert request and response bodies: data, not control.  Executors (except the
websocket session of Codex) send what the translators made and are here by their outcomes:
a status code, a Retry-After, a refreshed token, chunks.  Stores, command-line logins, the
TUI and logging are input and output.  The home client, and the home mode of Execute,
which takes its auths from it, depend on a server that is not in the repository; the usage
forwarder's side of it is in `UsageRecords`.  The caches of reasoning and signatures are
maps under a mutex with an expiry.  Most lines of the repository are of these kinds, so
the map covers a small share of it, and most of the control of `sdk/cliproxy/auth`.

Out of the proof system's reach: liveness, ENABLED, and induction over recursive
definitions; no module with a theorem needs the last.

## 13. Running

    tlc -config RefreshLive.cfg MCBackground.tla
    tlapm RefreshLoopProofs.tla

The runs, the module of each and what it is expected to show are in
`PROJECT.json`.
