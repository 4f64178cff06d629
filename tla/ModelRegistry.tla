---------------------------- MODULE ModelRegistry ----------------------------
(***************************************************************************)
(* The registry of the models that clients (auths) provide                 *)
(* (internal/registry/model_registry.go), and the marks the manager sets   *)
(* on them after it recorded a result (sdk/cliproxy/auth/conductor.go).    *)
(*                                                                         *)
(* A client registers a list of models, in which a model may occur more    *)
(* than once; the registry counts the occurrences by model and by          *)
(* provider.  MarkResult leaves the manager's lock before it marks the     *)
(* client's model in the registry, one call at a time: by then the client  *)
(* may have been unregistered, or another result may have come first.      *)
(* The list of available models is cached.                                 *)
(***************************************************************************)
EXTENDS Credentials, Sequences, FiniteSets

CONSTANTS
    Clients, Models,
    NoProvider,    \* the empty provider
    NoClient,
    Reporters,     \* goroutines that report results
    MaxListed,     \* bound: length of a client's list
    Window         \* ticks until a quota mark expires (five minutes)

ASSUME RegistryAssumption ==
    /\ Window \in Nat \ {0} /\ NoProvider \notin Providers /\ NoClient \notin Clients
    /\ MaxListed \in Nat /\ IsFiniteSet(Clients) /\ IsFiniteSet(Models) /\ Models # {}

VARIABLES
    bound,         \* clientModels: how often each client lists each model
    provider,      \* clientProviders
    models,        \* models: the registrations
    report,        \* the registry calls a reporter has yet to make
    cache          \* availableModelsCache, of one handler type

registryVars == <<bound, provider, models, report, cache>>

\* A model's registration.  quota is the time left of each client's mark.
Registration ==
    [count: Nat, providers: [Providers -> Nat],
     quota: [Clients -> 0..Window], suspended: [Clients -> {"no", "quota", "other"}]]

Unregistered ==
    [count |-> 0, providers |-> [p \in Providers |-> 0],
     quota |-> [c \in Clients |-> 0], suspended |-> [c \in Clients |-> "no"]]

Calls == {"clearQuota", "setQuota", "resume", "suspendQuota", "suspendOther"}

\* Ticks until the cached list is out of date.
Never == Window + 1
Cache == [listed: SUBSET Models, expires: 1..Never]
NoCache == [listed |-> {}, expires |-> 0]

\* The entries of a list, and the lists that are not too long.
EntriesOf(l) == {e \in Models \X (1..MaxListed) : e[2] <= l[e[1]]}
Lists == {l \in [Models -> 0..MaxListed] : Cardinality(EntriesOf(l)) <= MaxListed}
EmptyList == [m \in Models |-> 0]

RegistryTypeOK ==
    /\ bound \in [Clients -> [Models -> 0..MaxListed]]
    /\ provider \in [Clients -> Providers \cup {NoProvider}]
    /\ models \in [Models -> Registration]
    /\ report \in [Reporters -> [client: Clients \cup {NoClient}, model: Models, calls: Seq(Calls)]]
    /\ cache \in Cache \cup {NoCache}

NoReport == [client |-> NoClient, model |-> CHOOSE m \in Models : TRUE, calls |-> <<>>]

RegistryInit ==
    /\ bound = [c \in Clients |-> EmptyList]
    /\ provider = [c \in Clients |-> NoProvider]
    /\ models = [m \in Models |-> Unregistered]
    /\ report = [r \in Reporters |-> NoReport]
    /\ cache = NoCache

-----------------------------------------------------------------------------
(* Registrations.                                                          *)

Less(a, b) == IF a > b THEN a - b ELSE 0
Least(a, b) == IF a < b THEN a ELSE b

\* n times addModelRegistration.
Added(reg, p, n) ==
    [reg EXCEPT !.count = @ + n,
                !.providers = [q \in Providers |-> IF q = p THEN @[q] + n ELSE @[q]]]

Unmarked(reg, c) == [reg EXCEPT !.quota[c] = 0, !.suspended[c] = "no"]

\* n > 0 times removeModelRegistration.
Removed(reg, c, p, n) ==
    IF reg.count <= n THEN Unregistered
    ELSE [Unmarked(reg, c) EXCEPT
            !.count = @ - n,
            !.providers = [q \in Providers |-> IF q = p THEN Less(@[q], n) ELSE @[q]]]

Provided(reg, p, n) ==
    [reg EXCEPT !.providers = [q \in Providers |-> IF q = p THEN @[q] + n ELSE @[q]]]

\* The occurrences that stay are taken from the old provider ...
Withdrawn(reg, p, n) ==
    [reg EXCEPT !.providers = [q \in Providers |-> IF q = p THEN Less(@[q], n) ELSE @[q]]]

\* Mutant: ... and, when the provider changes, counted for the new one twice.
MovedTwice(reg, c, old, new, p) ==
    LET fresh == Unmarked(reg, c) IN
    IF p # provider[c] THEN Provided(fresh, p, new) ELSE fresh

\* ... and given to the new one.
Moved(reg, c, old, new, p) ==
    LET fresh == Unmarked(reg, c) IN
    IF p # provider[c] THEN Provided(fresh, p, Least(old, new)) ELSE fresh

\* RegisterClient on one model of a client that is registered already: old and
\* new are the occurrences in its lists, p the new provider.
Reconciled(reg, c, old, new, p) ==
    LET moving == IF p # provider[c] /\ new > 0
                  THEN Withdrawn(reg, provider[c], Least(old, new)) ELSE reg
        fewer == IF old > new THEN Removed(moving, c, provider[c], old - new) ELSE moving
        more == IF new > old THEN Added(fewer, p, new - old) ELSE fewer
    IN  IF new > 0 THEN Moved(more, c, old, new, p) ELSE more

\* unregisterClientInternal.
Deregistered(c) ==
    [m \in Models |-> IF bound[c][m] > 0 THEN Removed(models[m], c, provider[c], bound[c][m])
                      ELSE models[m]]

RegisterClient(c, p, list) ==
    /\ bound' = [bound EXCEPT ![c] = list]
    /\ models' =
        IF list = EmptyList THEN Deregistered(c)
        ELSE [m \in Models |->
                IF bound[c] # EmptyList THEN Reconciled(models[m], c, bound[c][m], list[m], p)
                ELSE IF list[m] > 0 THEN Added(models[m], p, list[m]) ELSE models[m]]
    /\ provider' = [provider EXCEPT ![c] = IF list = EmptyList THEN NoProvider ELSE p]
    /\ cache' = NoCache
    /\ UNCHANGED report

UnregisterClient(c) ==
    /\ bound' = [bound EXCEPT ![c] = EmptyList]
    /\ models' = Deregistered(c)
    /\ provider' = [provider EXCEPT ![c] = NoProvider]
    /\ cache' = NoCache
    /\ UNCHANGED report

-----------------------------------------------------------------------------
(* Marks.                                                                  *)

\* What MarkResult, or ResetQuota for one model, calls after it unlocked.
Outcomes ==
    {<<"clearQuota", "resume">>,        \* a success, ResetQuota
     <<"setQuota", "suspendQuota">>,    \* a 429
     <<"suspendOther">>}                \* 401, 402, 403, 404, an unsupported model

\* A result for a model the client had when the request was sent.
ReportResult(r, c, m) ==
    /\ report[r].calls = <<>> /\ bound[c][m] > 0
    /\ \E calls \in Outcomes :
            report' = [report EXCEPT ![r] = [client |-> c, model |-> m, calls |-> calls]]
    /\ UNCHANGED <<bound, provider, models, cache>>

\* Who is suspended already keeps the reason.
Marked(reg, c, call) ==
    CASE call = "setQuota" -> [reg EXCEPT !.quota[c] = Window]
      [] call = "clearQuota" -> [reg EXCEPT !.quota[c] = 0]
      [] call = "resume" -> [reg EXCEPT !.suspended[c] = "no"]
      [] call = "suspendQuota" -> [reg EXCEPT !.suspended[c] = IF @ = "no" THEN "quota" ELSE @]
      [] OTHER -> [reg EXCEPT !.suspended[c] = IF @ = "no" THEN "other" ELSE @]

\* A suspension or its end that changes nothing returns early.
Invalidated(m, reg, call) ==
    models[m].count > 0 /\ (reg # models[m] \/ call \in {"setQuota", "clearQuota"})

\* One call of the registry; a model that is not registered is skipped.
MakeCall(r) ==
    /\ report[r].calls # <<>>
    /\ LET m == report[r].model
           call == Head(report[r].calls)
           reg == Marked(models[m], report[r].client, call)
       IN  /\ models' = IF models[m].count > 0 THEN [models EXCEPT ![m] = reg] ELSE models
           /\ cache' = IF Invalidated(m, reg, call) THEN NoCache ELSE cache
    /\ report' = [report EXCEPT ![r] = IF Len(@.calls) = 1 THEN NoReport
                                       ELSE [@ EXCEPT !.calls = Tail(report[r].calls)]]
    /\ UNCHANGED <<bound, provider>>

-----------------------------------------------------------------------------
(* The list of available models.                                           *)

OverQuota(reg) == {c \in Clients : reg.quota[c] > 0}
Suspended(reg, reasons) == {c \in Clients : reg.suspended[c] \in reasons}

\* buildAvailableModelsLocked on one model.
Available(reg) ==
    LET over == Cardinality(OverQuota(reg))
        other == Cardinality(Suspended(reg, {"other"}))
    IN  \/ reg.count - over - other > 0
        \/ /\ reg.count > 0 /\ other = 0
           /\ over > 0 \/ Suspended(reg, {"quota"}) # {}

ListedNow == {m \in Models : Available(models[m])}

\* Mutant: the list is kept until the last mark expires.
ExpiryLast ==
    LET times == {models[m].quota[c] : m \in Models, c \in Clients} \ {0}
    IN  IF times = {} THEN Never ELSE CHOOSE t \in times : \A u \in times : u <= t

\* The first mark to expire changes the list.
Expiry ==
    LET times == {models[m].quota[c] : m \in Models, c \in Clients} \ {0}
    IN  IF times = {} THEN Never ELSE CHOOSE t \in times : \A u \in times : t <= u

\* GetAvailableModels builds the list unless a valid one is cached.
GetAvailableModels ==
    /\ cache = NoCache
    /\ cache' = [listed |-> ListedNow, expires |-> Expiry]
    /\ UNCHANGED <<bound, provider, models, report>>

RegistryTick ==
    /\ models' = [m \in Models |->
            [models[m] EXCEPT !.quota = [c \in Clients |-> Elapse(@[c])]]]
    /\ cache' = CASE cache.expires = Never -> cache
                  [] cache.expires \in {0, 1} -> NoCache
                  [] OTHER -> [cache EXCEPT !.expires = @ - 1]
    /\ UNCHANGED <<bound, provider, report>>

RegistryNext ==
    \/ \E c \in Clients :
        \/ \E p \in Providers \cup {NoProvider}, list \in Lists : RegisterClient(c, p, list)
        \/ UnregisterClient(c)
        \/ \E r \in Reporters, m \in Models : ReportResult(r, c, m)
    \/ \E r \in Reporters : MakeCall(r)
    \/ GetAvailableModels \/ RegistryTick

RegistrySpec == RegistryInit /\ [][RegistryNext]_registryVars

-----------------------------------------------------------------------------
(* Properties.                                                             *)

\* The entries for a model in the lists of these clients.
Occurrences(m, cs) == Cardinality({e \in cs \X (1..MaxListed) : e[2] <= bound[e[1]][m]})

\* After any sequence of registrations, of longer and shorter lists, with
\* repetitions and under another provider, the counters are those of the lists
\* the clients have now: no client is counted twice or left behind.
CountsMatch ==
    \A m \in Models :
        /\ models[m].count = Occurrences(m, Clients)
        /\ \A p \in Providers :
            models[m].providers[p] = Occurrences(m, {c \in Clients : provider[c] = p})

\* Whoever asks for the available models is told what holds now: every change
\* drops the cached list, and time does so when it matters.
CacheFresh == cache # NoCache => cache.listed = ListedNow

\* The registry tells what is registered: its counters and its cached list are right.
RegistryIsTrue == CountsMatch /\ CacheFresh

-----------------------------------------------------------------------------
(* What the documentation says and the code does not do.                   *)

\* model_registry.go: GetAvailableModels returns all models that have at least
\* one available client.
ListedIfAvailable ==
    \A m \in Models :
        (\E c \in Clients : bound[c][m] > 0 /\ models[m].quota[c] = 0
                            /\ models[m].suspended[c] = "no")
            => m \in ListedNow
==============================================================================
