--------------------------- MODULE SchedulerShard ---------------------------
(***************************************************************************)
(* What the scheduler keeps of the auths for one model and how it picks    *)
(* one (sdk/cliproxy/auth/scheduler.go, quota_preference.go).              *)
(*                                                                         *)
(* For each provider there is a shard, built when it is first asked.  It   *)
(* evaluates an auth's record once and keeps the outcome (an entry) with   *)
(* the time of the next evaluation, and it keeps the entries sorted into   *)
(* views by priority and transport (the index).  Times are ticks left.     *)
(*                                                                         *)
(* What is known of the quotas, and which auths the operator put first, is *)
(* kept elsewhere and may be anything when an auth is picked (a view of    *)
(* Routings).  In which order a view hands out its auths is ReadyView.     *)
(***************************************************************************)
EXTENDS Credentials, FiniteSets

CONSTANTS
    Classes,       \* the priorities and transports an auth may have
    MaxWait,       \* bound: ticks an auth waits
    Cadence,       \* ticks between two picks of a pinned auth (ten seconds)
    Routings       \* what may be known of the quotas when an auth is picked

\* spent: the five-hour quota is used up; pool: 0 for none, else how soon the
\* weekly quota is reset, from Urgent on; pinned: put first by the operator.
Urgent == 1
ASSUME ShardAssumption ==
    /\ IsFiniteSet(Auths) /\ "none" \notin Providers
    /\ MaxWait \in Nat \ {0} /\ Cadence \in Nat
    /\ Classes \subseteq [priority: Int, websocket: BOOLEAN]
    /\ \A r \in Routings : /\ r.spent \subseteq Auths /\ r.pinned \subseteq Auths
                           /\ r.pool \in [Auths -> 0..4]
                           /\ \A a \in r.spent : r.pool[a] = 0

VARIABLES
    meta,          \* providerScheduler.auths: the record each auth came with
    built,         \* the providers that have a shard for the model
    entry,         \* modelScheduler.entries
    index,         \* readyByPriority, allReady and blocked
    cadence        \* manualRouting.lastPicked: ticks until it does not matter

shardVars == <<meta, built, entry, index, cadence>>

NoAuth == [provider |-> "none"]
\* A record as isAuthBlockedForModel sees it: off, or unavailable for retry
\* ticks because of the quota, which recovers in recover ticks, or otherwise.
Records == {[kind |-> "off", retry |-> 0, recover |-> 0]}
    \cup [kind: {"quota"}, retry: 0..MaxWait, recover: 0..MaxWait]
    \cup [kind: {"other"}, retry: 0..MaxWait, recover: {0}]
Metas == [provider: Providers, class: Classes, supports: BOOLEAN, record: Records]

NoTime == -1
NoEntry == [state |-> "none", next |-> NoTime]
Entries == [state: {"ready", "cooldown", "blocked", "disabled"}, next: NoTime..MaxWait]

Unindexed == [view |-> "none"]
Waiting == [view |-> "blocked"]
IndexOf(a, en, me) ==
    CASE en[a].state = "ready" -> [view |-> "ready", class |-> me[a].class]
      [] en[a].state \in {"cooldown", "blocked"} -> Waiting
      [] OTHER -> Unindexed

ShardTypeOK ==
    /\ meta \in [Auths -> Metas \cup {NoAuth}]
    /\ built \subseteq Providers
    /\ entry \in [Auths -> Entries \cup {NoEntry}]
    /\ \A a \in Auths : index[a] \in {Unindexed, Waiting}
            \cup [view: {"ready"}, class: Classes]
    /\ cadence \in [Auths -> 0..Cadence]

ShardInit ==
    /\ meta = [a \in Auths |-> NoAuth] /\ built = {}
    /\ entry = [a \in Auths |-> NoEntry] /\ index = [a \in Auths |-> Unindexed]
    /\ cadence = [a \in Auths |-> 0]

-----------------------------------------------------------------------------
(* Entries and index.                                                      *)

\* isAuthBlockedForModel and what upsertEntryLocked makes of it.  An auth whose
\* quota is exceeded is looked at again when that recovers.
Evaluated(rec) ==
    CASE rec.kind = "off" -> [state |-> "disabled", next |-> NoTime]
      [] rec.kind # "off" /\ rec.retry = 0 -> [state |-> "ready", next |-> NoTime]
      [] OTHER -> [state |-> IF rec.kind = "quota" THEN "cooldown" ELSE "blocked",
                   next |-> IF rec.recover > 0 THEN rec.recover ELSE rec.retry]

Of(p, me) == {a \in Auths : me[a].provider = p}
Listed(a, me) == me[a] # NoAuth /\ me[a].supports

\* rebuildIndexesLocked of the shards of some auths.
Reindexed(as, en, me) == [a \in Auths |-> IF a \in as THEN IndexOf(a, en, me) ELSE index[a]]

\* Mutant: an auth that is as ready as before is left where it is.
UnchangedState(a, new) == entry[a] = Evaluated(new.record)

\* upsertEntryLocked leaves the index alone if nothing in it changes.
UnchangedEntry(a, new) ==
    /\ entry[a] # NoEntry /\ entry[a] = Evaluated(new.record)
    /\ meta[a].class = new.class

UpsertAuth(a) == \E new \in Metas :
    LET stays == meta[a].provider = new.provider
        kept == new.supports /\ new.provider \in built
    IN  /\ meta' = [meta EXCEPT ![a] = new]
        /\ entry' = [entry EXCEPT ![a] = IF kept THEN Evaluated(new.record) ELSE NoEntry]
        /\ index' = IF stays /\ kept /\ UnchangedEntry(a, new) THEN index
                    ELSE Reindexed({a} \cup Of(meta[a].provider, meta) \cup Of(new.provider, meta),
                                   entry', meta')
        /\ UNCHANGED <<built, cadence>>

\* removeAuth, and an upsert of an auth that is disabled.
RemoveAuth(a) ==
    /\ meta[a] # NoAuth
    /\ meta' = [meta EXCEPT ![a] = NoAuth]
    /\ entry' = [entry EXCEPT ![a] = NoEntry]
    /\ index' = IF entry[a] = NoEntry THEN index
                ELSE Reindexed({a} \cup Of(meta[a].provider, meta'), entry', meta')
    /\ UNCHANGED <<built, cadence>>

\* rebuild: shards are gone until they are asked for again.
RebuildAll ==
    /\ built # {}
    /\ built' = {} /\ entry' = [a \in Auths |-> NoEntry]
    /\ index' = [a \in Auths |-> Unindexed]
    /\ UNCHANGED <<meta, cadence>>

\* Mutant: an auth whose quota was exceeded is not looked at again.
ExpiredBlocked(ps) == {a \in Auths : entry[a].state = "blocked" /\ entry[a].next = 0 /\ meta[a].provider \in ps}

\* promoteExpiredLocked: the waiting entries that are due.
Expired(ps) == {a \in Auths : index[a] = Waiting /\ entry[a].next = 0 /\ meta[a].provider \in ps}

\* ensureModelLocked of the shards of some providers.
EnsuredEntry(ps) ==
    [a \in Auths |->
        IF a \in Expired(ps) \/ (meta[a].provider \in ps \ built /\ Listed(a, meta))
        THEN Evaluated(meta[a].record) ELSE entry[a]]
EnsuredIndex(ps) ==
    Reindexed({a \in Auths : meta[a].provider \in ps /\
                             (meta[a].provider \notin built \/ Expired({meta[a].provider}) # {})},
              EnsuredEntry(ps), meta)

-----------------------------------------------------------------------------
(* Picks.  en and ix are the entries and the index of the ensured shards.  *)

Ready(en, as) == {a \in as : en[a].state = "ready"}
Views(ix, as) == {a \in as : ix[a].view = "ready"}
Lowest(n) == CHOOSE i \in n : \A j \in n : i <= j
Highest(n) == CHOOSE i \in n : \A j \in n : i >= j

\* weeklyPreferredPredicate: only the auths of the pool that is reset first, if
\* any of them is in one.
Preferred(as, r) ==
    LET pools == {r.pool[a] : a \in as} \ {0}
    IN  IF pools = {} THEN as ELSE {a \in as : r.pool[a] = Lowest(pools)}

\* Websocket auths first, if that is asked for and there is one.
Transport(as, ix, ws) ==
    LET sockets == {a \in as : ix[a].class.websocket}
    IN  IF ws /\ sockets # {} THEN sockets ELSE as

\* pickReadyLocked after the pinned auths: an urgent pool goes before priority.
Ordinary(as, ix, ws, r) ==
    LET likely == Transport(Preferred(as, r), ix, ws)
    IN  IF likely # {} /\ \A a \in likely : r.pool[a] = Urgent THEN likely
        ELSE {a \in likely : ix[a].class.priority = Highest({ix[b].class.priority : b \in likely})}

\* manualWeeklyRoutingState.pick: the pinned auths of the first pool that were
\* not picked this way within the cadence.
Manual(as, en, r) ==
    LET pinned == {a \in Ready(en, as) : a \in r.pinned /\ r.pool[a] # 0}
    IN  {a \in Preferred(pinned, r) : cadence[a] = 0}

\* The predicate of the ordinary pick.
Allowed(as, r) == {a \in as \ r.spent : cadence[a] = 0}

NotFound == [kind |-> "auth_not_found"]
Unavailable == [kind |-> "auth_unavailable"]
Cooldown(n) == [kind |-> "model_cooldown", reset |-> n]

\* Mutant: one auth that cools down is enough.
FailureAny(as, en) ==
    LET cooling == {a \in as : en[a].state = "cooldown"}
    IN  IF cooling = {} THEN Unavailable ELSE Cooldown(Lowest({en[a].next : a \in cooling}))

\* unavailableErrorLocked, mixedUnavailableErrorLocked on the auths asked for.
Failure(as, en) ==
    LET found == {a \in as : en[a] # NoEntry}
        cooling == {a \in found : en[a].state = "cooldown"}
    IN  CASE found = {} -> NotFound
          [] found # {} /\ cooling = found -> Cooldown(Lowest({en[a].next : a \in cooling}))
          [] OTHER -> Unavailable

\* pickSingle, and pickMixed for a pinned auth, of the auths of one provider that
\* were not tried: whom it may return, and whether that is a pinned auth's turn.
Candidates(p, tried, ws, r) ==
    LET as == Of(p, meta) \ tried
        ix == EnsuredIndex({p})
        manual == Manual(as, EnsuredEntry({p}), r)
    IN  IF manual # {} THEN manual ELSE Ordinary(Allowed(Views(ix, as), r), ix, ws, r)

\* The providers that have auths; the others are answered at once.
Served == {p \in Providers : Of(p, meta) # {}}

PickSingle(p, tried, r) ==
    /\ entry' = EnsuredEntry({p}) /\ index' = EnsuredIndex({p}) /\ built' = built \cup {p}
    /\ LET turns == Manual(Of(p, meta) \ tried, EnsuredEntry({p}), r)
       IN  IF turns = {} THEN UNCHANGED cadence
           ELSE \E a \in turns : cadence' = [cadence EXCEPT ![a] = Cadence]
    /\ UNCHANGED meta

\* pickMixed of several providers: the highest priority that has a ready auth,
\* then whichever auths of that priority the quotas leave.
MixedCandidates(ps, tried, r) ==
    LET ix == EnsuredIndex(ps)
        ready == Views(ix, {a \in Auths \ tried : meta[a].provider \in ps})
        top == {a \in ready : ix[a].class.priority = Highest({ix[b].class.priority : b \in ready})}
    IN  UNION {Preferred((top \cap Of(p, meta)) \ r.spent, r) : p \in ps}

PickMixed ==
    /\ entry' = EnsuredEntry(Served) /\ index' = EnsuredIndex(Served)
    /\ built' = built \cup Served
    /\ UNCHANGED <<meta, cadence>>

ShardTick ==
    /\ meta' = [a \in Auths |-> IF meta[a] = NoAuth THEN NoAuth
            ELSE [meta[a] EXCEPT !.record.retry = Elapse(@), !.record.recover = Elapse(@)]]
    /\ entry' = [a \in Auths |-> [entry[a] EXCEPT !.next = Elapse(@)]]
    /\ cadence' = [a \in Auths |-> Elapse(cadence[a])]
    /\ UNCHANGED <<built, index>>

ShardNext ==
    \/ \E a \in Auths : UpsertAuth(a) \/ RemoveAuth(a)
    \/ RebuildAll
    \/ \E p \in Served, tried \in SUBSET Auths, r \in Routings : PickSingle(p, tried, r)
    \/ PickMixed
    \/ ShardTick

ShardSpec == ShardInit /\ [][ShardNext]_shardVars

-----------------------------------------------------------------------------
(* Properties.                                                             *)

Free(a) == meta[a] # NoAuth /\ meta[a].record.kind # "off" /\ meta[a].record.retry = 0

\* Each auth that supports the model has its entry in the shard of its provider
\* and in no other place, sorted by the priority and the transport it has now.
ShardComplete ==
    \A a \in Auths :
        /\ entry[a] # NoEntry <=> Listed(a, meta) /\ meta[a].provider \in built
        /\ index[a] = IndexOf(a, entry, meta)

\* The shards never drift from the records they were given, and whoever a pick may
\* return is free at that moment, was not tried yet, and has five-hour quota left,
\* whatever is stale in the shards; and a request for one provider that finds no
\* auth finds none that is free and is not held back by its five-hour quota, the
\* cadence of its pin or the later time its quota recovers at.
PickIsRight ==
    /\ ShardComplete
    /\ \A tried \in SUBSET Auths, r \in Routings :
           /\ \A a \in MixedCandidates(Served, tried, r) : Free(a) /\ a \notin tried \cup r.spent
           /\ \A p \in Served, ws \in BOOLEAN :
               LET found == Candidates(p, tried, ws, r) IN
               /\ \A a \in found : Free(a) /\ a \notin tried \cup r.spent
               /\ found = {} => \A a \in Of(p, meta) \ tried : Free(a) /\ meta[a].supports =>
                       a \in r.spent \/ cadence[a] > 0 \/ meta[a].record.recover > 0

\* The time a cooldown error names is not too early: every auth that was asked
\* for waits for its quota until then.
CooldownIsTold ==
    \A p \in Served, tried \in SUBSET Auths :
        LET asked == Of(p, meta) \ tried
            told == Failure(asked, EnsuredEntry({p}))
        IN  told.kind = "model_cooldown" => \A a \in asked : meta[a].supports =>
                /\ meta[a].record.kind = "quota"
                /\ told.reset <= meta[a].record.retry \/ told.reset <= meta[a].record.recover

-----------------------------------------------------------------------------
(* What a test says and the code does not do.                              *)

\* quota_preference_test.go: a pinned auth within its cadence falls back to
\* ordinary routing, so a ready auth with five-hour quota left is always found.
CadenceFallsBack ==
    \A p \in Served, tried \in SUBSET Auths, ws \in BOOLEAN, r \in Routings :
        Candidates(p, tried, ws, r) = {} =>
            \A a \in Of(p, meta) \ tried : EnsuredEntry({p})[a].state = "ready" => a \in r.spent
==============================================================================
