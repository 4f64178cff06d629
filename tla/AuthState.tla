------------------------------ MODULE AuthState ------------------------------
(***************************************************************************)
(* What the results of requests do to one auth: the functions with which   *)
(* sdk/cliproxy/auth/conductor.go sets an auth, or one of its models, aside *)
(* and takes it back, and the selector's question whether a model may use  *)
(* the auth.                                                               *)
(*                                                                         *)
(* A stored time is the number of ticks that are left until it: 0 is a     *)
(* time that has passed, NoTime is Go's zero time.                         *)
(***************************************************************************)
EXTENDS Integers, FiniteSets

CONSTANTS
    Models,         \* model names
    Families,       \* keys of the family states: "__family__:gemini" and so on
    FamilyOf,       \* modelFamilyStateKey, NoFamily for the empty string
    NoFamily,
    MaxLevel,       \* the backoff level at which the cooldown reaches its maximum
    QuotaCooldown,  \* quotaBackoffBase doubled level times, at most quotaBackoffMax
    ChallengeMin,   \* the least cooldown after a Cloudflare challenge, 10 seconds
    RateLimitMin,   \* rateLimitMinimumCooldown, 5 hours
    Short,          \* cooldown after 401, 402 and an unattributed 403, 30 minutes
    Long,           \* cooldown after 404 and for an unsupported model, 12 hours
    Transient,      \* transient error cooldown; NoTime when the operator disabled it
    RetryAfters     \* Retry-After durations upstreams send; 0 for none

NoTime == -1

ASSUME StateAssumption ==
    /\ Models \cap Families = {} /\ NoFamily \notin Models \cup Families
    /\ FamilyOf \in [Models -> Families \cup {NoFamily}]
    /\ MaxLevel \in Nat
    /\ QuotaCooldown \in [0..MaxLevel -> Nat \ {0}]
    /\ {ChallengeMin, RateLimitMin, Short, Long} \subseteq Nat \ {0}
    /\ Transient \in (Nat \ {0}) \cup {NoTime}
    /\ RetryAfters \subseteq Nat

Keys == Models \cup Families
Time == Nat \cup {NoTime}

Quota == [exceeded: BOOLEAN, recover: Time, level: 0..MaxLevel]

\* ModelState; known is false for a key that is not in the map.
State == [known: BOOLEAN, status: {"active", "error", "invalid"}, unavailable: BOOLEAN,
          err: BOOLEAN, nextRetry: Time, quota: Quota]

\* The fields of Auth that say whether it can be used.
Auth == [disabled: BOOLEAN, status: {"active", "error", "invalid", "disabled"},
         unavailable: BOOLEAN, err: {"none", "unauthorized", "other"},
         nextRetry: Time, quota: Quota, states: [Keys -> State]]

NoQuota == [exceeded |-> FALSE, recover |-> NoTime, level |-> 0]

Fresh == [known |-> TRUE, status |-> "active", unavailable |-> FALSE, err |-> FALSE,
          nextRetry |-> NoTime, quota |-> NoQuota]

Missing == [Fresh EXCEPT !.known = FALSE]

\* An auth as its file has it, disabled by the operator or not.
FromFile(x) == [disabled |-> x, status |-> IF x THEN "disabled" ELSE "active",
                unavailable |-> FALSE, err |-> "none", nextRetry |-> NoTime,
                quota |-> NoQuota, states |-> [k \in Keys |-> Missing]]

-----------------------------------------------------------------------------
(* Is it available?                                                        *)

\* isModelStateBlocked.
StateBlocked(s) == s.status = "invalid" \/ (s.unavailable /\ s.nextRetry > 0)

Known(a) == {k \in Keys : a.states[k].known}

\* The model states that decide about m: its own and its family's.
Concerned(m) == {m, FamilyOf[m]} \cap Keys

\* Mutant: a model is blocked with its auth.
BlockedWithAuth(a, m) ==
    \/ a.disabled \/ a.status \in {"disabled", "invalid"}
    \/ \E k \in Concerned(m) : StateBlocked(a.states[k])
    \/ a.unavailable /\ a.nextRetry > 0

\* isAuthBlockedForModel, asked with a model.
Blocked(a, m) ==
    \/ a.disabled \/ a.status \in {"disabled", "invalid"}
    \/ \E k \in Concerned(m) : StateBlocked(a.states[k])

\* hasModelError.
HasModelError(a) ==
    \E k \in Known(a) :
        LET s == a.states[k] IN
        s.err \/ (s.status = "error" /\ s.unavailable /\ s.nextRetry # 0)

-----------------------------------------------------------------------------
(* updateAggregatedAvailability: the auth sums its model states up.        *)

\* Mutant: the latest retry time, not the earliest.
EarliestIsLatest(T) == IF T = {} THEN NoTime ELSE CHOOSE t \in T : \A u \in T : u =< t

\* The earliest of a set of times, the zero time when it is empty.
Earliest(T) == IF T = {} THEN NoTime ELSE CHOOSE t \in T : \A u \in T : t =< u

Highest(L) == IF L = {} THEN 0 ELSE CHOOSE l \in L : \A n \in L : n =< l

\* A cooldown that ran out is taken off.
Expired(s) == s.known /\ s.status # "invalid" /\ s.unavailable /\ s.nextRetry = 0
Settled(s) == IF Expired(s) THEN [s EXCEPT !.unavailable = FALSE, !.nextRetry = NoTime] ELSE s

Aggregated(a) ==
    LET S == [k \in Keys |-> Settled(a.states[k])]
        known == Known(a)
        down == {k \in known : StateBlocked(S[k])}
        limited == {k \in known : S[k].quota.exceeded}
        retries == {S[k].nextRetry : k \in {j \in down : S[j].status # "invalid"}}
    IN  [a EXCEPT
            !.states = S,
            !.unavailable = (known # {} /\ down = known),
            !.nextRetry = IF known # {} /\ down = known THEN Earliest(retries) ELSE NoTime,
            !.quota = IF limited = {} THEN NoQuota
                      ELSE [exceeded |-> TRUE,
                            recover |-> Earliest({S[k].quota.recover : k \in limited} \ {NoTime}),
                            level |-> Highest({S[k].quota.level : k \in limited})]]

\* The auth is active again once no model has an error.
Recovered(a) == IF HasModelError(a) THEN a ELSE [a EXCEPT !.err = "none", !.status = "active"]

-----------------------------------------------------------------------------
(* MarkResult for a request that named its model.                          *)

\* Mutant: a success takes any family state back.
AfterSuccessAny(a, m) ==
    LET S == [k \in Keys |-> IF k \in Concerned(m) THEN Fresh ELSE a.states[k]]
    IN  Recovered(Aggregated([a EXCEPT !.states = S]))

\* A success resets the model and, unless it is invalid, its family.
AfterSuccess(a, m) ==
    LET reset == {k \in Concerned(m) : k = m \/ a.states[k].status # "invalid"}
        S == [k \in Keys |-> IF k \in reset THEN Fresh ELSE a.states[k]]
    IN  Recovered(Aggregated([a EXCEPT !.states = S]))

Longer(s, t) == IF s > t THEN s ELSE t

\* Mutant: the level grows beyond the one that reaches the maximum.
NextLevelUnbounded(l) == l + 1

\* nextQuotaCooldown's next level.
NextLevel(l) == IF l = MaxLevel THEN l ELSE l + 1

\* rateLimitRetryAfter.
RateLimit(l, retryAfter) == Longer(RateLimitMin, Longer(QuotaCooldown[l], retryAfter))

Limited(t, l) == [exceeded |-> TRUE, recover |-> t, level |-> l]

\* What every failure of a model does to its state; t is the next retry.
Failed(s, t) == [s EXCEPT !.known = TRUE, !.unavailable = TRUE, !.status = "error",
                          !.err = TRUE, !.nextRetry = t]

\* nextCloudflareCooldown; off: cooling is disabled for the auth.
Challenged(s, off) ==
    LET t == IF off THEN NoTime ELSE Longer(ChallengeMin, QuotaCooldown[s.quota.level])
    IN  [Failed(s, t) EXCEPT
            !.quota = Limited(t, IF off THEN s.quota.level ELSE NextLevel(s.quota.level))]

\* clearModelFamilyIsolation, after the failure itself was noted.
Uncooled(s) == [Failed(s, NoTime) EXCEPT !.unavailable = FALSE, !.quota = NoQuota]

Invalid(s) == [Failed(s, NoTime) EXCEPT !.status = "invalid", !.quota = NoQuota]

\* The failures MarkResult tells apart.  "scoped" is the 404 of one item of a
\* request, "challenge" Cloudflare's page, "other" any status not listed.
Failures == {"unsupported", "challenge", "unauthorized", "payment", "forbidden",
             "notFound", "rateLimit", "transient", "other", "scoped"}

\* The cooldown of a failure that concerns the model alone.
Cooldown(kind, off) ==
    CASE kind = "unsupported" -> Long
      [] kind = "other" \/ off -> NoTime
      [] kind \in {"unauthorized", "payment", "forbidden"} -> Short
      [] kind = "notFound" -> Long
      [] OTHER -> Transient

\* Mutant: the backoff alone, without the minimum and the server's wait.
RateLimitedShort(s, t, l) ==
    [Failed(s, Transient) EXCEPT !.quota = Limited(t, l)]

\* markModelFamilyRateLimited for one of its two keys.
RateLimited(s, t, l) == [Failed(s, t) EXCEPT !.quota = Limited(t, l)]

\* Mutant: a 403 lifts the isolation of the family although cooling is on.
LiftsOnForbidden(kind, off) == kind = "forbidden" \/ (off /\ kind = "rateLimit")

\* Failures that, with cooling off, lift the isolation of the family.
Lifts(kind, off) == off /\ kind \in {"rateLimit", "forbidden"}

\* The states after m failed; only 403 and 429 concern its family as well.
FailedStates(a, m, kind, retryAfter, off) ==
    LET s == a.states[m]
        l == s.quota.level
        isolated == FamilyOf[m] # NoFamily
    IN  CASE kind = "challenge" -> [a.states EXCEPT ![m] = Challenged(s, off)]
          [] Lifts(kind, off) ->
                [k \in Keys |-> IF k = m THEN Uncooled(s)
                                ELSE IF k \in Concerned(m) THEN Missing ELSE a.states[k]]
          [] kind = "rateLimit" /\ ~Lifts(kind, off) ->
                [k \in Keys |-> IF k \in Concerned(m)
                                THEN RateLimited(a.states[k], RateLimit(l, retryAfter), NextLevel(l))
                                ELSE a.states[k]]
          [] kind = "forbidden" /\ ~Lifts(kind, off) /\ isolated ->
                [k \in Keys |-> IF k \in Concerned(m) THEN Invalid(a.states[k])
                                ELSE a.states[k]]
          [] OTHER -> [a.states EXCEPT ![m] = Failed(s, Cooldown(kind, off))]

ErrorOf(kind) == IF kind = "unauthorized" THEN "unauthorized" ELSE "other"

AfterFailure(a, m, kind, retryAfter, off) ==
    IF kind = "scoped" THEN a
    ELSE Aggregated([a EXCEPT !.states = FailedStates(a, m, kind, retryAfter, off),
                              !.err = ErrorOf(kind), !.status = "error"])

-----------------------------------------------------------------------------
(* MarkResult for a request without a model.                               *)

\* clearAuthStateOnSuccess.
AfterAuthSuccess(a) ==
    [a EXCEPT !.unavailable = FALSE, !.status = "active", !.err = "none",
              !.nextRetry = NoTime, !.quota = NoQuota]

\* applyAuthFailureState.
AfterAuthFailure(a, kind, retryAfter, off) ==
    LET l == a.quota.level
        b == [a EXCEPT !.unavailable = TRUE, !.status = "error", !.err = ErrorOf(kind)]
        t == IF kind = "rateLimit" THEN RateLimit(l, retryAfter)
             ELSE Longer(ChallengeMin, QuotaCooldown[l])
    IN  CASE kind = "scoped" -> a
          [] kind # "scoped" /\ off ->
                [b EXCEPT !.unavailable = FALSE, !.nextRetry = NoTime, !.quota = NoQuota]
          [] kind \in {"rateLimit", "challenge"} /\ ~off ->
                [b EXCEPT !.nextRetry = t, !.quota = Limited(t, NextLevel(l))]
          [] kind = "forbidden" /\ ~off ->
                [b EXCEPT !.status = "invalid", !.nextRetry = NoTime, !.quota = NoQuota]
          [] kind \in {"unsupported", "other"} /\ ~off -> b
          [] OTHER -> [b EXCEPT !.nextRetry = Cooldown(kind, off)]

-----------------------------------------------------------------------------
(* What the operator, the registry and the refresh do.                     *)

Enabled(a) == ~a.disabled /\ a.status # "disabled"

Cooling(s) == s.unavailable \/ s.nextRetry # NoTime \/ s.quota.exceeded
              \/ s.quota.recover # NoTime

Uncool(s) == IF Cooling(s)
             THEN [s EXCEPT !.unavailable = FALSE, !.nextRetry = NoTime, !.quota = NoQuota]
             ELSE s

\* clearCooldownStateForAuth.
ClearCooldown(a) ==
    LET b == [Uncool(a) EXCEPT !.states = [k \in Keys |-> Uncool(a.states[k])]]
    IN  IF Known(a) = {} THEN b ELSE Aggregated(b)

\* ResetQuota.
Reset(a) ==
    LET b == ClearCooldown([a EXCEPT !.states =
                [k \in Keys |-> IF a.states[k].known THEN Fresh ELSE Missing]])
    IN  IF Enabled(a) THEN Recovered(b) ELSE b

\* ReconcileRegistryModelStates, with the models the registry has for the auth.
Reconciled(a, supported) ==
    LET S == [k \in Keys |-> IF k \in supported /\ a.states[k].known THEN Fresh ELSE Missing]
    IN  IF S = a.states THEN a ELSE Recovered(Aggregated([a EXCEPT !.states = S]))

\* Mutant: an auth is stored as it comes, cooling disabled or not.
UpdatedKeeps(a, b, off) ==
    [b EXCEPT !.states =
        IF Enabled(a) /\ Enabled(b) /\ Known(b) = {} THEN a.states ELSE b.states]

\* Update stores b over a: model states are carried over between enabled auths.
Updated(a, b, off) ==
    LET c == [b EXCEPT !.states =
                IF Enabled(a) /\ Enabled(b) /\ Known(b) = {} THEN a.states ELSE b.states]
    IN  IF off \/ ~Enabled(b) THEN ClearCooldown(c) ELSE c

\* refreshAuth's own marks on the stored auth when Refresh failed.
RefreshFailure(a, unauthorized) ==
    IF unauthorized
    THEN [a EXCEPT !.err = "unauthorized", !.unavailable = TRUE, !.status = "error"]
    ELSE [a EXCEPT !.err = "other"]

-----------------------------------------------------------------------------
Elapse(t) == IF t > 0 THEN t - 1 ELSE t

Later(s) == [s EXCEPT !.nextRetry = Elapse(s.nextRetry),
                      !.quota = [s.quota EXCEPT !.recover = Elapse(s.quota.recover)]]

\* The auth one tick later.
Ticked(a) == [Later(a) EXCEPT !.states = [k \in Keys |-> Later(a.states[k])]]
==============================================================================
