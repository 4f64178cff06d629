---------------------------- MODULE RequestRetry ----------------------------
(***************************************************************************)
(* One request and its retries (Execute, ExecuteStream and ExecuteCount of *)
(* sdk/cliproxy/auth/conductor.go).                                        *)
(*                                                                         *)
(* A round goes through the auths, and each upstream model of an auth; it  *)
(* ends with an answer, an error nobody should retry, or the last error.   *)
(* Then the request may wait, for the auth whose cooldown ends first or    *)
(* for as long as the provider said, and start another round.  When no     *)
(* round is left, the auths of the antigravity provider may be asked once  *)
(* more, with credits, those tried before included.  Other requests put    *)
(* auths into cooldown and back at any time.                               *)
(*                                                                         *)
(* Cooldowns and waits are ticks left.  How a stream hands its chunks on   *)
(* is in StreamRelay; here a stream is answered at its first payload.      *)
(***************************************************************************)
EXTENDS Integers, FiniteSets, FiniteSetsExt

CONSTANTS
    Auths,
    Retries,              \* per auth, its request_retry or the configured one
    Models,               \* per auth, how many upstream models the model has there
    MaxRetryCredentials,  \* 0: any number
    MaxRetryInterval,     \* ticks
    Antigravity,          \* the auths that may be asked with credits
    Nobody,               \* no auth
    MaxCooldown           \* bound: ticks of a cooldown or of a Retry-After

ASSUME RetryAssumption ==
    /\ IsFiniteSet(Auths) /\ Nobody \notin Auths
    /\ Antigravity \subseteq Auths
    /\ Retries \in [Auths -> Nat] /\ Models \in [Auths -> Nat]
    /\ MaxRetryCredentials \in Nat /\ MaxRetryInterval \in Nat /\ MaxCooldown \in Nat

VARIABLES
    cooling,       \* per auth, ticks until it may be picked
    round,         \* attempt
    tried, attempted,  \* of this round
    lastErr,       \* of this round
    step,          \* where the request is
    auth, model,   \* that is being asked; how many of its models are left
    waitLeft,
    spent,         \* auths asked, or passed over, with credits
    runs,          \* per auth, its upstream requests in this round or with credits
    wrong,         \* history: an upstream said the request is wrong
    waited         \* history: ticks waited so far

retryVars == <<cooling, round, tried, attempted, lastErr, step, auth, model, waitLeft, spent,
               runs, wrong, waited>>

NoError == [kind |-> "none"]
Invalid == [kind |-> "invalid"]          \* isRequestInvalidError
Other == [kind |-> "other"]
\* Status 503, or auth_not_found and auth_unavailable, which have no status.
Unavailable == [kind |-> "unavailable"]
\* Status 429: after is the provider's Retry-After; a cooldown error has none.
TooMany(n) == [kind |-> "429", after |-> n]
UpstreamErrors == {Invalid, Other, Unavailable} \cup {TooMany(n) : n \in 0..MaxCooldown}

RetryTypeOK ==
    /\ cooling \in [Auths -> 0..MaxCooldown] /\ round \in Nat
    /\ attempted \subseteq Auths /\ tried \subseteq Auths
    /\ lastErr \in UpstreamErrors \cup {NoError}
    /\ step \in {"idle", "pick", "prepare", "execute", "failed", "wait", "credits",
               "spend", "answered", "refused", "cancelled"}
    /\ spent \subseteq Antigravity
    /\ auth \in Auths \cup {Nobody} /\ model \in Nat
    /\ waitLeft \in Nat
    /\ runs \in [Auths -> Nat] /\ wrong \in BOOLEAN /\ waited \in Nat

NoRuns == [a \in Auths |-> 0]

RetryInit ==
    /\ cooling = [a \in Auths |-> 0]
    /\ round = 0 /\ tried = {} /\ attempted = {} /\ lastErr = NoError
    /\ step = "idle" /\ auth = Nobody /\ model = 0 /\ waitLeft = 0
    /\ spent = {} /\ runs = NoRuns /\ wrong = FALSE /\ waited = 0

-----------------------------------------------------------------------------
(* A round: executeMixedOnce, executeStreamMixedOnce.                      *)

\* The request arrives.
Begin ==
    /\ step = "idle" /\ step' = "pick"
    /\ UNCHANGED <<cooling, round, tried, attempted, lastErr, auth, model, waitLeft, spent, runs,
                   wrong, waited>>

\* Mutant: one more than configured.
EnoughLate == MaxRetryCredentials > 0 /\ Cardinality(attempted) > MaxRetryCredentials

Enough == MaxRetryCredentials > 0 /\ Cardinality(attempted) >= MaxRetryCredentials

\* pickNextMixed gives an auth that was not tried and is not cooling down.
PickAuth ==
    /\ step = "pick" /\ ~Enough
    /\ \E a \in Auths \ tried :
        /\ cooling[a] = 0
        /\ tried' = tried \cup {a}
        /\ IF Models[a] = 0 THEN UNCHANGED <<attempted, step, auth, model>>
           ELSE /\ attempted' = attempted \cup {a}
                /\ auth' = a /\ model' = Models[a] /\ step' = "prepare"
    /\ UNCHANGED <<cooling, round, lastErr, waitLeft, spent, runs, wrong, waited>>

\* Or there is none: the last error, or the one of the pick, a 429 if the auths
\* cool down, else that no auth is available or that its provider is not known.
PickFails ==
    /\ step = "pick" /\ step' = "failed"
    /\ Enough \/ \A a \in Auths \ tried : cooling[a] > 0
    /\ IF lastErr # NoError THEN UNCHANGED lastErr
       ELSE lastErr' \in IF Enough THEN {Unavailable} ELSE {Other, Unavailable, TooMany(0)}
    /\ UNCHANGED <<cooling, round, tried, attempted, auth, model, waitLeft, spent, runs, wrong,
                   waited>>

\* Mutant: an auth that cannot be prepared is offered again.
PrepareForgets == tried' = tried \ {auth}

PrepareKeeps == UNCHANGED tried

\* prepareRequestAuth: a failure is a result of the auth.
Prepare ==
    /\ step = "prepare"
    /\ \/ step' = "execute" /\ UNCHANGED <<tried, lastErr, auth, model>>
       \/ \E e \in UpstreamErrors :
            lastErr' = e /\ step' = "pick" /\ auth' = Nobody /\ model' = 0 /\ PrepareKeeps
    /\ UNCHANGED <<cooling, round, attempted, waitLeft, spent, runs, wrong, waited>>

Ran == runs' = [runs EXCEPT ![auth] = @ + 1]

Answer ==
    /\ step = "execute" /\ step' = "answered"
    /\ Ran
    /\ UNCHANGED <<cooling, round, tried, attempted, lastErr, auth, model, waitLeft, spent, wrong,
                   waited>>

EndsIt(e) == e = Invalid

\* An execution fails, and the auth cools down for a while, or not.
Fail ==
    /\ step = "execute"
    /\ \E e \in UpstreamErrors, n \in 0..MaxCooldown :
        /\ lastErr' = e /\ wrong' = (wrong \/ e = Invalid)
        /\ cooling' = [cooling EXCEPT ![auth] = n]
        /\ IF ~EndsIt(e) /\ model > 1
           THEN model' = model - 1 /\ UNCHANGED <<auth, step>>
           ELSE model' = 0 /\ auth' = Nobody /\ step' = IF EndsIt(e) THEN "failed" ELSE "pick"
    /\ Ran
    /\ UNCHANGED <<round, tried, attempted, waitLeft, spent, waited>>

\* The client is gone: nothing is marked, and no other auth is asked.
Cancelled ==
    /\ step \in {"execute", "wait"} /\ step' = "cancelled"
    /\ IF step = "execute" THEN Ran ELSE UNCHANGED runs
    /\ UNCHANGED <<cooling, round, tried, attempted, lastErr, auth, model, waitLeft, spent, wrong,
                   waited>>

-----------------------------------------------------------------------------
(* Between rounds: shouldRetryAfterError and waitForCooldown.              *)

MayGoOn(a) == round < Retries[a]

\* closestCooldownWait: the cooldowns of the auths that may be retried.
Waits == {cooling[a] : a \in {b \in Auths : MayGoOn(b) /\ cooling[b] > 0}}

\* What the provider said, if that is not too long and some auth may be retried.
Told ==
    IF /\ lastErr.kind = "429" /\ (\E a \in Auths : MayGoOn(a))
       /\ lastErr.after > 0 /\ lastErr.after <= MaxRetryInterval
    THEN {lastErr.after} ELSE {}

\* How long to wait, if at all.
RetryWaits ==
    IF MaxRetryInterval = 0 \/ lastErr = Invalid THEN {}
    ELSE IF Waits # {} THEN {Min(Waits)} \cap 0..MaxRetryInterval
    ELSE Told

Retry ==
    /\ step = "failed" /\ \E n \in RetryWaits : waitLeft' = n
    /\ step' = "wait"
    /\ UNCHANGED <<cooling, round, tried, attempted, lastErr, auth, model, spent, runs, wrong,
                   waited>>

Refuse ==
    /\ step = "failed" /\ RetryWaits = {} /\ step' = "refused"
    /\ UNCHANGED <<cooling, round, tried, attempted, lastErr, auth, model, waitLeft, spent, runs,
                   wrong, waited>>

NextRound ==
    /\ step = "wait" /\ waitLeft = 0
    /\ step' = "pick" /\ round' = round + 1
    /\ tried' = {} /\ attempted' = {} /\ lastErr' = NoError
    /\ runs' = NoRuns
    /\ UNCHANGED <<cooling, auth, model, waitLeft, spent, wrong, waited>>

-----------------------------------------------------------------------------
(* The antigravity credits (tryAntigravityCreditsExecute, ...Stream), when *)
(* no other round follows.                                                 *)

\* shouldAttemptAntigravityCreditsFallback, as far as the error decides it.
MayUseCredits == Antigravity # {} /\ lastErr.kind \in {"429", "unavailable"}

FallBack ==
    /\ step = "failed" /\ RetryWaits = {} /\ MayUseCredits
    /\ step' = "credits" /\ runs' = NoRuns
    /\ UNCHANGED <<cooling, round, tried, attempted, lastErr, auth, model, waitLeft, spent, wrong,
                   waited>>

\* Mutant: the auths are picked again as long as there is one.
SpendForgets(a) == UNCHANGED spent

SpendKeeps(a) == spent' = spent \cup {a}

\* The next of the candidates, wherever it stands: it may be cooling down and may have
\* been tried.  It is passed over when it cannot be prepared or has no such model.
Spend ==
    /\ step = "credits"
    /\ \E a \in Antigravity \ spent :
        /\ SpendKeeps(a)
        /\ \/ UNCHANGED <<step, auth, model>>
           \/ Models[a] > 0 /\ step' = "spend" /\ auth' = a /\ model' = Models[a]
    /\ UNCHANGED <<cooling, round, tried, attempted, lastErr, waitLeft, runs, wrong, waited>>

CreditsAnswer ==
    /\ step = "spend" /\ step' = "answered"
    /\ Ran
    /\ UNCHANGED <<cooling, round, tried, attempted, lastErr, auth, model, waitLeft, spent, wrong,
                   waited>>

\* The next model, or the next candidate; no error ends it, but when the request is
\* wrong a stream asks no other model of the auth.
CreditsFail ==
    /\ step = "spend"
    /\ \E n \in 0..MaxCooldown : cooling' = [cooling EXCEPT ![auth] = n]
    /\ \/ model > 1 /\ model' = model - 1 /\ UNCHANGED <<auth, step>>
       \/ model' = 0 /\ auth' = Nobody /\ step' = "credits"
    /\ Ran
    /\ UNCHANGED <<round, tried, attempted, lastErr, waitLeft, spent, wrong, waited>>

\* No candidate is left: those who are out of credits are none.  Or the client is gone,
\* or what is known of the credits cannot be read.
CreditsEnd ==
    /\ step = "credits" /\ step' = "refused"
    /\ UNCHANGED <<cooling, round, tried, attempted, lastErr, auth, model, waitLeft, spent, runs,
                   wrong, waited>>

Credits == FallBack \/ Spend \/ CreditsAnswer \/ CreditsFail \/ CreditsEnd

-----------------------------------------------------------------------------
(* Time, and other requests.                                               *)

Less(n) == IF n > 0 THEN n - 1 ELSE 0

Pass ==
    /\ step \notin {"answered", "refused", "cancelled"}
    /\ waitLeft > 0 \/ \E a \in Auths : cooling[a] > 0
    /\ cooling' = [a \in Auths |-> Less(cooling[a])]
    /\ IF step = "wait" /\ waitLeft > 0 THEN waitLeft' = waitLeft - 1 /\ waited' = waited + 1
       ELSE UNCHANGED <<waitLeft, waited>>
    /\ UNCHANGED <<round, tried, attempted, lastErr, step, auth, model, spent, runs, wrong>>

\* What others do to an auth, as long as the request is under way.
Disturb(a) ==
    /\ step \notin {"answered", "refused", "cancelled"}
    /\ \E n \in 0..MaxCooldown \ {cooling[a]} : cooling' = [cooling EXCEPT ![a] = n]
    /\ UNCHANGED <<round, tried, attempted, lastErr, step, auth, model, waitLeft, spent, runs, wrong,
                   waited>>

Request ==
    \/ PickAuth \/ PickFails \/ Prepare \/ Answer \/ Fail \/ Retry \/ Refuse \/ NextRound
    \/ Credits

RetryNext == Begin \/ Request \/ Cancelled \/ Pass \/ \E a \in Auths : Disturb(a)

\* The request's goroutine goes on, and its timer runs down.
RetrySpec == RetryInit /\ [][RetryNext]_retryVars
             /\ WF_retryVars(Request) /\ WF_retryVars(Pass /\ step = "wait")

-----------------------------------------------------------------------------
(* Properties.                                                             *)

MostRetries == Max({Retries[a] : a \in Auths} \cup {0})

\* The credits are being used, or were at the end.
WithCredits == spent # {}

\* Whatever other requests do to the auths meanwhile, a request asks each auth at
\* most once for each of its models in a round, no more auths than configured and
\* none once an upstream said in a round that the request itself is wrong.  It goes
\* through no more rounds than the most patient auth allows, and never waits longer,
\* in all, than the longest wait for each of them.  That is not all it may cost: when
\* the last round is over it may ask the auths of antigravity with credits, however
\* many they are, those tried before included and whatever they answer, but no other
\* auth, and each once more for each of its models.
EffortIsBounded ==
    /\ \A a \in Auths : runs[a] <= Models[a]
    /\ ~WithCredits /\ MaxRetryCredentials > 0 =>
            Cardinality({a \in Auths : runs[a] > 0}) <= MaxRetryCredentials
    /\ WithCredits => \A a \in Auths : runs[a] > 0 => a \in Antigravity
    /\ wrong => step \in {"failed", "refused"}
    /\ round <= MostRetries
    /\ waited + waitLeft <= MaxRetryInterval * MostRetries

\* What is left of a request: the later steps of a round count less, and a request is
\* nearer its end in a later round, with more auths tried or asked with credits, in a
\* later step, or with fewer models left of the auth that is asked.
StepsLeft(s) ==
    CASE s = "idle" -> 8 [] s = "prepare" -> 7 [] s = "execute" -> 6 [] s = "pick" -> 5
      [] s = "failed" -> 4 [] s = "spend" -> 3 [] s = "credits" -> 2 [] s = "wait" -> 1
      [] OTHER -> 0

Nearer ==
    \/ round < round'
    \/ round' = round /\ tried \subseteq tried' /\ tried' # tried
    \/ UNCHANGED <<round, tried>> /\ spent \subseteq spent' /\ spent' # spent
    \/ UNCHANGED <<round, tried, spent>> /\ StepsLeft(step') < StepsLeft(step)
    \/ UNCHANGED <<round, tried, spent, step>> /\ model' < model

\* Each step of the request brings it nearer its end, which round <= MostRetries and
\* the finite sets put a bound to, and no step of others moves it back: no auth is
\* offered twice in a round, and nothing of a round is left but in a later one.
NeverGoesBack ==
    [][Nearer \/ (~Request /\ UNCHANGED <<round, tried, spent, step, model>>)]_retryVars

\* The request never goes back, and it ends, whoever keeps disturbing the auths.
RequestEnds ==
    NeverGoesBack /\ <>[](step \in {"idle", "answered", "refused", "cancelled"})

-----------------------------------------------------------------------------
(* The inductive invariant.                                                *)

\* Who was asked in this round, or with credits.
Asked == IF step = "credits" \/ WithCredits THEN spent ELSE attempted

\* While an auth is asked, its runs and the models that are left are its models.
RunsInv ==
    /\ attempted \subseteq tried
    /\ WithCredits => step \in {"credits", "spend", "answered", "refused"}
    /\ step = "spend" => WithCredits
    /\ \A a \in Auths : runs[a] <= Models[a] /\ (runs[a] > 0 => a \in Asked)
    /\ MaxRetryCredentials > 0 => Cardinality(attempted) <= MaxRetryCredentials
    /\ step \in {"prepare", "execute", "spend"} =>
           auth \in Asked /\ model > 0 /\ runs[auth] + model <= Models[auth]

\* A request that is wrong ends with the error that said so.
WrongInv == wrong => lastErr = Invalid /\ step \in {"failed", "refused"}

\* Each round but the first was waited for, which an auth had to allow.
WaitsInv ==
    /\ IF step = "wait"
       THEN round < MostRetries /\ waited + waitLeft <= MaxRetryInterval * (round + 1)
       ELSE /\ round <= MostRetries
            /\ step # "cancelled" => waitLeft = 0 /\ waited <= MaxRetryInterval * round
    /\ waited + waitLeft <= MaxRetryInterval * MostRetries

RetryInv == RetryTypeOK /\ RunsInv /\ WrongInv /\ WaitsInv
=============================================================================
