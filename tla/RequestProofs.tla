---------------------------- MODULE RequestProofs ----------------------------
(***************************************************************************)
(* Proofs about RequestRetry, for any auths, retries, models and waits;    *)
(* about StreamRelay, for any number of streams and payloads; about        *)
(* AuthUpdates, and that it implements UpdateFeed, for any files,          *)
(* providers, logins and size of the service's channel; about              *)
(* UsageRecords, for any number of records, readers and places in their    *)
(* channels; and, as far as they promise safety, about RequestCounts and   *)
(* ReadyView, for any number of results and any auths.                     *)
(***************************************************************************)
EXTENDS RequestRetry, StreamRelay, AuthUpdates, UsageRecords, RequestCounts, ReadyView,
        FiniteSetTheorems, SequenceTheorems, WellFoundedInduction, TLAPS

-----------------------------------------------------------------------------
(* The most retries.                                                       *)

\* A set of numbers that is not empty has a least one.
LEMMA LeastNumber ==
    ASSUME NEW T \in SUBSET Nat, T # {} PROVE \E x \in T : \A y \in T : x <= y
<1>1. PICK x \in T : \A y \in T : ~(<<y, x>> \in OpToRel(<, Nat))
  BY NatLessThanWellFounded, WFMin
<1>2. \A y \in T : ~(y < x)
  BY <1>1 DEF OpToRel
<1>. QED
  BY <1>2

\* A finite one has a greatest: else take the smallest subset without one.
LEMMA GreatestNumber ==
    ASSUME NEW S \in SUBSET Nat, IsFiniteSet(S), S # {} PROVE \E x \in S : \A y \in S : x >= y
<1> DEFINE Topless(T) == T # {} /\ \A x \in T : \E y \in T : x < y
           Bad == {T \in SUBSET S : Topless(T)}
           Sizes == {Cardinality(T) : T \in Bad}
<1>. SUFFICES ASSUME Topless(S) PROVE FALSE
  OBVIOUS
<1>1. Sizes \in SUBSET Nat /\ Sizes # {}
  <2>1. \A T \in Bad : Cardinality(T) \in Nat
    BY FS_Subset, FS_CardinalityType
  <2>2. S \in Bad
    OBVIOUS
  <2>. HIDE DEF Bad
  <2>. QED
    BY <2>1, <2>2
<1>2. PICK n \in Sizes : \A m \in Sizes : n <= m
  BY <1>1, LeastNumber
<1>3. PICK T \in SUBSET S : Topless(T) /\ n = Cardinality(T)
  BY <1>2
<1>4. PICK x \in T : TRUE
  BY <1>3
<1>5. /\ IsFiniteSet(T) /\ IsFiniteSet(T \ {x}) /\ Cardinality(T \ {x}) = Cardinality(T) - 1
      /\ Cardinality(T) \in Nat
  BY <1>3, <1>4, FS_Subset, FS_RemoveElement, FS_CardinalityType
<1>6. Topless(T \ {x})
  <2>1. PICK y \in T : x < y
    BY <1>3, <1>4
  <2>2. y \in T \ {x}
    BY <2>1, <1>3
  <2>3. ASSUME NEW z \in T \ {x} PROVE \E w \in T \ {x} : z < w
    <3>1. PICK w \in T : z < w
      BY <1>3, <2>3
    <3>2. CASE w = x
      <4>1. z < y
        BY <1>3, <1>4, <2>1, <2>3, <3>1, <3>2
      <4>. QED
        BY <2>2, <4>1
    <3>. QED
      BY <3>1, <3>2
  <2>. QED
    BY <2>2, <2>3
<1>7. Cardinality(T \ {x}) \in Sizes
  <2>1. T \ {x} \in Bad
    BY <1>3, <1>6
  <2>. HIDE DEF Bad
  <2>. QED
    BY <2>1
<1>. QED
  <2>1. n <= Cardinality(T \ {x})
    BY <1>2, <1>7
  <2>. QED
    BY <1>3, <1>5, <2>1

LEMMA MostRetriesFacts ==
    /\ MostRetries \in Nat /\ \A a \in Auths : Retries[a] <= MostRetries
<1> DEFINE R == {Retries[a] : a \in Auths} \cup {0}
<1>1. R \in SUBSET Nat /\ R # {} /\ IsFiniteSet(R)
  <2> DEFINE Image == {Retries[a] : a \in Auths}
  <2>1. Retries \in Surjection(Auths, Image)
    BY RetryAssumption DEF Surjection
  <2>2. IsFiniteSet(Image)
    BY <2>1, RetryAssumption, FS_Surjection
  <2>3. IsFiniteSet(Image \cup {0})
    BY <2>2, FS_AddElement
  <2>4. Retries \in [Auths -> Nat]
    BY RetryAssumption
  <2>. QED
    BY <2>3, <2>4
<1>2. \E x \in R : \A y \in R : x >= y
  BY <1>1, GreatestNumber
<1>3. MostRetries \in R /\ \A y \in R : MostRetries >= y
  BY <1>2 DEF MostRetries, Max
<1>. QED
  BY <1>1, <1>3

-----------------------------------------------------------------------------
(* RequestRetry: types.                                                    *)

LEMMA RetryTypeStep ==
    ASSUME RetryTypeOK, [RetryNext]_retryVars PROVE RetryTypeOK'
<1>0. /\ cooling \in [Auths -> 0..MaxCooldown] /\ round \in Nat
      /\ attempted \subseteq Auths /\ tried \subseteq Auths
      /\ lastErr \in UpstreamErrors \cup {NoError}
      /\ step \in {"idle", "pick", "prepare", "execute", "failed", "wait", "credits",
                   "spend", "answered", "refused", "cancelled"}
      /\ spent \subseteq Antigravity
      /\ auth \in Auths \cup {Nobody} /\ model \in Nat
      /\ waitLeft \in Nat
      /\ runs \in [Auths -> Nat] /\ wrong \in BOOLEAN /\ waited \in Nat
  BY DEF RetryTypeOK
<1>a. /\ MaxCooldown \in Nat /\ MaxRetryInterval \in Nat /\ Models \in [Auths -> Nat]
      /\ Retries \in [Auths -> Nat] /\ 0 \in 0..MaxCooldown
      /\ Other \in UpstreamErrors /\ Unavailable \in UpstreamErrors /\ Antigravity \subseteq Auths
      /\ TooMany(0) \in UpstreamErrors /\ Nobody \in Auths \cup {Nobody}
  BY RetryAssumption DEF UpstreamErrors
<1>1. CASE Begin
  BY <1>0, <1>1 DEF Begin, RetryTypeOK
<1>2. CASE PickAuth
  BY <1>0, <1>a, <1>2 DEF PickAuth, RetryTypeOK
<1>3. CASE PickFails
  <2>1. lastErr' \in UpstreamErrors \cup {NoError}
    BY <1>0, <1>a, <1>3 DEF PickFails
  <2>. QED
    BY <1>0, <1>3, <2>1 DEF PickFails, RetryTypeOK
<1>4. CASE Prepare
  BY <1>0, <1>a, <1>4 DEF Prepare, PrepareKeeps, RetryTypeOK
<1>5. ASSUME Ran PROVE runs' \in [Auths -> Nat]
  <2>1. CASE auth \in Auths
    BY <1>0, <1>5, <2>1 DEF Ran
  <2>2. CASE auth \notin Auths
    <3>1. runs' = runs
      BY <1>0, <1>5, <2>2 DEF Ran
    <3>. QED
      BY <1>0, <3>1
  <2>. QED
    BY <2>1, <2>2
<1>6. CASE Answer
  BY <1>0, <1>5, <1>6 DEF Answer, RetryTypeOK
<1>7. CASE Fail
  <2>1. PICK e \in UpstreamErrors, n \in 0..MaxCooldown :
          /\ lastErr' = e /\ wrong' = (wrong \/ e = Invalid)
          /\ cooling' = [cooling EXCEPT ![auth] = n]
          /\ IF ~EndsIt(e) /\ model > 1
             THEN model' = model - 1 /\ UNCHANGED <<auth, step>>
             ELSE model' = 0 /\ auth' = Nobody /\ step' = IF EndsIt(e) THEN "failed" ELSE "pick"
    BY <1>7 DEF Fail
  <2>2. model' \in Nat /\ auth' \in Auths \cup {Nobody}
        /\ step' \in {"execute", "failed", "pick"}
    BY <1>0, <1>7, <2>1 DEF Fail
  <2>3. cooling' \in [Auths -> 0..MaxCooldown]
    BY <1>0, <2>1
  <2>4. /\ runs' \in [Auths -> Nat]
        /\ UNCHANGED <<round, tried, attempted, waitLeft, spent, waited>>
    BY <1>5, <1>7 DEF Fail
  <2>5. lastErr' \in UpstreamErrors \cup {NoError} /\ wrong' \in BOOLEAN
    BY <1>0, <2>1
  <2>. QED
    BY <1>0, <2>2, <2>3, <2>4, <2>5 DEF RetryTypeOK
<1>8. CASE Cancelled
  BY <1>0, <1>5, <1>8 DEF Cancelled, RetryTypeOK
<1>9. CASE Retry
  <2>1. RetryWaits \subseteq Nat
    <3>1. Told \subseteq Nat
      <4>1. lastErr.kind = "429" => lastErr.after \in Nat
        <5>1. ASSUME NEW n \in 0..MaxCooldown, lastErr = TooMany(n) PROVE lastErr.after \in Nat
          BY <5>1 DEF TooMany
        <5>2. lastErr \in {NoError, Invalid, Other, Unavailable} => lastErr.kind # "429"
          BY DEF NoError, Invalid, Other, Unavailable
        <5>. QED
          BY <1>0, <5>1, <5>2 DEF UpstreamErrors
      <4>. QED
        BY <4>1 DEF Told
    <3>2. {Min(Waits)} \cap 0..MaxRetryInterval \subseteq Nat
      BY <1>a
    <3>. QED
      BY <3>1, <3>2 DEF RetryWaits
  <2>. QED
    BY <1>0, <1>9, <2>1 DEF Retry, RetryTypeOK
<1>10. CASE Refuse
  BY <1>0, <1>10 DEF Refuse, RetryTypeOK
<1>11. CASE NextRound
  BY <1>0, <1>11 DEF NextRound, NoRuns, RetryTypeOK
<1>12. CASE Pass
  <2>1. cooling' \in [Auths -> 0..MaxCooldown]
    BY <1>0, <1>a, <1>12 DEF Pass, Less
  <2>2. waitLeft' \in Nat /\ waited' \in Nat
    BY <1>0, <1>12 DEF Pass
  <2>. QED
    BY <1>0, <1>12, <2>1, <2>2 DEF Pass, RetryTypeOK
<1>13. CASE \E a \in Auths : Disturb(a)
  <2>1. cooling' \in [Auths -> 0..MaxCooldown]
    BY <1>0, <1>13 DEF Disturb
  <2>. QED
    BY <1>0, <1>13, <2>1 DEF Disturb, RetryTypeOK
<1>14. CASE UNCHANGED retryVars
  BY <1>0, <1>14 DEF retryVars, RetryTypeOK
<1>15. CASE FallBack \/ CreditsEnd
  BY <1>0, <1>15 DEF FallBack, CreditsEnd, NoRuns, RetryTypeOK
<1>16. CASE Spend
  <2>1. PICK a \in Antigravity \ spent :
          /\ SpendKeeps(a)
          /\ \/ UNCHANGED <<step, auth, model>>
             \/ Models[a] > 0 /\ step' = "spend" /\ auth' = a /\ model' = Models[a]
    BY <1>16 DEF Spend
  <2>2. spent' \subseteq Antigravity /\ auth' \in Auths \cup {Nobody} /\ model' \in Nat
    BY <1>0, <1>a, <2>1 DEF SpendKeeps
  <2>3. step' \in {step, "spend"}
    BY <2>1
  <2>. QED
    BY <1>0, <1>16, <2>2, <2>3 DEF Spend, RetryTypeOK
<1>17. CASE CreditsAnswer
  BY <1>0, <1>5, <1>17 DEF CreditsAnswer, RetryTypeOK
<1>18. CASE CreditsFail
  <2>1. cooling' \in [Auths -> 0..MaxCooldown]
    BY <1>0, <1>18 DEF CreditsFail
  <2>2. model' \in Nat /\ auth' \in Auths \cup {Nobody} /\ step' \in {step, "credits"}
    BY <1>0, <1>18 DEF CreditsFail
  <2>3. /\ runs' \in [Auths -> Nat]
        /\ UNCHANGED <<round, tried, attempted, lastErr, waitLeft, spent, wrong, waited>>
    BY <1>5, <1>18 DEF CreditsFail
  <2>. QED
    BY <1>0, <2>1, <2>2, <2>3 DEF RetryTypeOK
<1>. QED
  BY <1>1, <1>2, <1>3, <1>4, <1>6, <1>7, <1>8, <1>9, <1>10, <1>11, <1>12, <1>13, <1>14,
     <1>15, <1>16, <1>17, <1>18 DEF RetryNext, Request, Credits

\* Every step keeps the runs within the models.
LEMMA RunsStep == ASSUME RetryTypeOK, RunsInv, [RetryNext]_retryVars PROVE RunsInv'
<1>0. /\ attempted \subseteq tried /\ attempted \subseteq Auths /\ tried \subseteq Auths
      /\ WithCredits => step \in {"credits", "spend", "answered", "refused"}
      /\ step = "spend" => WithCredits
      /\ \A a \in Auths : runs[a] <= Models[a] /\ (runs[a] > 0 => a \in Asked)
      /\ MaxRetryCredentials > 0 => Cardinality(attempted) <= MaxRetryCredentials
      /\ step \in {"prepare", "execute", "spend"} =>
             auth \in Asked /\ model > 0 /\ runs[auth] + model <= Models[auth]
      /\ model \in Nat /\ runs \in [Auths -> Nat] /\ spent \subseteq Antigravity
  BY DEF RunsInv, RetryTypeOK
<1>a. /\ Models \in [Auths -> Nat] /\ IsFiniteSet(Auths) /\ MaxRetryCredentials \in Nat
      /\ Nobody \notin Auths /\ Antigravity \subseteq Auths
  BY RetryAssumption
<1>b. /\ ~WithCredits /\ step # "credits" => Asked = attempted
      /\ WithCredits \/ step = "credits" => Asked = spent
      /\ ~WithCredits' /\ step' # "credits" => Asked' = attempted'
      /\ WithCredits' \/ step' = "credits" => Asked' = spent'
      /\ spent' = spent => WithCredits' = WithCredits
  BY DEF Asked, WithCredits
<1>1. ASSUME UNCHANGED <<tried, attempted, spent, runs, auth, model>>,
             \/ step' = step
             \/ /\ step \in {"idle", "pick", "failed", "wait"}
                /\ step' \in {"pick", "failed", "wait", "refused", "cancelled"}
      PROVE  RunsInv'
  <2>1. Asked' = Asked /\ WithCredits' = WithCredits
    BY <1>0, <1>1, <1>b
  <2>. QED
    BY <1>0, <1>1, <2>1 DEF RunsInv
<1>2. CASE PickAuth
  <2>1. PICK a \in Auths \ tried :
          /\ tried' = tried \cup {a}
          /\ IF Models[a] = 0 THEN UNCHANGED <<attempted, step, auth, model>>
             ELSE /\ attempted' = attempted \cup {a}
                  /\ auth' = a /\ model' = Models[a] /\ step' = "prepare"
    BY <1>2 DEF PickAuth
  <2>2. runs' = runs /\ spent' = spent /\ ~Enough /\ step = "pick"
    BY <1>2 DEF PickAuth
  <2>3. ~WithCredits /\ ~WithCredits' /\ Asked = attempted /\ Asked' = attempted'
    BY <1>0, <1>b, <2>1, <2>2
  <2>4. CASE Models[a] = 0
    BY <1>0, <2>1, <2>2, <2>3, <2>4 DEF RunsInv
  <2>5. CASE Models[a] # 0
    <3>1. runs[a] = 0 /\ Models[a] > 0
      BY <1>0, <1>a, <2>1, <2>3, <2>5
    <3>2. IsFiniteSet(attempted) /\ Cardinality(attempted) \in Nat
      BY <1>0, <1>a, FS_Subset, FS_CardinalityType
    <3>3. MaxRetryCredentials > 0 => Cardinality(attempted \cup {a}) <= MaxRetryCredentials
      <4>1. Cardinality(attempted \cup {a}) = Cardinality(attempted) + 1
        BY <1>0, <2>1, <3>2, FS_AddElement
      <4>. QED
        BY <1>a, <2>2, <3>2, <4>1 DEF Enough
    <3>4. attempted' = attempted \cup {a} /\ tried' = tried \cup {a} /\ auth' = a
          /\ model' = Models[a] /\ step' = "prepare"
      BY <2>1, <2>5
    <3>5. \A b \in Auths : runs[b] <= Models[b] /\ (runs[b] > 0 => b \in attempted \cup {a})
      BY <1>0, <2>3
    <3>6. runs[a] + Models[a] <= Models[a]
      BY <1>a, <3>1
    <3>. QED
      BY <1>0, <2>2, <2>3, <3>1, <3>3, <3>4, <3>5, <3>6 DEF RunsInv
  <2>. QED
    BY <2>4, <2>5
<1>3. CASE Prepare
  <2>1. /\ step = "prepare" /\ step' \in {"execute", "pick"}
        /\ UNCHANGED <<tried, attempted, runs, spent>>
        /\ step' = "execute" => UNCHANGED <<auth, model>>
    BY <1>3 DEF Prepare, PrepareKeeps
  <2>2. ~WithCredits' /\ Asked' = Asked
    BY <1>0, <1>b, <2>1
  <2>. QED
    BY <1>0, <2>1, <2>2 DEF RunsInv
<1>4. ASSUME Ran, UNCHANGED <<tried, attempted, spent>>,
             \/ step = "execute" /\ step' \in {"execute", "failed", "pick", "answered", "cancelled"}
             \/ step = "spend" /\ step' \in {"spend", "credits", "answered"},
             step' \in {"execute", "spend"} => auth' = auth /\ model' = model - 1 /\ model' > 0
      PROVE  RunsInv'
  <2>1. auth \in Asked /\ auth \in Auths /\ model > 0 /\ runs[auth] + model <= Models[auth]
    BY <1>0, <1>4, <1>a, <1>b
  <2>2. /\ runs'[auth] = runs[auth] + 1 /\ \A a \in Auths \ {auth} : runs'[a] = runs[a]
        /\ runs' \in [Auths -> Nat]
    BY <1>0, <1>4, <2>1 DEF Ran
  <2>3. runs'[auth] <= Models[auth]
    BY <1>0, <1>a, <2>1, <2>2
  <2>4. model - 1 > 0 => runs'[auth] + (model - 1) <= Models[auth]
    BY <1>0, <1>a, <2>1, <2>2
  <2>5. \A a \in Auths : runs'[a] <= Models[a] /\ (runs'[a] > 0 => a \in Asked)
    BY <1>0, <2>1, <2>2, <2>3
  <2>6. WithCredits' = WithCredits /\ Asked' = Asked
    BY <1>0, <1>4, <1>b
  <2>7. WithCredits' => step' \in {"credits", "spend", "answered", "refused"}
    BY <1>0, <1>4, <2>6
  <2>8. step' = "spend" => WithCredits'
    BY <1>0, <1>4, <2>6
  <2>9. step' \in {"prepare", "execute", "spend"} =>
             auth' \in Asked' /\ model' > 0 /\ runs'[auth'] + model' <= Models[auth']
    BY <1>4, <2>1, <2>4, <2>6
  <2>. QED
    BY <1>0, <1>4, <2>5, <2>6, <2>7, <2>8, <2>9 DEF RunsInv
<1>5. CASE Answer \/ CreditsAnswer
  BY <1>4, <1>5 DEF Answer, CreditsAnswer
<1>6. CASE Fail
  <2>1. PICK e \in UpstreamErrors :
            IF ~EndsIt(e) /\ model > 1
            THEN model' = model - 1 /\ UNCHANGED <<auth, step>>
            ELSE model' = 0 /\ auth' = Nobody /\ step' = IF EndsIt(e) THEN "failed" ELSE "pick"
    BY <1>6 DEF Fail
  <2>2. step = "execute" /\ Ran /\ UNCHANGED <<tried, attempted, spent>>
    BY <1>6 DEF Fail
  <2>3. /\ step' \in {"execute", "failed", "pick"}
        /\ step' = "execute" => auth' = auth /\ model' = model - 1 /\ model' > 0
    BY <1>0, <2>1, <2>2
  <2>. QED
    BY <1>4, <2>2, <2>3
<1>7. CASE CreditsFail
  <2>1. step = "spend" /\ Ran /\ UNCHANGED <<tried, attempted, spent>>
    BY <1>7 DEF CreditsFail
  <2>2. /\ step' \in {"spend", "credits"}
        /\ step' = "spend" => auth' = auth /\ model' = model - 1 /\ model' > 0
    BY <1>0, <1>7, <2>1 DEF CreditsFail
  <2>. QED
    BY <1>4, <2>1, <2>2
<1>8. CASE Cancelled
  BY <1>1, <1>4, <1>8 DEF Cancelled
<1>9. CASE NextRound
  <2>1. /\ attempted' = {} /\ tried' = {} /\ step' = "pick" /\ runs' = [a \in Auths |-> 0]
        /\ step = "wait" /\ spent' = spent
    BY <1>9 DEF NextRound, NoRuns
  <2>2. Cardinality({}) = 0 /\ ~WithCredits'
    BY <1>0, <1>b, <2>1, FS_EmptySet
  <2>. QED
    BY <1>a, <2>1, <2>2 DEF RunsInv
<1>10. CASE FallBack
  <2>1. /\ step = "failed" /\ step' = "credits" /\ runs' = [a \in Auths |-> 0]
        /\ UNCHANGED <<tried, attempted, spent>>
    BY <1>10 DEF FallBack, NoRuns
  <2>. QED
    BY <1>0, <1>a, <2>1 DEF RunsInv
<1>11. CASE Spend
  <2>1. PICK a \in Antigravity \ spent :
          /\ spent' = spent \cup {a}
          /\ \/ UNCHANGED <<step, auth, model>>
             \/ Models[a] > 0 /\ step' = "spend" /\ auth' = a /\ model' = Models[a]
    BY <1>11 DEF Spend, SpendKeeps
  <2>2. step = "credits" /\ UNCHANGED <<tried, attempted, runs>>
    BY <1>11 DEF Spend
  <2>3. WithCredits' /\ Asked = spent /\ Asked' = spent \cup {a}
    BY <1>b, <2>1, <2>2 DEF WithCredits
  <2>4. a \in Auths /\ runs[a] = 0 /\ Models[a] \in Nat
    BY <1>0, <1>a, <2>1, <2>3
  <2>5. \A b \in Auths : runs'[b] <= Models[b] /\ (runs'[b] > 0 => b \in Asked')
    BY <1>0, <2>2, <2>3
  <2>6. step' \in {"credits", "spend"}
        /\ (step' = "spend" => auth' = a /\ model' = Models[a] /\ model' > 0)
    BY <2>1, <2>2
  <2>7. step' \in {"prepare", "execute", "spend"} =>
             auth' \in Asked' /\ model' > 0 /\ runs'[auth'] + model' <= Models[auth']
    BY <2>2, <2>3, <2>4, <2>6
  <2>. QED
    BY <1>0, <2>2, <2>3, <2>5, <2>6, <2>7 DEF RunsInv
<1>12. CASE CreditsEnd
  <2>1. step = "credits" /\ step' = "refused"
        /\ UNCHANGED <<tried, attempted, runs, spent, auth, model>>
    BY <1>12 DEF CreditsEnd
  <2>2. \A a \in Auths : runs'[a] > 0 => a \in Asked'
    BY <1>0, <1>b, <2>1 DEF WithCredits
  <2>. QED
    BY <1>0, <1>b, <2>1, <2>2 DEF RunsInv
<1>13. CASE Begin \/ PickFails \/ Retry \/ Refuse \/ Pass \/ (\E a \in Auths : Disturb(a))
           \/ UNCHANGED retryVars
  BY <1>1, <1>13 DEF Begin, PickFails, Retry, Refuse, Pass, Disturb, retryVars
<1>. QED
  BY <1>2, <1>3, <1>5, <1>6, <1>7, <1>8, <1>9, <1>10, <1>11, <1>12, <1>13
     DEF RetryNext, Request, Credits

\* Every step keeps a wrong request from going on.
LEMMA WrongStep == ASSUME RetryTypeOK, WrongInv, [RetryNext]_retryVars PROVE WrongInv'
<1>1. CASE Fail
  <2>1. PICK e \in UpstreamErrors :
          /\ lastErr' = e /\ wrong' = (wrong \/ e = Invalid)
          /\ IF ~EndsIt(e) /\ model > 1
             THEN model' = model - 1 /\ UNCHANGED <<auth, step>>
             ELSE model' = 0 /\ auth' = Nobody /\ step' = IF EndsIt(e) THEN "failed" ELSE "pick"
    BY <1>1 DEF Fail
  <2>2. ~wrong
    BY <1>1 DEF Fail, WrongInv
  <2>. QED
    BY <2>1, <2>2 DEF WrongInv, EndsIt
<1>2. CASE Retry
  <2>1. lastErr # Invalid
    BY <1>2 DEF Retry, RetryWaits
  <2>. QED
    BY <1>2, <2>1 DEF Retry, WrongInv
<1>3. CASE Begin \/ PickAuth \/ PickFails \/ Prepare \/ Answer \/ Cancelled \/ Refuse \/ NextRound
  BY <1>3 DEF Begin, PickAuth, PickFails, Prepare, Answer, Cancelled, Refuse, NextRound, WrongInv
<1>5. CASE Credits
  <2>1. ~wrong /\ ~wrong'
    <3>1. Invalid.kind = "invalid"
      BY DEF Invalid
    <3>. QED
      BY <1>5, <3>1 DEF Credits, FallBack, Spend, CreditsAnswer, CreditsFail, CreditsEnd,
         MayUseCredits, WrongInv
  <2>. QED
    BY <2>1 DEF WrongInv
<1>4. CASE Pass \/ (\E a \in Auths : Disturb(a)) \/ UNCHANGED retryVars
  BY <1>4 DEF Pass, Disturb, retryVars, WrongInv
<1>. QED
  BY <1>1, <1>2, <1>3, <1>4, <1>5 DEF RetryNext, Request

\* Every step keeps what was waited for within the rounds.
LEMMA WaitsStep == ASSUME RetryTypeOK, WaitsInv, [RetryNext]_retryVars PROVE WaitsInv'
<1>0. round \in Nat /\ waitLeft \in Nat /\ waited \in Nat
  BY DEF RetryTypeOK
<1>a. /\ MostRetries \in Nat /\ MaxRetryInterval \in Nat
      /\ \A a \in Auths : Retries[a] <= MostRetries /\ Retries[a] \in Nat
  BY MostRetriesFacts, RetryAssumption
<1>b. ASSUME NEW x \in Nat, NEW y \in Nat, x <= y
      PROVE  MaxRetryInterval * x <= MaxRetryInterval * y /\ MaxRetryInterval * x \in Nat
  BY <1>a, <1>b
<1>c. MaxRetryInterval * (round + 1) = MaxRetryInterval * round + MaxRetryInterval
  BY <1>0, <1>a
<1>1. CASE Retry
  <2>1. PICK n \in RetryWaits : waitLeft' = n /\ step' = "wait" /\ step = "failed"
                                /\ UNCHANGED <<round, waited>>
    BY <1>1 DEF Retry
  <2>2. n <= MaxRetryInterval /\ round < MostRetries /\ n \in Nat
    <3>1. CASE Waits # {}
      <4>1. PICK b \in Auths : MayGoOn(b)
        BY <3>1 DEF Waits
      <4>2. n \in 0..MaxRetryInterval
        BY <2>1, <3>1 DEF RetryWaits
      <4>. QED
        BY <1>0, <1>a, <4>1, <4>2 DEF MayGoOn
    <3>2. CASE Waits = {}
      <4>1. n \in Told
        BY <2>1, <3>2 DEF RetryWaits
      <4>2. (\E a \in Auths : MayGoOn(a)) /\ n <= MaxRetryInterval
        BY <4>1 DEF Told
      <4>3. n \in Nat
        BY <1>1, <2>1, RetryTypeStep DEF RetryTypeOK, RetryNext, Request
      <4>. QED
        BY <1>0, <1>a, <4>2, <4>3 DEF MayGoOn
    <3>. QED
      BY <3>1, <3>2
  <2>3. waited <= MaxRetryInterval * round
    BY <2>1 DEF WaitsInv
  <2>4. waited + n <= MaxRetryInterval * (round + 1)
    BY <1>0, <1>a, <1>b, <1>c, <2>2, <2>3
  <2>5. MaxRetryInterval * (round + 1) <= MaxRetryInterval * MostRetries
        /\ MaxRetryInterval * (round + 1) \in Nat /\ MaxRetryInterval * MostRetries \in Nat
    BY <1>0, <1>a, <1>b, <2>2
  <2>6. waited + n <= MaxRetryInterval * MostRetries
    BY <1>0, <2>2, <2>4, <2>5
  <2>. QED
    BY <2>1, <2>2, <2>4, <2>6 DEF WaitsInv
<1>2. CASE NextRound
  <2>1. /\ round < MostRetries /\ waited <= MaxRetryInterval * (round + 1) /\ waitLeft = 0
        /\ waited + waitLeft <= MaxRetryInterval * MostRetries
        /\ round' = round + 1 /\ step' = "pick" /\ UNCHANGED <<waited, waitLeft>>
    BY <1>0, <1>2 DEF NextRound, WaitsInv
  <2>. QED
    BY <1>0, <1>a, <2>1 DEF WaitsInv
<1>3. CASE Pass
  <2>1. step' = step /\ round' = round /\ waited' + waitLeft' = waited + waitLeft
        /\ (step # "wait" => UNCHANGED <<waitLeft, waited>>)
    BY <1>0, <1>3 DEF Pass
  <2>. QED
    BY <2>1 DEF WaitsInv
<1>4. CASE Cancelled
  <2>1. step' = "cancelled" /\ UNCHANGED <<round, waitLeft, waited>>
    BY <1>4 DEF Cancelled
  <2>. QED
    BY <1>0, <1>a, <2>1 DEF WaitsInv
<1>5. CASE /\ UNCHANGED <<round, waitLeft, waited>>
           /\ \/ step' = step
              \/ step \notin {"wait", "cancelled"} /\ step' # "wait"
  BY <1>5 DEF WaitsInv
<1>6. CASE Fail
  <2>1. step' \in {"execute", "failed", "pick"} /\ step = "execute"
    BY <1>6 DEF Fail
  <2>. QED
    BY <1>5, <1>6, <2>1 DEF Fail
<1>7. CASE Begin \/ PickAuth \/ PickFails \/ Prepare \/ Answer \/ Refuse
  BY <1>5, <1>7 DEF Begin, PickAuth, PickFails, Prepare, Answer, Refuse
<1>8. CASE (\E a \in Auths : Disturb(a)) \/ UNCHANGED retryVars
  <2>1. UNCHANGED <<round, waitLeft, waited, step>>
    BY <1>8 DEF Disturb, retryVars
  <2>. QED
    BY <2>1 DEF WaitsInv
<1>9. CASE Credits
  <2>1. step \in {"failed", "credits", "spend"} /\ UNCHANGED <<round, waitLeft, waited>>
    BY <1>9 DEF Credits, FallBack, Spend, CreditsAnswer, CreditsFail, CreditsEnd
  <2>2. step' \in {"credits", "spend", "answered", "refused"}
    BY <1>9 DEF Credits, FallBack, Spend, CreditsAnswer, CreditsFail, CreditsEnd
  <2>. QED
    BY <1>5, <2>1, <2>2
<1>. QED
  BY <1>1, <1>2, <1>3, <1>4, <1>6, <1>7, <1>8, <1>9 DEF RetryNext, Request

-----------------------------------------------------------------------------
(* RequestRetry: the theorems.                                             *)

\* In every state of RequestRetry an auth's runs and models left are its models, a
\* wrong request is at its end, and what was waited for was allowed.
THEOREM RetryInvariance == RetrySpec => []RetryInv
<1>1. RetryInit => RetryInv
  <2>. SUFFICES ASSUME RetryInit PROVE RetryInv
    OBVIOUS
  <2>1. RetryTypeOK
    <3>1. /\ [a \in Auths |-> 0] \in [Auths -> 0..MaxCooldown]
          /\ [a \in Auths |-> 0] \in [Auths -> Nat]
      BY RetryAssumption
    <3>. QED
      BY <3>1 DEF RetryInit, RetryTypeOK, NoRuns
  <2>2. RunsInv
    <3>1. Cardinality({}) = 0
      BY FS_EmptySet
    <3>. QED
      BY <3>1, RetryAssumption DEF RetryInit, RunsInv, WithCredits, NoRuns
  <2>3. WaitsInv
    <3>1. 0 <= MaxRetryInterval * MostRetries /\ 0 <= MaxRetryInterval * 0
      BY MostRetriesFacts, RetryAssumption
    <3>. QED
      BY <3>1, MostRetriesFacts DEF RetryInit, WaitsInv
  <2>. QED
    BY <2>1, <2>2, <2>3 DEF RetryInit, RetryInv, WrongInv
<1>2. RetryInv /\ [RetryNext]_retryVars => RetryInv'
  BY RetryTypeStep, RunsStep, WrongStep, WaitsStep DEF RetryInv
<1>. QED
  BY <1>1, <1>2, PTL DEF RetrySpec

\* Whatever others do to the auths, a request asks each auth at most once for each of
\* its models in a round, no more auths than configured, none once it is wrong, and
\* goes through no more rounds and waits no longer than is allowed.  With credits, when
\* the rounds are over, it asks the auths of antigravity alone, the same auth again at
\* most once for each of its models.
THEOREM EffortBounded == RetrySpec => []EffortIsBounded
<1>1. RetryInv => EffortIsBounded
  <2>. SUFFICES ASSUME RetryInv PROVE EffortIsBounded
    OBVIOUS
  <2>0. RetryTypeOK /\ RunsInv /\ WrongInv /\ WaitsInv
    BY DEF RetryInv
  <2>1. ASSUME ~WithCredits, MaxRetryCredentials > 0
        PROVE  Cardinality({a \in Auths : runs[a] > 0}) <= MaxRetryCredentials
    <3>0. Asked \subseteq attempted
      BY <2>1 DEF Asked, WithCredits
    <3>1. {a \in Auths : runs[a] > 0} \subseteq attempted /\ IsFiniteSet(attempted)
      BY <2>0, <3>0, RetryAssumption, FS_Subset DEF RunsInv, RetryTypeOK
    <3>2. /\ Cardinality({a \in Auths : runs[a] > 0}) <= Cardinality(attempted)
          /\ Cardinality(attempted) \in Nat
          /\ Cardinality({a \in Auths : runs[a] > 0}) \in Nat
      BY <3>1, FS_Subset, FS_CardinalityType
    <3>. QED
      BY <2>0, <2>1, <3>2, RetryAssumption DEF RunsInv
  <2>2. round <= MostRetries
    BY <2>0, MostRetriesFacts DEF WaitsInv, RetryTypeOK
  <2>3. WithCredits => \A a \in Auths : runs[a] > 0 => a \in Antigravity
    BY <2>0 DEF RunsInv, RetryTypeOK, Asked
  <2>. QED
    BY <2>0, <2>1, <2>2, <2>3 DEF EffortIsBounded, RunsInv, WrongInv, WaitsInv
<1>. QED
  BY <1>1, RetryInvariance, PTL

\* A request never goes back, whatever others do: the safety half of RequestEnds, for
\* any auths and models.
THEOREM GoesOnlyOn == RetrySpec => NeverGoesBack
<1>. DEFINE Same == UNCHANGED <<round, tried, spent, step, model>>
            Forward == Nearer \/ (~Request /\ Same)
<1>1. RetryTypeOK /\ [RetryNext]_retryVars => [Forward]_retryVars
  <2>. SUFFICES ASSUME RetryTypeOK, RetryNext PROVE Forward
    OBVIOUS
  <2>0. /\ round \in Nat /\ model \in Nat
        /\ step \in {"idle", "pick", "prepare", "execute", "failed", "wait", "credits",
                     "spend", "answered", "refused", "cancelled"}
    BY DEF RetryTypeOK
  <2>1. CASE PickAuth
    <3>1. \E a \in Auths \ tried : tried' = tried \cup {a} /\ round' = round
      BY <2>1 DEF PickAuth
    <3>. QED
      BY <3>1 DEF Nearer
  <2>2. CASE NextRound
    BY <2>0, <2>2 DEF NextRound, Nearer
  <2>3. CASE Fail
    <3>1. /\ step = "execute" /\ UNCHANGED <<round, tried, spent>>
          /\ \/ model' = model - 1 /\ step' = step
             \/ step' \in {"failed", "pick"}
      BY <2>3 DEF Fail
    <3>2. step' \in {"failed", "pick"} => StepsLeft(step') < StepsLeft(step)
      BY <3>1 DEF StepsLeft
    <3>. QED
      BY <2>0, <3>1, <3>2 DEF Nearer
  <2>4. CASE \/ Begin \/ PickFails \/ Prepare \/ Answer \/ Retry \/ Refuse \/ Cancelled
             \/ FallBack \/ CreditsAnswer \/ CreditsEnd
    <3>1. UNCHANGED <<round, tried, spent>>
      BY <2>4 DEF Begin, PickFails, Prepare, PrepareKeeps, Answer, Retry, Refuse, Cancelled,
         FallBack, CreditsAnswer, CreditsEnd
    <3>2. \/ step = "idle" /\ step' = "pick"
          \/ step = "pick" /\ step' = "failed"
          \/ step = "prepare" /\ step' \in {"execute", "pick"}
          \/ step = "failed" /\ step' \in {"wait", "refused", "credits"}
          \/ step \in {"execute", "wait", "spend"} /\ step' \in {"answered", "cancelled"}
          \/ step = "credits" /\ step' = "refused"
      BY <2>4 DEF Begin, PickFails, Prepare, Answer, Retry, Refuse, Cancelled, FallBack,
         CreditsAnswer, CreditsEnd
    <3>3. StepsLeft(step') < StepsLeft(step)
      BY <3>2 DEF StepsLeft
    <3>. QED
      BY <3>1, <3>3 DEF Nearer
  <2>6. CASE Spend
    <3>1. \E a \in Antigravity \ spent : spent' = spent \cup {a}
      BY <2>6 DEF Spend, SpendKeeps
    <3>2. UNCHANGED <<round, tried>>
      BY <2>6 DEF Spend
    <3>. QED
      BY <3>1, <3>2 DEF Nearer
  <2>7. CASE CreditsFail
    <3>1. /\ step = "spend" /\ UNCHANGED <<round, tried, spent>>
          /\ \/ model' = model - 1 /\ step' = step
             \/ step' = "credits"
      BY <2>7 DEF CreditsFail
    <3>2. step' = "credits" => StepsLeft(step') < StepsLeft(step)
      BY <3>1 DEF StepsLeft
    <3>. QED
      BY <2>0, <3>1, <3>2 DEF Nearer
  <2>5. CASE Pass \/ \E a \in Auths : Disturb(a)
    <3>1. Same
      BY <2>5 DEF Pass, Disturb
    <3>2. CASE Request
      BY <2>1, <2>2, <2>3, <2>4, <2>6, <2>7, <3>2 DEF Request, Credits
    <3>. QED
      BY <3>1, <3>2
  <2>. QED
    BY <2>1, <2>2, <2>3, <2>4, <2>5, <2>6, <2>7 DEF RetryNext, Request, Credits
<1>2. RetryInv => RetryTypeOK
  BY DEF RetryInv
<1>. QED
  BY <1>1, <1>2, RetryInvariance, PTL DEF RetrySpec, NeverGoesBack

-----------------------------------------------------------------------------
(* StreamRelay: types.                                                     *)

WrapRecord ==
    [pc: {"none", "read", "data", "error", "done"}, failed: BOOLEAN, sent: 0..MaxChunks]
Results == UNION {[1..n -> {"success", "failure"}] : n \in 0..1}
RelaySteps == {"open", "first", "firstData", "firstError", "next", "data", "send", "error",
               "reopen", "sendErr", "closeErrs", "closeData", "ended"}

LEMMA StreamTypes ==
    ASSUME StreamTypeOK
    PROVE  /\ opened \in 0..(MaxRetries + 1) /\ wrap \in [Streams -> WrapRecord]
           /\ marks \in [Streams -> Results] /\ relay \in RelaySteps
           /\ sentPayload \in BOOLEAN /\ bootstrapRetries \in 0..MaxRetries
           /\ errs \in [full: BOOLEAN, closed: BOOLEAN] /\ dataClosed \in BOOLEAN
           /\ writer \in {"none", "peek", "forward", "done", "error", "gone"}
           /\ written \in [Streams -> 0..MaxChunks] /\ left \in [Streams -> 0..MaxChunks]
           /\ gone \in BOOLEAN /\ cancelled \in BOOLEAN
BY DEF StreamTypeOK, WrapRecord, Results, RelaySteps

LEMMA OneResult ==
    ASSUME NEW r \in {"success", "failure"}
    PROVE  Append(<<>>, r) = <<r>> /\ <<r>> \in Results /\ <<>> \in Results
<1>1. <<r>> \in [1..1 -> {"success", "failure"}] /\ <<>> \in [1..0 -> {"success", "failure"}]
  OBVIOUS
<1>. QED
  BY <1>1 DEF Results

\* What taking a chunk does to its wrapper.
LEMMA TakenFacts ==
    ASSUME NEW s \in Streams, wrap[s] \in WrapRecord, wrap[s].pc \in {"data", "error"},
           WrappersMark
    PROVE  /\ Taken(s) \in WrapRecord /\ Taken(s).failed = wrap[s].failed
           /\ Taken(s).pc \in {"read", "done"} /\ (Taken(s).pc = "done" => wrap[s].failed)
           /\ Taken(s).sent = wrap[s].sent + (IF wrap[s].pc = "data" THEN 1 ELSE 0)
<1>1. CASE wrap[s].pc = "data"
  <2>1. wrap[s].sent + 1 \in 0..MaxChunks
    BY <1>1, StreamAssumption DEF WrappersMark, WrapRecord
  <2>2. Taken(s) = [wrap[s] EXCEPT !.pc = "read", !.sent = @ + 1]
    <3>1. wrap[s] # ErrorOnly
      BY <1>1 DEF ErrorOnly
    <3>. QED
      BY <1>1, <3>1 DEF Taken
  <2>. QED
    BY <1>1, <2>1, <2>2 DEF WrapRecord
<1>2. CASE wrap[s] = ErrorOnly
  <2>1. ErrorOnly \in WrapRecord /\ ErrorOnly.pc = "error" /\ ErrorOnly.failed
        /\ ErrorOnly.sent = 0
    BY StreamAssumption DEF ErrorOnly, WrapRecord
  <2>2. Taken(s) = [pc |-> "done", failed |-> TRUE, sent |-> 0]
    BY <1>2, <2>1 DEF Taken, ErrorOnly
  <2>3. [pc |-> "done", failed |-> TRUE, sent |-> 0] \in WrapRecord
    BY StreamAssumption DEF WrapRecord
  <2>. QED
    BY <1>2, <2>1, <2>2, <2>3
<1>3. CASE wrap[s].pc = "error" /\ wrap[s] # ErrorOnly
  <2>1. Taken(s) = [wrap[s] EXCEPT !.pc = "read"]
    BY <1>3 DEF Taken
  <2>. QED
    BY <1>3, <2>1 DEF WrapRecord
<1>. QED
  BY <1>1, <1>2, <1>3

\* What a step of wrapper s does, and that it leaves the others alone.
LEMMA WrapperFacts ==
    ASSUME StreamTypeOK, WrappersMark, NEW s \in Streams, Wrapper(s)
    PROVE  /\ wrap' \in [Streams -> WrapRecord] /\ marks' \in [Streams -> Results]
           /\ \A t \in Streams \ {s} : wrap'[t] = wrap[t] /\ marks'[t] = marks[t]
           /\ wrap'[s].sent = wrap[s].sent
           /\ \/ /\ wrap[s].pc = "read" /\ wrap'[s].pc = "data" /\ ~wrap[s].failed
                 /\ ~wrap'[s].failed /\ wrap[s].sent < MaxChunks /\ marks'[s] = marks[s]
              \/ /\ wrap[s].pc = "read" /\ wrap'[s].pc = "error" /\ wrap'[s].failed
              \/ /\ wrap[s].pc = "read" /\ wrap'[s].pc = "done" /\ wrap'[s].failed = wrap[s].failed
                 /\ ~wrap[s].failed => marks'[s] = <<"success">>
                 /\ wrap[s].failed => marks'[s] = marks[s]
              \/ /\ wrap[s].pc \in {"data", "error"} /\ wrap'[s].pc = "done" /\ cancelled
                 /\ wrap'[s].failed = wrap[s].failed /\ marks'[s] = marks[s]
<1>0. wrap \in [Streams -> WrapRecord] /\ marks \in [Streams -> Results]
  BY StreamTypes
<1>1. CASE WrapData(s)
  <2>1. [wrap[s] EXCEPT !.pc = "data"] \in WrapRecord
    BY <1>0 DEF WrapRecord
  <2>. QED
    BY <1>0, <1>1, <2>1 DEF WrapData, Wrapping, WrapRecord
<1>2. CASE WrapError(s)
  <2>1. [wrap[s] EXCEPT !.pc = "error", !.failed = TRUE] \in WrapRecord
    BY <1>0 DEF WrapRecord
  <2>2. marks[s] = <<>>
    BY <1>2 DEF WrapError, WrappersMark
  <2>. QED
    BY <1>0, <1>2, <2>1, <2>2, OneResult DEF WrapError, Wrapping, Marked, WrapRecord
<1>3. CASE WrapClose(s)
  <2>1. [wrap[s] EXCEPT !.pc = "done"] \in WrapRecord
    BY <1>0 DEF WrapRecord
  <2>2. ~wrap[s].failed => marks[s] = <<>>
    BY <1>3 DEF WrapClose, WrappersMark
  <2>3. CASE wrap[s].failed
    BY <1>0, <1>3, <2>1, <2>3 DEF WrapClose, Wrapping, WrapRecord
  <2>4. CASE ~wrap[s].failed
    <3>1. /\ wrap' = [wrap EXCEPT ![s] = [wrap[s] EXCEPT !.pc = "done"]]
          /\ marks' = [marks EXCEPT ![s] = <<"success">>]
      BY <1>0, <1>3, <2>2, <2>4, OneResult DEF WrapClose, Wrapping, Marked
    <3>2. <<"success">> \in Results
      BY OneResult
    <3>. QED
      BY <1>0, <1>3, <2>1, <2>4, <3>1, <3>2 DEF WrapClose, WrapRecord
  <2>. QED
    BY <2>3, <2>4
<1>4. CASE WrapGiveUp(s)
  <2>1. [wrap[s] EXCEPT !.pc = "done"] \in WrapRecord
    BY <1>0 DEF WrapRecord
  <2>. QED
    BY <1>0, <1>4, <2>1 DEF WrapGiveUp, Wrapping, WrapRecord
<1>. QED
  BY <1>1, <1>2, <1>3, <1>4 DEF Wrapper

-----------------------------------------------------------------------------
(* StreamRelay: the steps.                                                 *)

\* The invariant, with the types in the form the proofs use.
LEMMA StreamFacts ==
    ASSUME StreamInv
    PROVE  /\ StreamTypeOK /\ OneStream /\ EndsInv /\ WrappersMark /\ PayloadsCount
           /\ opened \in Nat /\ wrap \in [Streams -> WrapRecord]
           /\ marks \in [Streams -> Results] /\ relay \in RelaySteps
           /\ bootstrapRetries \in Nat
           /\ written \in [Streams -> 0..MaxChunks] /\ left \in [Streams -> 0..MaxChunks]
           /\ \A s \in Streams : wrap[s].sent \in 0..MaxChunks
           /\ opened > 0 => opened \in Streams
           /\ MaxChunks \in Nat /\ MaxRetries \in Nat
<1>1. opened \in 0..(MaxRetries + 1) /\ bootstrapRetries \in 0..MaxRetries
  BY StreamTypes DEF StreamInv
<1>2. \A s \in Streams : wrap[s].sent \in 0..MaxChunks
  BY StreamTypes DEF StreamInv, WrapRecord
<1>. QED
  BY <1>1, <1>2, StreamTypes, StreamAssumption DEF StreamInv, Streams

\* A wrapper's step is none of the relay's and the handler's business.
LEMMA WrapperStep == ASSUME StreamInv, NEW s \in Streams, Wrapper(s) PROVE StreamInv'
<1>0. /\ StreamTypeOK /\ OneStream /\ EndsInv /\ WrappersMark /\ PayloadsCount
      /\ opened \in Nat /\ (opened > 0 => opened \in Streams)
  BY StreamFacts
<1>1. /\ wrap' \in [Streams -> WrapRecord] /\ marks' \in [Streams -> Results]
      /\ \A t \in Streams \ {s} : wrap'[t] = wrap[t] /\ marks'[t] = marks[t]
      /\ wrap'[s].sent = wrap[s].sent
  BY <1>0, WrapperFacts
<1>2. \/ /\ wrap[s].pc = "read" /\ wrap'[s].pc = "data" /\ ~wrap[s].failed
         /\ ~wrap'[s].failed /\ wrap[s].sent < MaxChunks /\ marks'[s] = marks[s]
      \/ /\ wrap[s].pc = "read" /\ wrap'[s].pc = "error" /\ wrap'[s].failed
      \/ /\ wrap[s].pc = "read" /\ wrap'[s].pc = "done" /\ wrap'[s].failed = wrap[s].failed
         /\ ~wrap[s].failed => marks'[s] = <<"success">>
         /\ wrap[s].failed => marks'[s] = marks[s]
      \/ /\ wrap[s].pc \in {"data", "error"} /\ wrap'[s].pc = "done" /\ cancelled
         /\ wrap'[s].failed = wrap[s].failed /\ marks'[s] = marks[s]
  BY <1>0, WrapperFacts
<1>3. UNCHANGED <<opened, relay, sentPayload, bootstrapRetries, errs, dataClosed, writer, written,
                  left, gone, cancelled>>
  BY DEF Wrapper
<1>4. StreamTypeOK'
  BY <1>0, <1>1, <1>3 DEF StreamTypeOK, WrapRecord, Results
<1>5. OneStream'
  <2>1. s > opened => FALSE
    <3>1. NotOpened.pc = "none"
      BY DEF NotOpened
    <3>. QED
      BY <1>0, <1>2, <3>1 DEF OneStream
  <2>2. s <= opened
    BY <1>0, <2>1 DEF Streams
  <2>. QED
    BY <1>0, <1>1, <1>3, <2>1 DEF OneStream, Got
<1>6. EndsInv'
  BY <1>0, <1>3 DEF EndsInv
<1>7. WrappersMark'
  <2>1. ASSUME NEW t \in Streams
        PROVE  /\ wrap'[t].pc \in {"none", "read", "data"} /\ ~wrap'[t].failed => marks'[t] = <<>>
               /\ wrap'[t].pc = "data" => ~wrap'[t].failed /\ wrap'[t].sent < MaxChunks
               /\ wrap'[t].pc = "error" => wrap'[t].failed
               /\ wrap'[t].pc = "done" /\ ~wrap'[t].failed => cancelled \/ marks'[t] = <<"success">>
    <3>1. CASE t = s
      BY <1>0, <1>1, <1>2, <3>1 DEF WrappersMark
    <3>2. CASE t # s
      BY <1>0, <1>1, <3>2 DEF WrappersMark
    <3>. QED
      BY <3>1, <3>2
  <2>. QED
    BY <1>3, <2>1 DEF WrappersMark
<1>8. PayloadsCount'
  <2>1. \A t \in Streams : written'[t] + left'[t] <= wrap'[t].sent
    BY <1>0, <1>1, <1>3 DEF PayloadsCount
  <2>2. Held' = Held
    BY <1>3 DEF Held
  <2>3. relay \in {"first", "firstData", "next", "data", "send"} =>
           /\ written[opened] + left[opened] + Held = wrap'[opened].sent
           /\ wrap'[opened].failed => wrap'[opened].pc = "error" \/ cancelled
    <3>. SUFFICES ASSUME relay \in {"first", "firstData", "next", "data", "send"}
                  PROVE  /\ written[opened] + left[opened] + Held = wrap'[opened].sent
                         /\ wrap'[opened].failed => wrap'[opened].pc = "error" \/ cancelled
      OBVIOUS
    <3>1. opened \in Streams
      BY <1>0 DEF OneStream
    <3>2. /\ written[opened] + left[opened] + Held = wrap[opened].sent
          /\ wrap[opened].failed => wrap[opened].pc = "error" \/ cancelled
      BY <1>0 DEF PayloadsCount
    <3>3. wrap'[opened].sent = wrap[opened].sent
      BY <1>1, <3>1
    <3>4. wrap'[opened].failed => wrap'[opened].pc = "error" \/ cancelled
      BY <1>1, <1>2, <3>1, <3>2
    <3>. QED
      BY <3>2, <3>3, <3>4
  <2>4. Whole /\ opened > 0 => Whole'
    BY <1>0, <1>1, <1>2, <1>3 DEF Whole
  <2>5. (\E t \in Streams : Got(t)) => opened > 0
    BY <1>0 DEF OneStream, Streams
  <2>6. (\E t \in Streams : Got(t)') <=> (\E t \in Streams : Got(t))
    BY <1>3 DEF Got
  <2>. QED
    BY <1>0, <1>3, <2>1, <2>2, <2>3, <2>4, <2>5, <2>6 DEF PayloadsCount
<1>. QED
  BY <1>4, <1>5, <1>6, <1>7, <1>8 DEF StreamInv

\* Steps that leave the upstream streams and the counts alone keep the wrappers' part.
LEMMA WrappersRest ==
    ASSUME StreamInv, UNCHANGED <<opened, wrap, marks>>, cancelled => cancelled'
    PROVE  WrappersMark' /\ Whole = (written[opened] + left[opened] = wrap'[opened].sent
                                     /\ wrap'[opened].pc = "done" /\ marks'[opened] = <<"success">>)
BY StreamFacts DEF WrappersMark, Whole

LEMMA EndingStep ==
    ASSUME StreamInv, WriteError \/ WriteDone \/ Leave \/ Disconnect \/ Cancel PROVE StreamInv'
<1>0. /\ StreamTypeOK /\ OneStream /\ EndsInv /\ WrappersMark /\ PayloadsCount
      /\ errs \in [full: BOOLEAN, closed: BOOLEAN] /\ gone \in BOOLEAN /\ cancelled \in BOOLEAN
  BY StreamFacts, StreamTypes
<1>1. /\ UNCHANGED <<opened, wrap, marks, relay, sentPayload, bootstrapRetries, dataClosed, written,
                     left>>
      /\ (cancelled => cancelled') /\ (gone => gone') /\ gone' \in BOOLEAN /\ cancelled' \in BOOLEAN
  BY <1>0 DEF WriteError, WriteDone, Leave, Disconnect, Cancel, Ending
<1>2. \/ /\ writer' = "error" /\ errs' = [errs EXCEPT !.full = FALSE] /\ gone' = gone
         /\ writer \in {"peek", "forward"}
      \/ /\ writer' = "done" /\ dataClosed /\ (writer = "peek" \/ ~errs.full) /\ errs' = errs
         /\ gone' = gone /\ writer \in {"peek", "forward"}
      \/ /\ writer' = "gone" /\ gone /\ errs' = errs /\ gone' = gone
         /\ writer \in {"peek", "forward"}
      \/ writer' = writer /\ errs' = errs /\ (cancelled' => cancelled \/ gone')
  BY <1>0 DEF WriteError, WriteDone, Leave, Disconnect, Cancel, Ending, Active
<1>3. StreamTypeOK'
  BY <1>0, <1>1, <1>2 DEF StreamTypeOK
<1>4. OneStream'
  BY <1>0, <1>1, <1>2 DEF OneStream, Got
<1>5. EndsInv'
  <2>1. CASE writer' = writer /\ errs' = errs /\ (cancelled' => cancelled \/ gone')
    BY <1>0, <1>1, <2>1 DEF EndsInv
  <2>2. CASE writer' # writer
    BY <1>0, <1>1, <1>2, <2>2 DEF EndsInv
  <2>. QED
    BY <1>2, <2>1, <2>2
<1>6. WrappersMark'
  BY <1>1, WrappersRest
<1>7. PayloadsCount'
  <2>1. Held' = Held /\ Whole' = Whole
        /\ ((\E s \in Streams : Got(s)') <=> (\E s \in Streams : Got(s)))
    BY <1>1 DEF Held, Whole, Got
  <2>2. (\E s \in Streams : Got(s)) => writer \notin {"none", "peek"}
    BY <1>0 DEF OneStream
  <2>3. dataClosed => relay = "ended"
    BY <1>0 DEF EndsInv
  <2>4. relay \in {"closeErrs", "closeData", "ended"} =>
           gone' \/ writer' \in {"error", "gone"} \/ errs'.full \/ (opened > 0 /\ Whole)
    BY <1>0, <1>1, <1>2 DEF PayloadsCount
  <2>5. writer' = "done" /\ ~gone' /\ (\E s \in Streams : Got(s)) => Whole /\ ~errs'.full
    BY <1>0, <1>1, <1>2, <2>2, <2>3 DEF PayloadsCount
  <2>6. relay \in {"first", "firstData", "next", "data", "send"} =>
           /\ written[opened] + left[opened] + Held = wrap[opened].sent
           /\ wrap[opened].failed => wrap[opened].pc = "error" \/ cancelled'
    BY <1>0, <1>1 DEF PayloadsCount
  <2>7. \A s \in Streams : written[s] + left[s] <= wrap[s].sent
    BY <1>0 DEF PayloadsCount
  <2>. QED
    BY <1>1, <2>1, <2>4, <2>5, <2>6, <2>7 DEF PayloadsCount
<1>. QED
  BY <1>3, <1>4, <1>5, <1>6, <1>7 DEF StreamInv

LEMMA WriteStep == ASSUME StreamInv, Write PROVE StreamInv'
<1>0. /\ StreamTypeOK /\ OneStream /\ EndsInv /\ WrappersMark /\ PayloadsCount
      /\ opened \in Nat /\ (opened > 0 => opened \in Streams)
      /\ written \in [Streams -> 0..MaxChunks] /\ left \in [Streams -> 0..MaxChunks]
      /\ \A s \in Streams : wrap[s].sent \in 0..MaxChunks
      /\ MaxChunks \in Nat
  BY StreamFacts
<1>1. /\ relay = "send" /\ writer \in {"peek", "forward"} /\ relay' = "next" /\ writer' = "forward"
      /\ written' = [written EXCEPT ![opened] = @ + 1]
      /\ UNCHANGED <<opened, wrap, marks, sentPayload, bootstrapRetries, errs, dataClosed, left, gone,
                     cancelled>>
  BY DEF Write, Active
<1>2. opened \in Streams /\ sentPayload
  BY <1>0, <1>1 DEF OneStream
<1>3. /\ written[opened] + left[opened] + 1 = wrap[opened].sent
      /\ wrap[opened].failed => wrap[opened].pc = "error" \/ cancelled
  BY <1>0, <1>1 DEF PayloadsCount, Held
<1>4. /\ written' \in [Streams -> 0..MaxChunks] /\ written'[opened] = written[opened] + 1
      /\ \A s \in Streams \ {opened} : written'[s] = written[s]
      /\ written'[opened] + left[opened] = wrap[opened].sent
  <2>1. written[opened] \in Nat /\ left[opened] \in Nat /\ wrap[opened].sent \in 0..MaxChunks
    BY <1>0, <1>2
  <2>2. written[opened] + 1 \in 0..MaxChunks
    BY <1>0, <1>3, <2>1
  <2>3. written'[opened] = written[opened] + 1 /\ written' \in [Streams -> 0..MaxChunks]
        /\ \A s \in Streams \ {opened} : written'[s] = written[s]
    BY <1>0, <1>1, <1>2, <2>2
  <2>4. (written[opened] + 1) + left[opened] = wrap[opened].sent
    BY <1>3, <2>1
  <2>. QED
    BY <2>3, <2>4
<1>5. StreamTypeOK'
  BY <1>0, <1>1, <1>4 DEF StreamTypeOK
<1>6. OneStream'
  BY <1>0, <1>1, <1>2, <1>4 DEF OneStream, Got
<1>7. EndsInv'
  BY <1>0, <1>1 DEF EndsInv
<1>8. WrappersMark'
  BY <1>1, WrappersRest
<1>9. PayloadsCount'
  <2>1. \A s \in Streams : written'[s] + left[s] <= wrap[s].sent
    BY <1>0, <1>2, <1>4 DEF PayloadsCount
  <2>2. Held' = 0 /\ written'[opened] + left[opened] + 0 = wrap[opened].sent
    BY <1>0, <1>1, <1>2, <1>4 DEF Held
  <2>. QED
    BY <1>1, <1>3, <2>1, <2>2 DEF PayloadsCount
<1>. QED
  BY <1>5, <1>6, <1>7, <1>8, <1>9 DEF StreamInv

\* The relay's steps on what it read.
LEMMA PayloadStep == ASSUME StreamInv, Payload PROVE StreamInv'
<1>0. /\ StreamTypeOK /\ OneStream /\ EndsInv /\ WrappersMark /\ PayloadsCount
      /\ opened \in Nat /\ (opened > 0 => opened \in Streams)
      /\ written \in [Streams -> 0..MaxChunks] /\ left \in [Streams -> 0..MaxChunks]
      /\ \A s \in Streams : wrap[s].sent \in 0..MaxChunks
      /\ MaxChunks \in Nat
  BY StreamFacts
<1>1. /\ relay = "data" /\ relay' \in {"next", "sendErr", "send"}
      /\ UNCHANGED <<opened, wrap, marks, bootstrapRetries, errs, dataClosed, writer, written, gone,
                     cancelled>>
  BY DEF Payload
<1>2. opened \in Streams
  BY <1>0, <1>1 DEF OneStream
<1>3. /\ written[opened] + left[opened] + 1 = wrap[opened].sent
      /\ wrap[opened].failed => wrap[opened].pc = "error" \/ cancelled
      /\ writer \notin {"none", "done"}
  BY <1>0, <1>1 DEF PayloadsCount, Held, EndsInv
<1>4. WrappersMark'
  BY <1>1, WrappersRest
<1>5. EndsInv'
  BY <1>0, <1>1 DEF EndsInv
<1>6. CASE relay' = "next" /\ left' = [left EXCEPT ![opened] = @ + 1] /\ UNCHANGED sentPayload
  <2>1. /\ left' \in [Streams -> 0..MaxChunks] /\ left'[opened] = left[opened] + 1
        /\ \A s \in Streams \ {opened} : left'[s] = left[s]
        /\ written[opened] + left'[opened] = wrap[opened].sent
    <3>1. written[opened] \in Nat /\ left[opened] \in Nat /\ wrap[opened].sent \in 0..MaxChunks
      BY <1>0, <1>2
    <3>2. left[opened] + 1 \in 0..MaxChunks
      BY <1>0, <1>3, <3>1
    <3>3. left'[opened] = left[opened] + 1 /\ left' \in [Streams -> 0..MaxChunks]
          /\ \A s \in Streams \ {opened} : left'[s] = left[s]
      BY <1>0, <1>6, <1>2, <3>2
    <3>4. written[opened] + (left[opened] + 1) = wrap[opened].sent
      BY <1>3, <3>1
    <3>. QED
      BY <3>3, <3>4
  <2>2. StreamTypeOK'
    BY <1>0, <1>1, <1>6, <2>1 DEF StreamTypeOK
  <2>3. OneStream'
    BY <1>0, <1>1, <1>6, <1>2, <2>1 DEF OneStream, Got
  <2>4. PayloadsCount'
    <3>1. \A s \in Streams : written[s] + left'[s] <= wrap[s].sent
      BY <1>0, <1>2, <2>1 DEF PayloadsCount
    <3>2. Held' = 0 /\ written[opened] + left'[opened] + 0 = wrap[opened].sent
      BY <1>0, <1>6, <1>2, <2>1 DEF Held
    <3>. QED
      BY <1>1, <1>3, <1>6, <3>1, <3>2 DEF PayloadsCount
  <2>. QED
    BY <1>4, <1>5, <2>2, <2>3, <2>4 DEF StreamInv
<1>7. CASE relay' = "sendErr" /\ UNCHANGED <<left, sentPayload>>
  <2>1. StreamTypeOK' /\ OneStream'
    BY <1>0, <1>1, <1>2, <1>7 DEF StreamTypeOK, OneStream, Got
  <2>2. PayloadsCount'
    BY <1>0, <1>1, <1>3, <1>7 DEF PayloadsCount
  <2>. QED
    BY <1>4, <1>5, <2>1, <2>2 DEF StreamInv
<1>8. CASE relay' = "send" /\ sentPayload' = TRUE /\ UNCHANGED left
  <2>1. StreamTypeOK' /\ OneStream'
    BY <1>0, <1>1, <1>2, <1>8 DEF StreamTypeOK, OneStream, Got
  <2>2. PayloadsCount'
    <3>1. Held' = 1
      BY <1>8 DEF Held
    <3>. QED
      BY <1>0, <1>1, <1>3, <1>8, <3>1 DEF PayloadsCount
  <2>. QED
    BY <1>4, <1>5, <2>1, <2>2 DEF StreamInv
<1>. QED
  BY <1>6, <1>7, <1>8 DEF Payload

LEMMA OneMoreIsAtMost ==
    ASSUME NEW n \in Nat, NEW b \in Nat, NEW c \in Nat, n <= b + 1, c >= b
    PROVE  n <= c + 1
OBVIOUS

LEMMA RelayEndsStep == ASSUME StreamInv, Failed \/ SendErr \/ Finish PROVE StreamInv'
<1>0. /\ StreamTypeOK /\ OneStream /\ EndsInv /\ WrappersMark /\ PayloadsCount
      /\ opened \in Nat /\ bootstrapRetries \in 0..MaxRetries /\ MaxRetries \in Nat
      /\ errs \in [full: BOOLEAN, closed: BOOLEAN]
      /\ cancelled \in BOOLEAN /\ gone \in BOOLEAN
  BY StreamFacts, StreamTypes
<1>1. UNCHANGED <<opened, wrap, marks, sentPayload, writer, written, left, gone, cancelled>>
  BY DEF Failed, SendErr, Finish
<1>2. \/ /\ relay = "error" /\ relay' = "reopen" /\ bootstrapRetries' = bootstrapRetries + 1
         /\ ~sentPayload /\ bootstrapRetries < MaxRetries /\ UNCHANGED <<errs, dataClosed>>
      \/ /\ relay = "error" /\ relay' = "sendErr"
         /\ UNCHANGED <<bootstrapRetries, errs, dataClosed>>
      \/ /\ relay = "sendErr" /\ relay' = "closeErrs" /\ (errs'.full \/ cancelled)
         /\ errs' \in [full: BOOLEAN, closed: BOOLEAN] /\ UNCHANGED <<bootstrapRetries, dataClosed>>
      \/ /\ relay = "send" /\ relay' = "closeErrs" /\ cancelled
         /\ UNCHANGED <<bootstrapRetries, errs, dataClosed>>
      \/ /\ relay = "closeErrs" /\ relay' = "closeData" /\ errs'.full = errs.full
         /\ errs' \in [full: BOOLEAN, closed: BOOLEAN] /\ UNCHANGED <<bootstrapRetries, dataClosed>>
      \/ /\ relay = "closeData" /\ relay' = "ended" /\ dataClosed' = TRUE
         /\ UNCHANGED <<bootstrapRetries, errs>>
  BY <1>0 DEF Failed, SendErr, Finish, MayRetry, SendGivesUp
<1>3. StreamTypeOK'
  <2>1. /\ relay' \in RelaySteps /\ errs' \in [full: BOOLEAN, closed: BOOLEAN]
        /\ dataClosed' \in BOOLEAN /\ bootstrapRetries' \in 0..MaxRetries
    <3>1. relay' \in RelaySteps
      BY <1>2 DEF RelaySteps
    <3>2. errs' \in [full: BOOLEAN, closed: BOOLEAN] /\ dataClosed' \in BOOLEAN
      BY <1>0, <1>2 DEF StreamTypeOK
    <3>3. bootstrapRetries' \in 0..MaxRetries
      BY <1>0, <1>2
    <3>. QED
      BY <3>1, <3>2, <3>3
  <2>. QED
    BY <1>0, <1>1, <2>1 DEF StreamTypeOK, RelaySteps
<1>4. OneStream'
  <2>1. /\ relay \notin {"open", "ended"} /\ opened # 0 /\ relay' # "open"
        /\ opened <= bootstrapRetries + 1 /\ bootstrapRetries' >= bootstrapRetries
        /\ bootstrapRetries' \in Nat /\ bootstrapRetries \in Nat /\ opened \in Nat
    BY <1>0, <1>2 DEF OneStream
  <2>2. relay' = "reopen" => opened <= bootstrapRetries' /\ ~sentPayload
    BY <1>0, <1>2, <2>1
  <2>3. opened <= bootstrapRetries' + 1 /\ relay' # "send"
    <3>1. opened <= bootstrapRetries' + 1
      BY <2>1, OneMoreIsAtMost
    <3>. QED
      BY <1>2, <3>1
  <2>. QED
    BY <1>0, <1>1, <2>1, <2>2, <2>3 DEF OneStream, Got
<1>5. EndsInv'
  BY <1>0, <1>1, <1>2 DEF EndsInv
<1>6. WrappersMark'
  BY <1>1, WrappersRest
<1>7. PayloadsCount'
  <2>1. Whole' = Whole /\ ((\E s \in Streams : Got(s)') <=> (\E s \in Streams : Got(s)))
    BY <1>1 DEF Whole, Got
  <2>2. writer # "done"
    BY <1>0, <1>2 DEF EndsInv
  <2>3. cancelled => gone \/ writer \in {"error", "gone"}
    BY <1>0, <2>2 DEF EndsInv
  <2>4. relay' \in {"closeErrs", "closeData", "ended"} =>
           gone \/ writer \in {"error", "gone"} \/ errs'.full \/ (opened > 0 /\ Whole)
    BY <1>0, <1>2, <2>3 DEF PayloadsCount
  <2>5. relay' \notin {"first", "firstData", "next", "data", "send"}
    BY <1>2
  <2>. QED
    BY <1>0, <1>1, <2>1, <2>2, <2>4, <2>5 DEF PayloadsCount
<1>. QED
  BY <1>3, <1>4, <1>5, <1>6, <1>7 DEF StreamInv

\* The relay takes a chunk, or sees the end of the stream.
LEMMA ReadStep == ASSUME StreamInv, First \/ Next PROVE StreamInv'
<1>0. /\ StreamTypeOK /\ OneStream /\ EndsInv /\ WrappersMark /\ PayloadsCount
      /\ opened \in Nat /\ (opened > 0 => opened \in Streams)
      /\ wrap \in [Streams -> WrapRecord]
      /\ written \in [Streams -> 0..MaxChunks] /\ left \in [Streams -> 0..MaxChunks]
      /\ cancelled \in BOOLEAN /\ gone \in BOOLEAN
      /\ writer \in {"none", "peek", "forward", "done", "error", "gone"}
  BY StreamFacts, StreamTypes
<1>1. /\ UNCHANGED <<opened, marks, sentPayload, bootstrapRetries, errs, dataClosed, written, left,
                     gone, cancelled>>
      /\ IF relay = "first" THEN writer' = "peek" ELSE writer' = writer
      /\ relay \in {"first", "firstData", "firstError", "next"}
      /\ relay' \in {"firstData", "firstError", "data", "error", "closeErrs"}
  BY DEF First, Next
<1>2. opened \in Streams /\ opened # 0
  BY <1>0, <1>1 DEF OneStream
<1>3. /\ writer # "done" /\ ~dataClosed /\ (cancelled => gone \/ writer \in {"error", "gone"})
      /\ (relay = "first" <=> writer = "none")
  BY <1>0, <1>1 DEF EndsInv
<1>4. EndsInv'
  BY <1>0, <1>1, <1>3 DEF EndsInv
<1>a. /\ \A s \in Streams : Got(s)' <=> Got(s)
      /\ \A s \in Streams : Got(s) => s = opened /\ sentPayload /\ writer \notin {"none", "peek"}
  BY <1>0, <1>1 DEF OneStream, Got
<1>5. \/ /\ wrap' = [wrap EXCEPT ![opened] = Taken(opened)]
         /\ wrap[opened].pc = "data" /\ relay \in {"first", "next"}
         /\ relay' \in {"firstData", "data"}
      \/ /\ wrap' = [wrap EXCEPT ![opened] = Taken(opened)]
         /\ wrap[opened].pc = "error" /\ relay \in {"first", "next"}
         /\ relay' \in {"firstError", "error"}
      \/ /\ UNCHANGED wrap /\ relay = "firstData" /\ relay' = "data"
      \/ /\ UNCHANGED wrap /\ relay = "firstError" /\ relay' = "error"
      \/ /\ UNCHANGED wrap /\ relay \in {"first", "next"} /\ relay' = "closeErrs"
         /\ cancelled \/ wrap[opened].pc = "done"
  BY DEF First, Next, Wrapping
<1>6. CASE UNCHANGED wrap
  <2>0. wrap[opened].pc \in {"data", "error"} =>
            wrap' # [wrap EXCEPT ![opened] = Taken(opened)]
    <3>1. wrap[opened].pc \in {"data", "error"} => Taken(opened).pc \in {"read", "done"}
      BY <1>0, <1>2, TakenFacts
    <3>. QED
      BY <1>0, <1>2, <1>6, <3>1
  <2>1. StreamTypeOK' /\ OneStream'
    <3>1. relay' # "open" /\ relay' # "reopen" /\ relay' # "send" /\ writer' \in {writer, "peek"}
          /\ (writer' = "peek" => writer \in {"none", "peek"}) /\ (writer' = "none" => writer = "none")
      BY <1>1, <1>3
    <3>2. StreamTypeOK'
      BY <1>0, <1>1, <1>6 DEF StreamTypeOK
    <3>. QED
      BY <1>0, <1>1, <1>2, <1>6, <1>a, <3>1, <3>2 DEF OneStream
  <2>2. WrappersMark'
    BY <1>1, <1>6, WrappersRest
  <2>3. PayloadsCount'
    <3>1. relay = "firstData" /\ relay' = "data" => Held' = Held
      BY DEF Held
    <3>2. relay' = "closeErrs" /\ ~cancelled => Whole'
      <4>. SUFFICES ASSUME relay' = "closeErrs", ~cancelled PROVE Whole'
        OBVIOUS
      <4>1. wrap[opened].pc = "done" /\ relay \in {"first", "next"}
        BY <1>5
      <4>2. ~wrap[opened].failed /\ written[opened] + left[opened] + Held = wrap[opened].sent
        BY <1>0, <4>1 DEF PayloadsCount
      <4>3. marks[opened] = <<"success">> /\ Held = 0
        BY <1>0, <1>2, <4>1, <4>2 DEF WrappersMark, Held
      <4>. QED
        BY <1>0, <1>1, <1>2, <1>6, <4>1, <4>2, <4>3 DEF Whole
    <3>3. relay' = "closeErrs" /\ cancelled => gone \/ writer' \in {"error", "gone"}
      BY <1>1, <1>3
    <3>4. writer' # "done"
      BY <1>1, <1>3
    <3>5. relay' \in {"closeErrs", "closeData", "ended"} =>
             gone' \/ writer' \in {"error", "gone"} \/ errs'.full \/ (opened' > 0 /\ Whole')
      BY <1>0, <1>1, <1>2, <3>2, <3>3
    <3>6. relay' \in {"first", "firstData", "next", "data", "send"} =>
             /\ written'[opened'] + left'[opened'] + Held' = wrap'[opened'].sent
             /\ wrap'[opened'].failed => wrap'[opened'].pc = "error" \/ cancelled'
      BY <1>0, <1>1, <1>5, <1>6, <2>0, <3>1 DEF PayloadsCount
    <3>. QED
      BY <1>0, <1>1, <1>6, <3>4, <3>5, <3>6 DEF PayloadsCount
  <2>. QED
    BY <1>4, <2>1, <2>2, <2>3 DEF StreamInv
<1>7. CASE /\ wrap' = [wrap EXCEPT ![opened] = Taken(opened)]
           /\ wrap[opened].pc \in {"data", "error"} /\ relay \in {"first", "next"}
           /\ relay' \in (IF wrap[opened].pc = "data" THEN {"firstData", "data"}
                          ELSE {"firstError", "error"})
  <2>1. /\ wrap' \in [Streams -> WrapRecord] /\ wrap'[opened] = Taken(opened)
        /\ \A s \in Streams \ {opened} : wrap'[s] = wrap[s]
        /\ wrap'[opened].failed = wrap[opened].failed
        /\ wrap'[opened].pc \in {"read", "done"}
        /\ wrap'[opened].pc = "done" => wrap[opened].failed
        /\ wrap'[opened].sent = wrap[opened].sent + (IF wrap[opened].pc = "data" THEN 1 ELSE 0)
    BY <1>0, <1>2, <1>7, TakenFacts
  <2>2. StreamTypeOK'
    BY <1>0, <1>1, <1>7, <2>1 DEF StreamTypeOK, WrapRecord
  <2>3. OneStream'
    <3>1. relay' # "open" /\ relay' # "reopen" /\ relay' # "send" /\ writer' \in {writer, "peek"}
          /\ (writer' = "peek" => writer \in {"none", "peek"}) /\ (writer' = "none" => writer = "none")
      BY <1>1, <1>3
    <3>2. \A s \in Streams : s > opened => wrap'[s] = NotOpened /\ marks[s] = <<>>
      BY <1>0, <2>1 DEF OneStream
    <3>. QED
      BY <1>0, <1>1, <1>2, <1>a, <3>1, <3>2 DEF OneStream
  <2>4. WrappersMark'
    <3>1. wrap[opened].pc = "data" => ~wrap[opened].failed /\ marks[opened] = <<>>
      BY <1>0, <1>2 DEF WrappersMark
    <3>2. wrap[opened].pc = "error" => wrap[opened].failed
      BY <1>0, <1>2 DEF WrappersMark
    <3>3. ASSUME NEW s \in Streams
          PROVE  /\ wrap'[s].pc \in {"none", "read", "data"} /\ ~wrap'[s].failed => marks[s] = <<>>
                 /\ wrap'[s].pc = "data" => ~wrap'[s].failed /\ wrap'[s].sent < MaxChunks
                 /\ wrap'[s].pc = "error" => wrap'[s].failed
                 /\ wrap'[s].pc = "done" /\ ~wrap'[s].failed => cancelled \/ marks[s] = <<"success">>
      <4>1. CASE s = opened
        BY <1>7, <2>1, <3>1, <3>2, <4>1
      <4>2. CASE s # opened
        BY <1>0, <2>1, <4>2 DEF WrappersMark
      <4>. QED
        BY <4>1, <4>2
    <3>. QED
      BY <1>1, <3>3 DEF WrappersMark
  <2>5. PayloadsCount'
    <3>0. /\ written[opened] \in Nat /\ left[opened] \in Nat /\ wrap[opened].sent \in Nat
          /\ wrap'[opened].sent \in Nat
      BY <1>0, <1>2, <2>1, StreamAssumption DEF WrapRecord
    <3>1. /\ written[opened] + left[opened] = wrap[opened].sent
      BY <1>0, <1>7, <3>0 DEF PayloadsCount, Held
    <3>2. \A s \in Streams : written[s] + left[s] <= wrap'[s].sent
      <4>1. written[opened] + left[opened] <= wrap'[opened].sent
        BY <2>1, <3>0, <3>1
      <4>. QED
        BY <1>0, <2>1, <4>1 DEF PayloadsCount
    <3>3. wrap[opened].pc = "data" =>
             /\ Held' = 1 /\ written[opened] + left[opened] + 1 = wrap'[opened].sent
             /\ ~wrap'[opened].failed
      BY <1>0, <1>2, <1>7, <2>1, <3>0, <3>1 DEF Held, WrappersMark
    <3>4. writer' # "done" /\ relay' \notin {"closeErrs", "closeData", "ended"}
      BY <1>1, <1>3, <1>7
    <3>. QED
      BY <1>1, <1>7, <3>2, <3>3, <3>4 DEF PayloadsCount
  <2>. QED
    BY <1>4, <2>2, <2>3, <2>4, <2>5 DEF StreamInv
<1>. QED
  BY <1>5, <1>6, <1>7

\* Another upstream stream is opened, or none.
LEMMA OpenStep == ASSUME StreamInv, Open \/ Reopen PROVE StreamInv'
<1>0. /\ StreamTypeOK /\ OneStream /\ EndsInv /\ WrappersMark /\ PayloadsCount
      /\ opened \in Nat /\ (opened > 0 => opened \in Streams)
      /\ wrap \in [Streams -> WrapRecord] /\ bootstrapRetries \in 0..MaxRetries
      /\ MaxRetries \in Nat
      /\ written \in [Streams -> 0..MaxChunks] /\ left \in [Streams -> 0..MaxChunks]
      /\ errs \in [full: BOOLEAN, closed: BOOLEAN]
      /\ writer \in {"none", "peek", "forward", "done", "error", "gone"}
  BY StreamFacts, StreamTypes
<1>1. /\ UNCHANGED <<marks, sentPayload, bootstrapRetries, dataClosed, written, left, gone, cancelled>>
      /\ relay \in {"open", "reopen"}
      /\ IF relay = "open" THEN Opening("first") \/ OpenFails
         ELSE Opening("next") \/ (relay' = "sendErr" /\ UNCHANGED <<opened, wrap, errs, writer>>)
  BY DEF Open, Reopen
<1>2. /\ writer # "done" /\ ~dataClosed /\ ~errs.full
      /\ (relay = "open" => writer = "none" /\ opened = 0)
      /\ (relay # "open" => writer \notin {"none"} /\ opened > 0 /\ ~sentPayload
                            /\ opened <= bootstrapRetries)
  BY <1>0, <1>1 DEF OneStream, EndsInv
<1>3. \A s \in Streams : ~Got(s) /\ (Got(s)' <=> Got(s))
  BY <1>0, <1>1, <1>2 DEF OneStream, Got, Streams
<1>4. CASE \/ Opening("first") /\ relay = "open"
           \/ Opening("next") /\ relay = "reopen"
  <2>1. PICK w \in {Reading, ErrorOnly} : wrap' = [wrap EXCEPT ![opened + 1] = w]
    BY <1>4 DEF Opening, Wrapping
  <2>2. /\ opened' = opened + 1 /\ UNCHANGED <<errs, writer>>
        /\ relay' = IF relay = "open" THEN "first" ELSE "next"
    BY <1>4 DEF Opening
  <2>3. /\ opened + 1 \in Streams /\ opened + 1 <= bootstrapRetries + 1 /\ opened + 1 # 0
        /\ opened + 1 \in 0..(MaxRetries + 1)
    BY <1>0, <1>1, <1>2 DEF Streams
  <2>4. /\ w \in WrapRecord /\ w.sent = 0
        /\ \/ w.pc = "read" /\ ~w.failed
           \/ w.pc = "error" /\ w.failed
    <3>1. Reading \in WrapRecord /\ ErrorOnly \in WrapRecord
      BY StreamAssumption DEF Reading, ErrorOnly, WrapRecord
    <3>2. CASE w = Reading
      BY <3>1, <3>2 DEF Reading
    <3>3. CASE w = ErrorOnly
      BY <3>1, <3>3 DEF ErrorOnly
    <3>. QED
      BY <3>2, <3>3
  <2>5. wrap' \in [Streams -> WrapRecord] /\ wrap'[opened + 1] = w
        /\ \A s \in Streams \ {opened + 1} : wrap'[s] = wrap[s]
    BY <1>0, <2>1, <2>3, <2>4
  <2>6. /\ wrap[opened + 1] = NotOpened /\ marks[opened + 1] = <<>> /\ NotOpened.sent = 0
        /\ opened + 1 > opened
    <3>1. opened + 1 > opened
      BY <1>0
    <3>2. \A s \in Streams : s > opened => wrap[s] = NotOpened /\ marks[s] = <<>>
      BY <1>0 DEF OneStream
    <3>. QED
      BY <2>3, <3>1, <3>2 DEF NotOpened
  <2>7. written[opened + 1] = 0 /\ left[opened + 1] = 0
    <3>1. written[opened + 1] + left[opened + 1] <= 0
      BY <1>0, <2>3, <2>6 DEF PayloadsCount
    <3>2. written[opened + 1] \in 0..MaxChunks /\ left[opened + 1] \in 0..MaxChunks
      BY <1>0, <2>3
    <3>. QED
      BY <3>1, <3>2
  <2>8. StreamTypeOK'
    BY <1>0, <1>1, <2>2, <2>3, <2>5 DEF StreamTypeOK, WrapRecord
  <2>9. OneStream'
    <3>1. \A s \in Streams : s > opened + 1 => wrap'[s] = NotOpened /\ marks[s] = <<>>
      <4>1. ASSUME NEW s \in Streams, s > opened + 1
            PROVE  s > opened /\ s \in Streams \ {opened + 1}
        BY <1>0, <4>1 DEF Streams
      <4>. QED
        BY <1>0, <2>5, <4>1 DEF OneStream
    <3>. QED
      BY <1>0, <1>1, <1>3, <2>2, <2>3, <3>1 DEF OneStream
  <2>10. EndsInv'
    BY <1>0, <1>1, <1>2, <2>2 DEF EndsInv
  <2>11. WrappersMark'
    <3>1. ASSUME NEW s \in Streams
          PROVE  /\ wrap'[s].pc \in {"none", "read", "data"} /\ ~wrap'[s].failed => marks[s] = <<>>
                 /\ wrap'[s].pc = "data" => ~wrap'[s].failed /\ wrap'[s].sent < MaxChunks
                 /\ wrap'[s].pc = "error" => wrap'[s].failed
                 /\ wrap'[s].pc = "done" /\ ~wrap'[s].failed => cancelled \/ marks[s] = <<"success">>
      <4>1. CASE s = opened + 1
        BY <2>4, <2>5, <2>6, <4>1
      <4>2. CASE s # opened + 1
        BY <1>0, <2>5, <4>2 DEF WrappersMark
      <4>. QED
        BY <4>1, <4>2
    <3>. QED
      BY <1>1, <3>1 DEF WrappersMark
  <2>12. PayloadsCount'
    <3>1. \A s \in Streams : written[s] + left[s] <= wrap'[s].sent
      <4>1. written[opened + 1] + left[opened + 1] <= wrap'[opened + 1].sent
        BY <2>4, <2>5, <2>7
      <4>2. \A s \in Streams \ {opened + 1} : written[s] + left[s] <= wrap'[s].sent
        BY <1>0, <2>5 DEF PayloadsCount
      <4>. QED
        BY <4>1, <4>2
    <3>2. Held' = 0
      BY <1>1, <2>2 DEF Held
    <3>3. /\ written[opened + 1] + left[opened + 1] + 0 = wrap'[opened + 1].sent
          /\ wrap'[opened + 1].failed => wrap'[opened + 1].pc = "error"
      BY <2>4, <2>5, <2>7
    <3>4. relay' \notin {"closeErrs", "closeData", "ended"} /\ writer' # "done"
      BY <1>2, <2>2
    <3>. QED
      BY <1>1, <2>2, <3>1, <3>2, <3>3, <3>4 DEF PayloadsCount
  <2>. QED
    BY <2>8, <2>9, <2>10, <2>11, <2>12 DEF StreamInv
<1>5. CASE relay = "open" /\ OpenFails
  <2>1. /\ errs' = [full |-> TRUE, closed |-> TRUE] /\ relay' = "ended" /\ writer' = "peek"
        /\ UNCHANGED <<opened, wrap>>
    BY <1>5 DEF OpenFails
  <2>2. StreamTypeOK'
    BY <1>0, <1>1, <2>1 DEF StreamTypeOK
  <2>3. OneStream' /\ EndsInv'
    BY <1>0, <1>1, <1>2, <1>3, <1>5, <2>1 DEF OneStream, EndsInv
  <2>4. WrappersMark'
    BY <1>1, <2>1, WrappersRest
  <2>5. PayloadsCount'
    BY <1>0, <1>1, <2>1 DEF PayloadsCount
  <2>. QED
    BY <2>2, <2>3, <2>4, <2>5 DEF StreamInv
<1>6. CASE relay = "reopen" /\ relay' = "sendErr" /\ UNCHANGED <<opened, wrap, errs, writer>>
  <2>2. StreamTypeOK'
    BY <1>0, <1>1, <1>6 DEF StreamTypeOK
  <2>3. OneStream' /\ EndsInv'
    BY <1>0, <1>1, <1>2, <1>3, <1>6 DEF OneStream, EndsInv
  <2>4. WrappersMark'
    BY <1>1, <1>6, WrappersRest
  <2>5. PayloadsCount'
    BY <1>0, <1>1, <1>2, <1>6 DEF PayloadsCount
  <2>. QED
    BY <2>2, <2>3, <2>4, <2>5 DEF StreamInv
<1>7. CASE relay = "open"
  BY <1>1, <1>4, <1>5, <1>7
<1>8. CASE relay = "reopen"
  BY <1>1, <1>4, <1>6, <1>8
<1>. QED
  BY <1>1, <1>7, <1>8

-----------------------------------------------------------------------------
(* StreamRelay: the theorems.                                              *)

\* In every state of StreamRelay the relay accounts for each payload it took of the one
\* stream it reads, a stream is marked once, and an end that is told is the stream's.
THEOREM StreamInvariance == StreamSpec => []StreamInv
<1>1. StreamInit => StreamInv
  <2>. SUFFICES ASSUME StreamInit PROVE StreamInv
    OBVIOUS
  <2>1. NotOpened \in WrapRecord /\ <<>> \in Results /\ 0 \in 0..MaxChunks /\ MaxRetries \in Nat
        /\ 0 \in 0..(MaxRetries + 1) /\ 0 \in 0..MaxRetries
    <3>1. <<>> \in [1..0 -> {"success", "failure"}]
      OBVIOUS
    <3>. QED
      BY <3>1, StreamAssumption DEF NotOpened, WrapRecord, Results
  <2>2. StreamTypeOK
    BY <2>1 DEF StreamInit, StreamTypeOK, WrapRecord, Results
  <2>3. OneStream /\ EndsInv /\ WrappersMark /\ PayloadsCount
    BY StreamAssumption DEF StreamInit, OneStream, EndsInv, WrappersMark, PayloadsCount, Got, NotOpened, Streams
  <2>. QED
    BY <2>2, <2>3 DEF StreamInv
<1>2. StreamInv /\ [StreamNext]_streamVars => StreamInv'
  <2>. SUFFICES ASSUME StreamInv, [StreamNext]_streamVars PROVE StreamInv'
    OBVIOUS
  <2>1. CASE \E s \in Streams : Wrapper(s)
    BY <2>1, WrapperStep
  <2>2. CASE Relay
    BY <2>2, OpenStep, ReadStep, PayloadStep, RelayEndsStep DEF Relay
  <2>3. CASE Writer \/ Disconnect \/ Cancel
    BY <2>3, WriteStep, EndingStep DEF Writer
  <2>4. CASE UNCHANGED streamVars
    <3>1. UNCHANGED <<opened, wrap, marks, relay, sentPayload, bootstrapRetries, errs, dataClosed,
                      writer, written, left, gone, cancelled>>
      BY <2>4 DEF streamVars
    <3>2. StreamTypeOK' /\ OneStream' /\ EndsInv'
      BY <3>1 DEF StreamInv, StreamTypeOK, OneStream, EndsInv, Got
    <3>3. WrappersMark' /\ PayloadsCount'
      BY <3>1 DEF StreamInv, WrappersMark, PayloadsCount, Got, Held, Whole
    <3>. QED
      BY <3>2, <3>3 DEF StreamInv
  <2>. QED
    BY <2>1, <2>2, <2>3, <2>4 DEF StreamNext
<1>. QED
  BY <1>1, <1>2, PTL DEF StreamSpec

\* Whatever is retried, the client gets bytes of one upstream stream only, and a
\* response that ends as complete is the whole of a stream that was marked a success.
THEOREM StreamsAreWhole == StreamSpec => []StreamIsWhole
<1>1. StreamInv => StreamIsWhole
  BY DEF StreamInv, OneStream, PayloadsCount, Whole, StreamIsWhole
<1>. QED
  BY <1>1, StreamInvariance, PTL

\* An upstream stream the relay turned away from: it failed, and its wrapper offers
\* nothing more.
GivenUp(s) == wrap[s].failed /\ wrap[s].pc \in {"read", "done"}

\* The relay turns to another stream only after an error, the handler's end cancels the
\* context, and the relay ends in front of a handler with an error or the end of the data.
StreamTurns ==
    /\ writer \in {"done", "error", "gone"} => cancelled
    /\ relay \in {"firstError", "error", "reopen"} => GivenUp(opened)
    /\ \A s \in Streams : s < opened => GivenUp(s)
    /\ Active /\ relay = "ended" => dataClosed \/ errs.full

\* A stream that was given up stays so, whatever its wrapper does.
LEMMA WrapperTurns ==
    ASSUME StreamInv, StreamTurns, NEW s \in Streams, Wrapper(s)
    PROVE  StreamTurns'
<1>1. wrap' \in [Streams -> WrapRecord] /\ \A t \in Streams \ {s} : wrap'[t] = wrap[t]
  BY StreamFacts, WrapperFacts
<1>2. \A t \in Streams : GivenUp(t) => GivenUp(t)'
  <2>. SUFFICES ASSUME NEW t \in Streams, GivenUp(t) PROVE GivenUp(t)'
    OBVIOUS
  <2>1. CASE t # s
    BY <1>1, <2>1 DEF GivenUp
  <2>2. CASE t = s
    <3>1. wrap[s].failed /\ wrap[s].pc \in {"read", "done"}
      BY <2>2 DEF GivenUp
    <3>2. wrap' = [wrap EXCEPT ![s] = [wrap[s] EXCEPT !.pc = "done"]]
      BY <3>1 DEF Wrapper, WrapData, WrapError, WrapClose, WrapGiveUp, Wrapping
    <3>3. wrap'[s].failed /\ wrap'[s].pc \in {"read", "done"}
      BY <3>1, <3>2, StreamFacts DEF WrapRecord
    <3>. QED
      BY <2>2, <3>3 DEF GivenUp
  <2>. QED
    BY <2>1, <2>2
<1>3. UNCHANGED <<opened, relay, errs, dataClosed, writer, cancelled>>
  BY DEF Wrapper
<1>4. relay \in {"firstError", "error", "reopen"} => opened \in Streams
  BY StreamFacts DEF OneStream
<1>. QED
  BY <1>2, <1>3, <1>4 DEF StreamTurns, Active

\* A chunk that is an error gives the stream up.
LEMMA ErrorTaken ==
    ASSUME StreamInv, opened \in Streams, wrap[opened].pc = "error",
           Wrapping(opened, Taken(opened)), UNCHANGED opened
    PROVE  GivenUp(opened)'  /\ \A s \in Streams : s # opened => wrap'[s] = wrap[s]
<1>1. /\ wrap \in [Streams -> WrapRecord] /\ wrap[opened].failed
      /\ wrap' = [wrap EXCEPT ![opened] = Taken(opened)]
  BY StreamFacts DEF WrappersMark, Wrapping
<1>2. Taken(opened).failed /\ Taken(opened).pc \in {"read", "done"}
  <2>1. wrap[opened] \in WrapRecord
    BY <1>1
  <2>2. CASE wrap[opened] = ErrorOnly
    <3>1. Taken(opened) = [ErrorOnly EXCEPT !.pc = "done"]
      BY <2>2 DEF Taken, ErrorOnly
    <3>. QED
      BY <3>1 DEF ErrorOnly
  <2>3. CASE wrap[opened] # ErrorOnly
    <3>1. Taken(opened) = [wrap[opened] EXCEPT !.pc = "read"]
      BY <2>3 DEF Taken
    <3>. QED
      BY <1>1, <2>1, <3>1 DEF WrapRecord
  <2>. QED
    BY <2>2, <2>3
<1>. QED
  BY <1>1, <1>2 DEF GivenUp

\* The relay opens a stream at the start, or in place of one it gave up.
LEMMA OpenTurns == ASSUME StreamInv, StreamTurns, Open \/ Reopen PROVE StreamTurns'
<1>0. /\ wrap \in [Streams -> WrapRecord] /\ opened \in Nat
      /\ (opened > 0 => opened \in Streams)
      /\ OneStream /\ EndsInv
  BY StreamFacts
<1>1. UNCHANGED <<dataClosed, cancelled>> /\ relay \in {"open", "reopen"}
  BY DEF Open, Reopen
<1>2. \A s \in Streams : s <= opened => GivenUp(s)
  <2>1. relay = "reopen" => GivenUp(opened)
    BY DEF StreamTurns
  <2>2. \A s \in Streams : s \in Nat /\ s >= 1
    BY DEF Streams
  <2>3. relay = "open" => opened = 0
    BY <1>0 DEF OneStream
  <2>. QED
    BY <1>0, <1>1, <2>1, <2>2, <2>3 DEF StreamTurns
<1>3. CASE /\ \E w \in {Reading, ErrorOnly} : Wrapping(opened + 1, w)
           /\ opened' = opened + 1 /\ relay' \in {"first", "next"} /\ UNCHANGED <<errs, writer>>
  <2>1. \A s \in Streams : s <= opened => wrap'[s] = wrap[s]
    BY <1>0, <1>3 DEF Wrapping, Streams
  <2>2. \A s \in Streams : s < opened' => GivenUp(s)'
    BY <1>0, <1>2, <1>3, <2>1 DEF GivenUp, Streams
  <2>. QED
    BY <1>1, <1>3, <2>2 DEF StreamTurns, Active
<1>4. CASE OpenFails
  <2>1. UNCHANGED <<opened, wrap>> /\ relay' = "ended" /\ writer' = "peek" /\ errs'.full
    BY <1>4 DEF OpenFails
  <2>. QED
    BY <1>1, <2>1 DEF StreamTurns, GivenUp
<1>5. CASE relay' = "sendErr" /\ UNCHANGED <<opened, wrap, errs, writer>>
  BY <1>1, <1>5 DEF StreamTurns, GivenUp, Active
<1>6. \/ /\ \E w \in {Reading, ErrorOnly} : Wrapping(opened + 1, w)
         /\ opened' = opened + 1 /\ relay' \in {"first", "next"} /\ UNCHANGED <<errs, writer>>
      \/ OpenFails
      \/ relay' = "sendErr" /\ UNCHANGED <<opened, wrap, errs, writer>>
  BY DEF Open, Reopen, Opening
<1>. QED
  BY <1>3, <1>4, <1>5, <1>6

\* It reads: an error it takes gives the stream up.
LEMMA ReadTurns == ASSUME StreamInv, StreamTurns, First \/ Next PROVE StreamTurns'
<1>0. /\ opened \in Nat /\ opened \in Streams
      /\ UNCHANGED <<opened, errs, dataClosed, cancelled>>
  <2>1. relay \in {"first", "firstData", "firstError", "next"}
    BY DEF First, Next
  <2>. QED
    BY <2>1, StreamFacts DEF First, Next, OneStream
<1>1. writer' \in {"done", "error", "gone"} => cancelled
  BY DEF First, Next, StreamTurns
<1>2. relay' # "ended" /\ relay' # "reopen"
  BY DEF First, Next
<1>3. CASE wrap' = wrap /\ (relay' \in {"firstError", "error"} => relay = "firstError")
  BY <1>0, <1>1, <1>2, <1>3 DEF StreamTurns, GivenUp
<1>4. CASE wrap[opened].pc = "error" /\ Wrapping(opened, Taken(opened))
  <2>1. GivenUp(opened)' /\ \A s \in Streams : s # opened => wrap'[s] = wrap[s]
    BY <1>0, <1>4, ErrorTaken
  <2>2. \A s \in Streams : s < opened => GivenUp(s)'
    BY <1>0, <2>1 DEF StreamTurns, GivenUp, Streams
  <2>. QED
    BY <1>0, <1>1, <1>2, <2>1, <2>2 DEF StreamTurns
<1>5. CASE Wrapping(opened, Taken(opened)) /\ relay' \notin {"firstError", "error"}
  <2>1. wrap \in [Streams -> WrapRecord]
    BY StreamFacts
  <2>2. \A s \in Streams : s < opened => GivenUp(s)'
    BY <1>0, <1>5, <2>1 DEF StreamTurns, GivenUp, Streams, Wrapping
  <2>. QED
    BY <1>0, <1>1, <1>2, <1>5, <2>2 DEF StreamTurns
<1>6. \/ wrap' = wrap /\ (relay' \in {"firstError", "error"} => relay = "firstError")
      \/ wrap[opened].pc = "error" /\ Wrapping(opened, Taken(opened))
      \/ Wrapping(opened, Taken(opened)) /\ relay' \notin {"firstError", "error"}
  BY DEF First, Next
<1>. QED
  BY <1>3, <1>4, <1>5, <1>6

\* No other step of the relay turns to another stream.
LEMMA RelayTurns ==
    ASSUME StreamInv, StreamTurns, Payload \/ Failed \/ SendErr \/ Finish
    PROVE  StreamTurns'
<1>1. /\ UNCHANGED <<opened, wrap, writer, cancelled>>
      /\ relay' \notin {"firstError", "error"} /\ (relay' = "reopen" => relay = "error")
      /\ relay' = "ended" => dataClosed'
  BY DEF Payload, Failed, SendErr, Finish
<1>. QED
  BY <1>1 DEF StreamTurns, GivenUp, Active

\* The handler's last step cancels the context.
LEMMA HandlerTurns ==
    ASSUME StreamInv, StreamTurns, Writer \/ Disconnect \/ Cancel
    PROVE  StreamTurns'
<1>1. CASE Write
  <2>1. UNCHANGED <<opened, wrap, cancelled>> /\ relay' = "next" /\ writer' = "forward"
    BY <1>1 DEF Write
  <2>. QED
    BY <2>1 DEF StreamTurns, GivenUp
<1>2. CASE WriteError \/ WriteDone \/ Leave
  <2>1. /\ UNCHANGED <<opened, wrap, relay>> /\ cancelled'
        /\ writer' \in {"done", "error", "gone"}
    BY <1>2 DEF WriteError, WriteDone, Leave, Ending
  <2>. QED
    BY <2>1 DEF StreamTurns, GivenUp, Active
<1>3. CASE Disconnect \/ Cancel
  <2>1. UNCHANGED <<opened, wrap, relay, errs, dataClosed, writer>> /\ (cancelled => cancelled')
    BY <1>3 DEF Disconnect, Cancel
  <2>. QED
    BY <2>1 DEF StreamTurns, GivenUp, Active
<1>. QED
  BY <1>1, <1>2, <1>3 DEF Writer

\* Nobody waits alone: a payload the relay offers meets the handler or the end of the
\* context, only the stream the relay reads has a chunk to offer, and the handler finds
\* an error or the end of the data once the relay has ended.
THEOREM NobodyLeftAlone == StreamSpec => []NobodyWaitsAlone
<1>1. StreamInit => StreamTurns
  BY DEF StreamInit, StreamTurns, Streams
<1>2. StreamInv /\ StreamTurns /\ [StreamNext]_streamVars => StreamTurns'
  <2>. SUFFICES ASSUME StreamInv, StreamTurns, [StreamNext]_streamVars PROVE StreamTurns'
    OBVIOUS
  <2>1. CASE \E s \in Streams : Wrapper(s)
    BY <2>1, WrapperTurns
  <2>2. CASE Relay
    BY <2>2, OpenTurns, ReadTurns, RelayTurns DEF Relay
  <2>3. CASE Writer \/ Disconnect \/ Cancel
    BY <2>3, HandlerTurns
  <2>4. CASE UNCHANGED streamVars
    BY <2>4 DEF streamVars, StreamTurns, GivenUp, Active
  <2>. QED
    BY <2>1, <2>2, <2>3, <2>4 DEF StreamNext
<1>3. StreamInv /\ StreamTurns => NobodyWaitsAlone
  <2>. SUFFICES ASSUME StreamInv, StreamTurns PROVE NobodyWaitsAlone
    OBVIOUS
  <2>0. /\ EndsInv /\ OneStream /\ opened \in Nat
        /\ writer \in {"none", "peek", "forward", "done", "error", "gone"}
    BY StreamFacts, StreamTypes
  <2>1. relay \in {"open", "first"} \/ Active \/ cancelled
    BY <2>0 DEF EndsInv, StreamTurns, Active
  <2>2. ASSUME NEW s \in Streams, wrap[s].pc \in {"data", "error"}
        PROVE  s = opened /\ (relay = "first" \/ Active \/ cancelled)
    <3>1. ~GivenUp(s)
      BY <2>2 DEF GivenUp
    <3>2. ~(s < opened)
      BY <3>1 DEF StreamTurns
    <3>3. ~(s > opened)
      BY <2>0, <2>2 DEF OneStream, NotOpened
    <3>4. s = opened /\ s # 0
      BY <2>0, <3>2, <3>3 DEF Streams
    <3>5. relay # "open"
      BY <2>0, <3>4 DEF OneStream
    <3>. QED
      BY <2>1, <3>4, <3>5
  <2>. QED
    BY <2>1, <2>2 DEF NobodyWaitsAlone, StreamTurns
<1>. QED
  BY <1>1, <1>2, <1>3, StreamInvariance, PTL DEF StreamSpec

-----------------------------------------------------------------------------
(* AuthUpdates: sequences of updates.                                      *)

\* One update for each auth at most.
Once(us) == \A i, j \in DOMAIN us : us[i].id = us[j].id => i = j
Alone(S) == IsFiniteSet(S) /\ \A u, v \in S : u.id = v.id => u = v

\* Among us is one of a; those of a, or the last one of them, have content c.
Has(us, a) == \E i \in DOMAIN us : us[i].id = a
Says(us, a, c) == \A i \in DOMAIN us : us[i].id = a => us[i].content = c
LastSays(us, a, c) ==
    \A i \in DOMAIN us :
        us[i].id = a /\ (\A j \in DOMAIN us : j > i => us[j].id # a) => us[i].content = c

LEMMA TailIs ==
    ASSUME NEW us \in Seq(Updates), us # <<>>
    PROVE  /\ Head(us) \in Updates /\ Tail(us) \in Seq(Updates)
           /\ Once(us) => Once(Tail(us)) /\ ~Has(Tail(us), Head(us).id)
           /\ \A a : Has(us, a) <=> (Head(us).id = a \/ Has(Tail(us), a))
           /\ \A a, c : Says(us, a, c) => Says(Tail(us), a, c) /\ (Head(us).id = a => Head(us).content = c)
           /\ \A a, c : LastSays(us, a, c) =>
                 /\ LastSays(Tail(us), a, c)
                 /\ Head(us).id = a /\ ~Has(Tail(us), a) => Head(us).content = c
<1>. DEFINE ts == Tail(us)
<1>1. /\ Len(us) \in Nat \ {0} /\ us = [i \in 1..Len(us) |-> us[i]] /\ DOMAIN us = 1..Len(us)
      /\ Head(us) = us[1] /\ us[1] \in Updates
      /\ ts \in Seq(Updates) /\ Len(ts) = Len(us) - 1 /\ DOMAIN ts = 1..Len(ts)
      /\ \A i \in 1..Len(ts) : ts[i] = us[i + 1]
  OBVIOUS
<1>. HIDE DEF ts
<1>2. 1 \in DOMAIN us /\ \A i \in DOMAIN ts : i \in Nat /\ i + 1 \in DOMAIN us /\ ts[i] = us[i + 1]
  BY <1>1
<1>3. \A i \in DOMAIN us : i = 1 \/ (i - 1 \in DOMAIN ts /\ us[i] = ts[i - 1])
  BY <1>1
<1>4. Once(us) => Once(ts) /\ ~Has(ts, Head(us).id)
  <2>1. ASSUME Once(us) PROVE Once(ts)
    <3>1. \A i, j \in DOMAIN ts : ts[i].id = ts[j].id => i + 1 = j + 1
      BY <1>2, <2>1 DEF Once
    <3>. QED
      BY <1>2, <3>1 DEF Once
  <2>2. ASSUME Once(us) PROVE ~Has(ts, Head(us).id)
    <3>1. ASSUME NEW i \in DOMAIN ts, ts[i].id = Head(us).id PROVE FALSE
      <4>1. i + 1 = 1
        BY <1>1, <1>2, <2>2, <3>1 DEF Once
      <4>. QED
        BY <1>1, <4>1
    <3>. QED
      BY <3>1 DEF Has
  <2>. QED
    BY <2>1, <2>2
<1>5. ASSUME NEW a PROVE Has(us, a) <=> (Head(us).id = a \/ Has(ts, a))
  BY <1>1, <1>2, <1>3 DEF Has
<1>6. ASSUME NEW a, NEW c, Says(us, a, c)
      PROVE  Says(ts, a, c) /\ (Head(us).id = a => Head(us).content = c)
  BY <1>1, <1>2, <1>6 DEF Says
<1>7. ASSUME NEW a, NEW c, LastSays(us, a, c)
      PROVE  /\ LastSays(ts, a, c)
             /\ Head(us).id = a /\ ~Has(ts, a) => Head(us).content = c
  <2>1. ASSUME NEW i \in DOMAIN ts, ts[i].id = a, \A j \in DOMAIN ts : j > i => ts[j].id # a
        PROVE  ts[i].content = c
    <3>1. ASSUME NEW j \in DOMAIN us, j > i + 1 PROVE us[j].id # a
      <4>1. j # 1 /\ j - 1 > i
        BY <1>1, <1>2, <3>1
      <4>. QED
        BY <1>3, <2>1, <4>1
    <3>. QED
      BY <1>2, <1>7, <2>1, <3>1 DEF LastSays
  <2>2. ASSUME Head(us).id = a, ~Has(ts, a) PROVE Head(us).content = c
    <3>1. ASSUME NEW j \in DOMAIN us, j > 1 PROVE us[j].id # a
      BY <1>3, <2>2, <3>1 DEF Has
    <3>. QED
      BY <1>1, <1>2, <1>7, <2>2, <3>1 DEF LastSays
  <2>. QED
    BY <2>1, <2>2 DEF LastSays
<1>. QED
  BY <1>1, <1>4, <1>5, <1>6, <1>7 DEF ts

LEMMA AppendIs ==
    ASSUME NEW us \in Seq(Updates), NEW u \in Updates
    PROVE  /\ Append(us, u) \in Seq(Updates)
           /\ \A a : Has(Append(us, u), a) <=> (u.id = a \/ Has(us, a))
           /\ \A a, c : LastSays(us, a, c) /\ u.id # a => LastSays(Append(us, u), a, c)
           /\ \A a : LastSays(Append(us, u), u.id, u.content)
           /\ Once(us) /\ ~Has(us, u.id) => Once(Append(us, u))
           /\ \A a, c : Says(us, a, c) /\ (u.id = a => u.content = c) => Says(Append(us, u), a, c)
<1>. DEFINE vs == Append(us, u)
            n == Len(us) + 1
<1>1. /\ vs \in Seq(Updates) /\ Len(us) \in Nat /\ n \in Nat /\ vs[n] = u
      /\ DOMAIN us = 1..Len(us) /\ DOMAIN vs = 1..n
      /\ \A i \in 1..Len(us) : vs[i] = us[i]
  OBVIOUS
<1>2. \A i \in DOMAIN us : i \in DOMAIN vs /\ vs[i] = us[i] /\ i < n
  BY <1>1
<1>3. n \in DOMAIN vs /\ \A i \in DOMAIN vs : i = n \/ i \in DOMAIN us
  BY <1>1
<1>. HIDE DEF vs, n
<1>4. ASSUME NEW a PROVE Has(vs, a) <=> (u.id = a \/ Has(us, a))
  BY <1>1, <1>2, <1>3 DEF Has
<1>5. ASSUME NEW a, NEW c, LastSays(us, a, c), u.id # a PROVE LastSays(vs, a, c)
  <2>1. ASSUME NEW i \in DOMAIN vs, vs[i].id = a, \A j \in DOMAIN vs : j > i => vs[j].id # a
        PROVE  vs[i].content = c
    <3>1. i \in DOMAIN us /\ vs[i] = us[i]
      BY <1>1, <1>2, <1>3, <1>5, <2>1
    <3>2. \A j \in DOMAIN us : j > i => us[j].id # a
      BY <1>2, <2>1
    <3>. QED
      BY <1>5, <2>1, <3>1, <3>2 DEF LastSays
  <2>. QED
    BY <2>1 DEF LastSays
<1>6. LastSays(vs, u.id, u.content)
  <2>1. ASSUME NEW i \in DOMAIN vs, \A j \in DOMAIN vs : j > i => vs[j].id # u.id
        PROVE  i = n
    BY <1>1, <1>2, <1>3, <2>1
  <2>. QED
    BY <1>1, <2>1 DEF LastSays
<1>7. ASSUME Once(us), ~Has(us, u.id) PROVE Once(vs)
  BY <1>1, <1>2, <1>3, <1>7 DEF Once, Has
<1>8. ASSUME NEW a, NEW c, Says(us, a, c), u.id = a => u.content = c PROVE Says(vs, a, c)
  BY <1>1, <1>2, <1>3, <1>8 DEF Says
<1>. QED
  BY <1>1, <1>4, <1>5, <1>6, <1>7, <1>8 DEF vs

LEMMA ConcatIs ==
    ASSUME NEW s \in Seq(Updates), NEW t \in Seq(Updates)
    PROVE  /\ s \o t \in Seq(Updates) /\ Len(s) \in Nat /\ Len(t) \in Nat
           /\ DOMAIN s = 1..Len(s) /\ DOMAIN t = 1..Len(t)
           /\ DOMAIN (s \o t) = 1..(Len(s) + Len(t))
           /\ \A i \in 1..Len(s) : (s \o t)[i] = s[i]
           /\ \A i \in 1..Len(t) : (s \o t)[Len(s) + i] = t[i]
OBVIOUS

LEMMA ConcatHas ==
    ASSUME NEW s \in Seq(Updates), NEW t \in Seq(Updates), NEW a
    PROVE  Has(s \o t, a) <=> Has(s, a) \/ Has(t, a)
<1>1. /\ Len(s) \in Nat /\ Len(t) \in Nat /\ DOMAIN s = 1..Len(s) /\ DOMAIN t = 1..Len(t)
      /\ DOMAIN (s \o t) = 1..(Len(s) + Len(t))
      /\ \A i \in 1..Len(s) : (s \o t)[i] = s[i]
      /\ \A i \in 1..Len(t) : (s \o t)[Len(s) + i] = t[i]
  BY ConcatIs
<1>. DEFINE st == s \o t
<1>. HIDE DEF st
<1>2. ASSUME Has(st, a) PROVE Has(s, a) \/ Has(t, a)
  <2>1. PICK i \in DOMAIN st : st[i].id = a
    BY <1>2 DEF Has
  <2>2. CASE i <= Len(s)
    BY <1>1, <2>1, <2>2 DEF Has, st
  <2>3. CASE i > Len(s)
    <3>1. i - Len(s) \in DOMAIN t /\ Len(s) + (i - Len(s)) = i
      BY <1>1, <2>1, <2>3 DEF st
    <3>2. t[i - Len(s)].id = a
      BY <1>1, <2>1, <3>1 DEF st
    <3>. QED
      BY <3>1, <3>2 DEF Has
  <2>. QED
    BY <1>1, <2>1, <2>2, <2>3 DEF st
<1>3. ASSUME Has(s, a) PROVE Has(st, a)
  BY <1>1, <1>3 DEF Has, st
<1>4. ASSUME Has(t, a) PROVE Has(st, a)
  <2>1. PICK i \in DOMAIN t : t[i].id = a
    BY <1>4 DEF Has
  <2>2. Len(s) + i \in DOMAIN st /\ st[Len(s) + i] = t[i]
    BY <1>1, <2>1 DEF st
  <2>. QED
    BY <2>1, <2>2 DEF Has
<1>. QED
  BY <1>2, <1>3, <1>4 DEF st

\* Of the updates that are merged, the last one of each auth is kept.
LEMMA MergedIs ==
    ASSUME NEW us \in Seq(Updates), Once(us), NEW u \in Updates
    PROVE  /\ Merged(us, u) \in Seq(Updates) /\ Once(Merged(us, u))
           /\ \A a : Has(Merged(us, u), a) <=> (u.id = a \/ Has(us, a))
           /\ Says(Merged(us, u), u.id, u.content)
           /\ \A a, c : Says(us, a, c) /\ u.id # a => Says(Merged(us, u), a, c)
<1>1. CASE Has(us, u.id)
  <2>. DEFINE k == Place(us, u)
              vs == [us EXCEPT ![k] = u]
  <2>1. k \in DOMAIN us /\ us[k].id = u.id
    BY <1>1 DEF Place, Has
  <2>2. k # 0
    BY <2>1
  <2>3. Merged(us, u) = vs
    BY <2>2 DEF Merged
  <2>. HIDE DEF k
  <2>4. /\ vs \in Seq(Updates) /\ DOMAIN vs = DOMAIN us /\ vs[k] = u
        /\ \A i \in DOMAIN us : i # k => vs[i] = us[i]
        /\ \A i \in DOMAIN us : vs[i].id = us[i].id
    BY <2>1
  <2>. HIDE DEF vs
  <2>5. Once(vs)
    BY <2>4 DEF Once
  <2>6. \A a : Has(vs, a) <=> (u.id = a \/ Has(us, a))
    BY <2>1, <2>4 DEF Has
  <2>7. Says(vs, u.id, u.content)
    BY <2>1, <2>4 DEF Says, Once
  <2>8. \A a, c : Says(us, a, c) /\ u.id # a => Says(vs, a, c)
    BY <2>1, <2>4 DEF Says
  <2>. QED
    BY <2>3, <2>4, <2>5, <2>6, <2>7, <2>8
<1>2. CASE ~Has(us, u.id)
  <2>1. Merged(us, u) = Append(us, u)
    BY <1>2 DEF Merged, Place, Has
  <2>2. Says(us, u.id, u.content)
    BY <1>2 DEF Says, Has
  <2>. QED
    BY <1>2, <2>1, <2>2, AppendIs
<1>. QED
  BY <1>1, <1>2

\* The sequence of a set has each of its elements once.
LEMMA SetToSeqIs ==
    ASSUME NEW S, IsFiniteSet(S)
    PROVE  /\ SetToSeq(S) \in [1..Cardinality(S) -> S] /\ Cardinality(S) \in Nat
           /\ \A i, j \in 1..Cardinality(S) : SetToSeq(S)[i] = SetToSeq(S)[j] => i = j
           /\ \A u \in S : \E i \in 1..Cardinality(S) : SetToSeq(S)[i] = u
<1>. DEFINE n == Cardinality(S)
            f == SetToSeq(S)
<1>1. n \in Nat
  BY FS_CardinalityType
<1>2. IsFiniteSet(1..n) /\ Cardinality(1..n) = n
  <2>1. 1 \in Int /\ n \in Int
    BY <1>1
  <2>. HIDE DEF n
  <2>2. IsFiniteSet(1..n) /\ Cardinality(1..n) = IF 1 > n THEN 0 ELSE n - 1 + 1
    BY <2>1, FS_Interval
  <2>. QED
    BY <1>1, <2>2
<1>3. ExistsBijection(1..n, S)
  BY <1>2, FS_SameCardinalityBij
<1>4. \E g \in [1..n -> S] : IsInjective(g)
  BY <1>3 DEF ExistsBijection, Bijection, Injection
<1>5. f \in [1..n -> S] /\ IsInjective(f)
  BY <1>4 DEF SetToSeq
<1>. HIDE DEF f
<1>6. \A u \in S : \E i \in 1..n : f[i] = u
  <2>. DEFINE T == {f[i] : i \in 1..n}
  <2>1. T \in SUBSET S
    BY <1>5
  <2>2. f \in Bijection(1..n, T)
    BY <1>5 DEF Bijection, Injection, Surjection
  <2>3. Cardinality(T) = n
    <3>. HIDE DEF n, T
    <3>. QED
      BY <1>2, <2>2, FS_Bijection DEF ExistsBijection
  <2>4. T = S
    BY <2>1, <2>3, FS_Subset
  <2>. QED
    BY <2>4
<1>. QED
  BY <1>1, <1>5, <1>6 DEF IsInjective, f

\* What several updates that are handed on at once do to those that wait.
LEMMA EnqueuedIs ==
    ASSUME pending \in Seq(Updates), Once(pending), NEW S \in SUBSET Updates, Alone(S)
    PROVE  /\ Enqueued(S) \in Seq(Updates) /\ Once(Enqueued(S))
           /\ \A u \in S : Has(Enqueued(S), u.id) /\ Says(Enqueued(S), u.id, u.content)
           /\ \A a : (\A u \in S : u.id # a) =>
                 /\ Has(Enqueued(S), a) <=> Has(pending, a)
                 /\ \A c : Says(pending, a, c) => Says(Enqueued(S), a, c)
<1>. DEFINE waiting == {pending[i].id : i \in DOMAIN pending}
            first == [i \in DOMAIN pending |-> UpdateOf(S, pending[i].id, pending[i])]
            rest == {u \in S : u.id \notin waiting}
            more == SetToSeq(rest)
            es == first \o more
            m == Len(pending)
            n == Cardinality(rest)
<1>1. /\ \A e : \A u \in S : UpdateOf(S, u.id, e) = u
      /\ \A a, e : (\A u \in S : u.id # a) => UpdateOf(S, a, e) = e
  BY DEF UpdateOf, Alone
<1>2. m \in Nat /\ DOMAIN pending = 1..m /\ \A i \in 1..m : pending[i] \in Updates
  OBVIOUS
<1>3. \A i \in 1..m : first[i] \in Updates /\ first[i].id = pending[i].id
  <2>. SUFFICES ASSUME NEW i \in 1..m PROVE first[i] \in Updates /\ first[i].id = pending[i].id
    OBVIOUS
  <2>1. first[i] = UpdateOf(S, pending[i].id, pending[i])
    BY <1>2
  <2>2. CASE \E u \in S : u.id = pending[i].id
    BY <1>1, <2>1, <2>2
  <2>3. CASE \A u \in S : u.id # pending[i].id
    BY <1>1, <1>2, <2>1, <2>3
  <2>. QED
    BY <2>2, <2>3
<1>4. first \in Seq(Updates) /\ Len(first) = m
  <2>1. DOMAIN first = 1..m
    BY <1>2
  <2>. QED
    BY <1>2, <1>3, <2>1
<1>5. /\ n \in Nat /\ more \in [1..n -> rest]
      /\ \A i, j \in 1..n : more[i] = more[j] => i = j
      /\ \A u \in rest : \E i \in 1..n : more[i] = u
  <2>1. IsFiniteSet(rest)
    BY FS_Subset DEF Alone
  <2>. QED
    BY <2>1, SetToSeqIs
<1>6. \A u \in rest : u \in S /\ u \in Updates /\ u.id \notin waiting
  OBVIOUS
<1>7. \A i \in 1..m : pending[i].id \in waiting
  BY <1>2
<1>. HIDE DEF waiting, rest
<1>8. more \in Seq(Updates) /\ Len(more) = n
  BY <1>5, <1>6
<1>9. \A i \in 1..m : first[i] = UpdateOf(S, pending[i].id, pending[i])
  BY <1>2
<1>10. Enqueued(S) = es
  BY DEF Enqueued, waiting, rest
<1>. HIDE DEF first, more, m, n
<1>11. /\ es \in Seq(Updates) /\ DOMAIN es = 1..(m + n)
       /\ \A i \in 1..m : es[i] = first[i]
       /\ \A i \in 1..n : es[m + i] = more[i]
  <2>1. /\ es \in Seq(Updates) /\ DOMAIN es = 1..(Len(first) + Len(more))
        /\ \A i \in 1..Len(first) : es[i] = first[i]
        /\ \A i \in 1..Len(more) : es[Len(first) + i] = more[i]
    BY <1>4, <1>8, ConcatIs
  <2>. HIDE DEF es
  <2>. QED
    BY <1>4, <1>8, <2>1
<1>. HIDE DEF es
<1>12. \A i \in DOMAIN es : \/ i \in 1..m /\ es[i] = first[i]
                            \/ i - m \in 1..n /\ es[i] = more[i - m] /\ i \notin 1..m
  <2>. SUFFICES ASSUME NEW i \in DOMAIN es, i \notin 1..m
                PROVE  i - m \in 1..n /\ es[i] = more[i - m]
    BY <1>11
  <2>1. i - m \in 1..n /\ m + (i - m) = i
    BY <1>2, <1>5, <1>11
  <2>. QED
    BY <1>11, <2>1
<1>13. \A i \in 1..m : i \in DOMAIN es /\ i \in DOMAIN pending
  BY <1>2, <1>5, <1>11
<1>14. \A i \in 1..n : m + i \in DOMAIN es
  BY <1>2, <1>5, <1>11
<1>15. Once(es)
  <2>. SUFFICES ASSUME NEW i \in DOMAIN es, NEW j \in DOMAIN es, es[i].id = es[j].id PROVE i = j
    BY DEF Once
  <2>1. CASE i \in 1..m /\ j \in 1..m
    BY <1>3, <1>11, <1>13, <2>1 DEF Once
  <2>2. CASE i \in 1..m /\ j \notin 1..m
    <3>1. es[i].id \in waiting
      BY <1>3, <1>7, <1>11, <2>2
    <3>2. es[j].id \notin waiting
      BY <1>5, <1>6, <1>12, <2>2
    <3>. QED
      BY <3>1, <3>2
  <2>3. CASE i \notin 1..m /\ j \in 1..m
    <3>1. es[j].id \in waiting
      BY <1>3, <1>7, <1>11, <2>3
    <3>2. es[i].id \notin waiting
      BY <1>5, <1>6, <1>12, <2>3
    <3>. QED
      BY <3>1, <3>2
  <2>4. CASE i \notin 1..m /\ j \notin 1..m
    <3>1. /\ i - m \in 1..n /\ j - m \in 1..n /\ es[i] = more[i - m] /\ es[j] = more[j - m]
          /\ more[i - m] \in S /\ more[j - m] \in S
      BY <1>5, <1>6, <1>12, <2>4
    <3>2. more[i - m] = more[j - m]
      BY <3>1 DEF Alone
    <3>3. i - m = j - m
      BY <1>5, <3>1, <3>2
    <3>4. i \in Int /\ j \in Int
      BY <1>11
    <3>. QED
      BY <1>2, <3>3, <3>4
  <2>. QED
    BY <2>1, <2>2, <2>3, <2>4
<1>16. ASSUME NEW u \in S PROVE Has(es, u.id) /\ Says(es, u.id, u.content)
  <2>1. \E i \in DOMAIN es : es[i] = u
    <3>1. CASE u \in rest
      BY <1>5, <1>11, <1>14, <3>1
    <3>2. CASE u \notin rest
      <4>1. PICK i \in 1..m : pending[i].id = u.id
        BY <1>2, <3>2 DEF rest, waiting
      <4>2. es[i] = u
        <5>1. es[i] = UpdateOf(S, pending[i].id, pending[i])
          BY <1>9, <1>11
        <5>2. UpdateOf(S, u.id, pending[i]) = u
          BY <1>1
        <5>. QED
          BY <4>1, <5>1, <5>2
      <4>. QED
        BY <1>13, <4>2
    <3>. QED
      BY <3>1, <3>2
  <2>. QED
    BY <1>15, <2>1 DEF Has, Says, Once
<1>17. ASSUME NEW a, \A u \in S : u.id # a
       PROVE  /\ Has(es, a) <=> Has(pending, a)
              /\ \A c : Says(pending, a, c) => Says(es, a, c)
  <2>1. \A i \in 1..m : pending[i].id = a => es[i] = pending[i]
    BY <1>1, <1>9, <1>11, <1>17
  <2>2. \A i \in DOMAIN es : es[i].id = a => i \in 1..m /\ pending[i].id = a
    BY <1>3, <1>5, <1>6, <1>11, <1>12, <1>17
  <2>3. Has(es, a) <=> Has(pending, a)
    BY <1>2, <1>13, <2>1, <2>2 DEF Has
  <2>4. ASSUME NEW c, Says(pending, a, c) PROVE Says(es, a, c)
    BY <1>13, <2>1, <2>2, <2>4 DEF Says
  <2>. QED
    BY <2>3, <2>4
<1>. QED
  BY <1>10, <1>11, <1>15, <1>16, <1>17

-----------------------------------------------------------------------------
(* AuthUpdates: the invariant.                                             *)

\* The watcher's part: types, the event and the login in hand, and an update for
\* each auth at most among those that are handed on together.
WatchInv ==
    /\ file \in [Files -> {Absent} \cup Contents]
    /\ notices \in Seq([id: Files, removal: BOOLEAN])
    /\ recent \subseteq Files /\ known \subseteq Files
    /\ hash \in [Files -> {Absent} \cup Contents]
    /\ current \in [AuthIds -> {Absent, 1} \cup Contents]
    /\ runtime \subseteq Channels
    /\ at \in [Producers -> {"idle", "snapshot", "diff", "compute", "record",
                             "dispatch", "on", "gone"}]
    /\ held \in [Producers -> SUBSET Updates]
    /\ event \in [id: Files, content: Contents, old: BOOLEAN] \cup {NoEvent}
    /\ snap \in [Files -> {Absent} \cup Contents]
    /\ login \in [id: Files, content: Contents] \cup {NoSave}
    /\ stimuli \in 0..MaxStimuli
    /\ at["events"] = "compute" => event # NoEvent
    /\ at["login"] = "record" => login # NoSave
    /\ \A p \in Producers : Alone(held[p])

\* Where the last update that was handed on is: with the first of pending, batch,
\* queue and taken that has an update of the auth, or with the manager.
Chain(a) ==
    /\ Says(pending, a, said[a])
    /\ ~Has(pending, a) =>
        /\ Says(batch, a, said[a])
        /\ ~Has(batch, a) =>
            /\ LastSays(queue, a, said[a])
            /\ ~Has(queue, a) => /\ Says(taken, a, said[a])
                                 /\ ~Has(taken, a) => manager[a] = said[a]

\* The part of the dispatcher's loop and of the service.
PipeInv ==
    /\ pending \in Seq(Updates) /\ batch \in Seq(Updates)
    /\ queue \in Seq(Updates) /\ taken \in Seq(Updates)
    /\ Len(queue) <= QueueSize /\ draining \in BOOLEAN
    /\ asleep \in BOOLEAN /\ (asleep => pending = <<>>)
    /\ manager \in [AuthIds -> {Absent, 1} \cup Contents]
    /\ said \in [AuthIds -> {Absent, 1} \cup Contents]
    /\ Once(pending) /\ Once(batch) /\ Once(taken)
    /\ \A a \in AuthIds : Chain(a)

UpdatesInv == WatchInv /\ PipeInv

LEMMA UpdatesInvIs == UpdatesInv => UpdatesTypeOK /\ LastUpdateCounts
<1>. SUFFICES ASSUME UpdatesInv PROVE UpdatesTypeOK /\ LastUpdateCounts
  OBVIOUS
<1>1. UpdatesTypeOK
  BY DEF UpdatesInv, WatchInv, PipeInv, UpdatesTypeOK
<1>2. \A a \in AuthIds : Chain(a)
  BY DEF UpdatesInv, PipeInv
<1>3. ASSUME NEW a \in AuthIds, \A i \in DOMAIN Underway : Underway[i].id # a PROVE manager[a] = said[a]
  <2>1. ~Has(Underway, a)
    BY <1>3 DEF Has
  <2>2. /\ pending \in Seq(Updates) /\ batch \in Seq(Updates) /\ queue \in Seq(Updates)
        /\ taken \in Seq(Updates) /\ taken \o queue \in Seq(Updates)
        /\ taken \o queue \o batch \in Seq(Updates)
    BY DEF UpdatesInv, PipeInv
  <2>3. ~Has(taken \o queue \o batch, a) /\ ~Has(pending, a)
    BY <2>1, <2>2, ConcatHas DEF Underway
  <2>4. ~Has(taken \o queue, a) /\ ~Has(batch, a)
    BY <2>2, <2>3, ConcatHas
  <2>5. ~Has(taken, a) /\ ~Has(queue, a)
    BY <2>2, <2>4, ConcatHas
  <2>. QED
    BY <1>2, <2>3, <2>4, <2>5 DEF Chain
<1>4. asleep => pending = <<>>
  BY DEF UpdatesInv, PipeInv
<1>5. LastUpdateCounts
  BY <1>2, <1>3, <1>4 DEF LastUpdateCounts, Chain, Says
<1>. QED
  BY <1>1, <1>5

-----------------------------------------------------------------------------
(* AuthUpdates: the watcher's steps.                                       *)

LEMMA ProducersAre ==
    /\ {"events", "reload", "login"} \subseteq Producers /\ Channels \subseteq Producers
    /\ \A c \in Channels : c \notin {"events", "reload", "login"}
    /\ Files \subseteq AuthIds /\ Channels \subseteq AuthIds /\ IsFiniteSet(AuthIds)
<1>1. IsFiniteSet(Files \cup Channels)
  BY UpdatesAssumption, FS_Union
<1>. QED
  BY <1>1, UpdatesAssumption DEF Producers, AuthIds

LEMMA FewAlone == Alone({}) /\ \A u : Alone({u})
BY FS_EmptySet, FS_Singleton DEF Alone

LEMMA HandsIs ==
    ASSUME WatchInv, NEW p \in Producers, NEW us \in SUBSET Updates, Alone(us),
           NEW next \in {"idle", "on", "gone"}, Hands(p, us, next)
    PROVE  /\ held' \in [Producers -> SUBSET Updates] /\ \A q \in Producers : Alone(held'[q])
           /\ at' \in [Producers -> {"idle", "snapshot", "diff", "compute", "record",
                                     "dispatch", "on", "gone"}]
           /\ at'[p] \notin {"compute", "record"} /\ \A q \in Producers \ {p} : at'[q] = at[q]
<1>1. /\ held \in [Producers -> SUBSET Updates] /\ \A q \in Producers : Alone(held[q])
      /\ at \in [Producers -> {"idle", "snapshot", "diff", "compute", "record",
                               "dispatch", "on", "gone"}]
  BY DEF WatchInv
<1>2. held' = [held EXCEPT ![p] = us] /\ at' = [at EXCEPT ![p] = IF us = {} THEN next ELSE "dispatch"]
  BY DEF Hands, Goes
<1>3. \A q \in Producers : Alone(held'[q])
  BY <1>1, <1>2
<1>. QED
  BY <1>1, <1>2, <1>3

LEMMA PipeStays == ASSUME PipeInv, UNCHANGED pipeVars PROVE PipeInv'
BY DEF PipeInv, Chain, pipeVars

LEMMA FilesChange ==
    ASSUME WatchInv, NEW f \in Files, WriteFile(f) \/ RemoveFile(f) \/ Settle(f)
    PROVE  WatchInv' /\ UNCHANGED pipeVars
<1>1. CASE WriteFile(f)
  BY <1>1, UpdatesAssumption DEF WriteFile, WatchInv, Stimulus, Notice
<1>2. CASE RemoveFile(f)
  BY <1>2, UpdatesAssumption DEF RemoveFile, WatchInv, Stimulus, Notice
<1>3. CASE Settle(f)
  BY <1>3 DEF Settle, WatchInv
<1>. QED
  BY <1>1, <1>2, <1>3

LEMMA HandleEventKeeps == ASSUME WatchInv, HandleEvent PROVE WatchInv' /\ UNCHANGED pipeVars
<1>. DEFINE e == Head(notices)
            f == e.id
<1>1. /\ e \in [id: Files, removal: BOOLEAN] /\ notices' = Tail(notices)
      /\ notices' \in Seq([id: Files, removal: BOOLEAN]) /\ at["events"] = "idle"
      /\ recent' = IF e.removal THEN recent \cup {e.id} ELSE recent
      /\ UNCHANGED <<file, runtime, snap, login, pipeVars, stimuli>>
  <2>1. notices \in Seq([id: Files, removal: BOOLEAN]) /\ notices # <<>> /\ notices' = Tail(notices)
    BY DEF HandleEvent, WatchInv
  <2>. DEFINE Notices == [id: Files, removal: BOOLEAN]
  <2>2. e \in Notices /\ Tail(notices) \in Seq(Notices)
    <3>1. notices \in Seq(Notices) /\ notices # <<>>
      BY <2>1
    <3>. HIDE DEF Notices
    <3>. QED
      BY <3>1
  <2>3. /\ at["events"] = "idle" /\ recent' = IF e.removal THEN recent \cup {e.id} ELSE recent
        /\ UNCHANGED <<file, runtime, snap, login, pipeVars, stimuli>>
    BY DEF HandleEvent
  <2>. QED
    BY <2>1, <2>2, <2>3
<1>2. CASE ~Swallowed(e) /\ file[e.id] # Absent /\ file[e.id] # hash[e.id]
  <2>1. Note(f)
    BY <1>2 DEF HandleEvent
  <2>2. f \in Files /\ file[f] \in Contents
    BY <1>1, <1>2 DEF WatchInv
  <2>. HIDE DEF e, f
  <2>3. /\ hash' = [hash EXCEPT ![f] = file[f]]
        /\ event' = [id |-> f, content |-> file[f], old |-> f \in known]
        /\ at' = [at EXCEPT !["events"] = "compute"]
        /\ UNCHANGED <<known, current, held>>
    BY <2>1 DEF Note, Goes
  <2>4. event' \in [id: Files, content: Contents, old: BOOLEAN]
    BY <2>2, <2>3
  <2>5. event' # NoEvent
    BY <2>2, <2>3, UpdatesAssumption DEF NoEvent, Absent
  <2>6. at["login"] = at'["login"]
    BY <2>3, ProducersAre DEF WatchInv
  <2>. QED
    BY <1>1, <2>2, <2>3, <2>4, <2>5, <2>6, ProducersAre DEF WatchInv, e, f
<1>3. CASE /\ ~(~Swallowed(e) /\ file[e.id] # Absent /\ file[e.id] # hash[e.id])
           /\ ~Swallowed(e) /\ file[e.id] = Absent /\ e.removal /\ hash[e.id] # Absent
  <2>1. Forget(f)
    BY <1>3 DEF HandleEvent
  <2>2. f \in Files /\ f \in AuthIds
    BY <1>1, ProducersAre
  <2>. HIDE DEF e, f
  <2>3. hash' = [hash EXCEPT ![f] = Absent] /\ known' = known \ {f} /\ UNCHANGED event
    BY <2>1 DEF Forget
  <2>4. CASE f \in known
    <3>1. /\ current' = [current EXCEPT ![f] = Absent]
          /\ Hands("events", {[id |-> f, content |-> Absent]}, "idle")
      BY <2>1, <2>4 DEF Forget
    <3>2. {[id |-> f, content |-> Absent]} \in SUBSET Updates /\ "events" \in Producers
      BY <2>2, ProducersAre DEF Updates
    <3>3. /\ held' \in [Producers -> SUBSET Updates] /\ \A q \in Producers : Alone(held'[q])
          /\ at' \in [Producers -> {"idle", "snapshot", "diff", "compute", "record",
                                    "dispatch", "on", "gone"}]
          /\ at'["events"] # "compute" /\ at'["login"] = at["login"]
      BY <3>1, <3>2, HandsIs, FewAlone, ProducersAre
    <3>. QED
      BY <1>1, <2>2, <2>3, <3>1, <3>3 DEF WatchInv, e, f
  <2>5. CASE f \notin known
    <3>1. UNCHANGED <<current, at, held>>
      BY <2>1, <2>5 DEF Forget
    <3>. QED
      BY <1>1, <2>2, <2>3, <3>1 DEF WatchInv, e, f
  <2>. QED
    BY <2>4, <2>5
<1>4. CASE UNCHANGED <<hash, known, current, at, held, event>>
  BY <1>1, <1>4 DEF WatchInv
<1>. QED
  BY <1>2, <1>3, <1>4 DEF HandleEvent

LEMMA ComputeKeeps == ASSUME WatchInv, ComputeUpdates PROVE WatchInv' /\ UNCHANGED pipeVars
<1>. DEFINE f == event.id
            us == IF current[f] = event.content THEN {} ELSE {[id |-> f, content |-> event.content]}
<1>1. /\ known' = known \cup {f} /\ current' = [current EXCEPT ![f] = event.content]
      /\ Hands("events", us, "idle") /\ event' = NoEvent /\ at["events"] = "compute"
      /\ UNCHANGED <<file, notices, recent, hash, runtime, snap, login, pipeVars, stimuli>>
  BY DEF ComputeUpdates
<1>2. f \in Files /\ f \in AuthIds /\ event.content \in Contents
  BY <1>1, ProducersAre DEF WatchInv
<1>3. us \in SUBSET Updates /\ Alone(us) /\ "events" \in Producers
  <2>1. us \in SUBSET Updates
    BY <1>2 DEF Updates
  <2>2. Alone(us)
    BY FewAlone
  <2>. QED
    BY <2>1, <2>2, ProducersAre
<1>. HIDE DEF us, f
<1>4. /\ held' \in [Producers -> SUBSET Updates] /\ \A q \in Producers : Alone(held'[q])
      /\ at' \in [Producers -> {"idle", "snapshot", "diff", "compute", "record",
                                "dispatch", "on", "gone"}]
      /\ at'["events"] # "compute" /\ at'["login"] = at["login"]
  BY <1>1, <1>3, HandsIs, ProducersAre
<1>. QED
  BY <1>1, <1>2, <1>4 DEF WatchInv

LEMMA BeginKeeps == ASSUME WatchInv, BeginReload PROVE WatchInv' /\ UNCHANGED pipeVars
<1>1. current' \in [AuthIds -> {Absent, 1} \cup Contents]
  BY DEF BeginReload, WatchInv
<1>2. /\ at' = [at EXCEPT !["reload"] = "snapshot"] /\ stimuli' \in 0..MaxStimuli
      /\ UNCHANGED <<file, notices, recent, hash, known, runtime, held, event, snap, login, pipeVars>>
  BY UpdatesAssumption DEF BeginReload, WatchInv, Goes, Stimulus
<1>3. at'["events"] = at["events"] /\ at'["login"] = at["login"]
  BY <1>2, ProducersAre DEF WatchInv
<1>. QED
  BY <1>1, <1>2, <1>3 DEF WatchInv

LEMMA SnapshotKeeps == ASSUME WatchInv, Snapshot PROVE WatchInv' /\ UNCHANGED pipeVars
<1>1. /\ at' = [at EXCEPT !["reload"] = "diff"] /\ snap' = file
      /\ UNCHANGED <<file, notices, recent, hash, known, current, runtime, held, event, login,
                     pipeVars, stimuli>>
  BY DEF Snapshot, Goes
<1>2. at'["events"] = at["events"] /\ at'["login"] = at["login"]
  BY <1>1, ProducersAre DEF WatchInv
<1>. QED
  BY <1>1, <1>2 DEF WatchInv

LEMMA DiffKeeps == ASSUME WatchInv, Diff PROVE WatchInv' /\ UNCHANGED pipeVars
<1>. DEFINE new == [a \in AuthIds |-> IF a \in Files THEN snap[a]
                                 ELSE IF a \in runtime THEN 1 ELSE Absent]
            changed(force) == {b \in AuthIds : new[b] # current[b] \/ (force /\ new[b] # Absent)}
            us(force) == {[id |-> a, content |-> new[a]] : a \in changed(force)}
<1>1. new \in [AuthIds -> {Absent, 1} \cup Contents]
  BY DEF WatchInv
<1>2. /\ current' = new /\ snap' = [f \in Files |-> Absent]
      /\ UNCHANGED <<file, notices, recent, hash, known, runtime, event, login, pipeVars, stimuli>>
  BY DEF Diff
<1>3. PICK force \in BOOLEAN : Hands("reload", us(force), "idle")
  BY DEF Diff
<1>. HIDE DEF new
<1>4. us(force) \in SUBSET Updates
  BY <1>1 DEF Updates
<1>5. Alone(us(force))
  <2>1. changed(force) \in SUBSET AuthIds
    OBVIOUS
  <2>2. IsFiniteSet(changed(force))
    BY <2>1, ProducersAre, FS_Subset
  <2>. DEFINE W == changed(force)
              g == [a \in W |-> [id |-> a, content |-> new[a]]]
  <2>3. g \in Surjection(W, us(force))
    BY DEF Surjection
  <2>4. IsFiniteSet(us(force))
    <3>. HIDE DEF W, g, us
    <3>. QED
      BY <2>2, <2>3, FS_Surjection DEF W
  <2>5. \A u, v \in us(force) : u.id = v.id => u = v
    OBVIOUS
  <2>. QED
    BY <2>4, <2>5 DEF Alone
<1>. HIDE DEF us
<1>6. /\ held' \in [Producers -> SUBSET Updates] /\ \A q \in Producers : Alone(held'[q])
      /\ at' \in [Producers -> {"idle", "snapshot", "diff", "compute", "record",
                                "dispatch", "on", "gone"}]
      /\ at'["events"] = at["events"] /\ at'["login"] = at["login"]
  BY <1>3, <1>4, <1>5, HandsIs, ProducersAre
<1>. QED
  BY <1>1, <1>2, <1>6 DEF WatchInv

LEMMA SaveKeeps == ASSUME WatchInv, NEW f \in Files, SaveLogin(f) PROVE WatchInv' /\ UNCHANGED pipeVars
<1>1. PICK c \in Contents : login' = [id |-> f, content |-> c] /\ file' = [file EXCEPT ![f] = c]
  BY DEF SaveLogin
<1>2. /\ at' = [at EXCEPT !["login"] = "record"] /\ stimuli' \in 0..MaxStimuli
      /\ notices' \in Seq([id: Files, removal: BOOLEAN])
      /\ UNCHANGED <<recent, hash, known, current, runtime, held, event, snap, pipeVars>>
  BY UpdatesAssumption DEF SaveLogin, WatchInv, Goes, Stimulus, Notice
<1>3. login' \in [id: Files, content: Contents] /\ login' # NoSave
  BY <1>1, UpdatesAssumption DEF NoSave, Absent
<1>4. at'["events"] = at["events"]
  BY <1>2, ProducersAre DEF WatchInv
<1>. QED
  BY <1>1, <1>2, <1>3, <1>4 DEF WatchInv

LEMMA RecordKeeps == ASSUME WatchInv, RecordLogin PROVE WatchInv' /\ UNCHANGED pipeVars
<1>. DEFINE us == {[id |-> login.id, content |-> login.content]}
<1>1. /\ known' = known \cup {login.id} /\ current' = [current EXCEPT ![login.id] = login.content]
      /\ Hands("login", us, "idle") /\ login' = NoSave /\ at["login"] = "record"
      /\ UNCHANGED <<file, notices, recent, hash, runtime, event, snap, pipeVars, stimuli>>
  BY DEF RecordLogin
<1>2. login.id \in Files /\ login.id \in AuthIds /\ login.content \in Contents
  BY <1>1, ProducersAre DEF WatchInv
<1>3. us \in SUBSET Updates /\ Alone(us) /\ "login" \in Producers
  <2>1. us \in SUBSET Updates
    BY <1>2 DEF Updates
  <2>2. Alone(us)
    BY FewAlone
  <2>. QED
    BY <2>1, <2>2, ProducersAre
<1>. HIDE DEF us
<1>4. /\ held' \in [Producers -> SUBSET Updates] /\ \A q \in Producers : Alone(held'[q])
      /\ at' \in [Producers -> {"idle", "snapshot", "diff", "compute", "record",
                                "dispatch", "on", "gone"}]
      /\ at'["login"] # "record" /\ at'["events"] = at["events"]
  BY <1>1, <1>3, HandsIs, ProducersAre
<1>. QED
  BY <1>1, <1>2, <1>4 DEF WatchInv

LEMMA ProviderKeeps ==
    ASSUME WatchInv, NEW c \in Channels, ProviderConnects(c) \/ ProviderLeaves(c)
    PROVE  WatchInv' /\ UNCHANGED pipeVars
<1>1. c \in Producers /\ c \in AuthIds /\ c # "events" /\ c # "login"
  BY ProducersAre
<1>2. ASSUME NEW n \in {Absent, 1}, NEW next \in {"idle", "on", "gone"},
             Hands(c, {[id |-> c, content |-> n]}, next)
      PROVE  /\ held' \in [Producers -> SUBSET Updates] /\ \A q \in Producers : Alone(held'[q])
             /\ at' \in [Producers -> {"idle", "snapshot", "diff", "compute", "record",
                                       "dispatch", "on", "gone"}]
             /\ at'["events"] = at["events"] /\ at'["login"] = at["login"]
  <2>1. {[id |-> c, content |-> n]} \in SUBSET Updates
    BY <1>1 DEF Updates
  <2>2. /\ held' \in [Producers -> SUBSET Updates] /\ \A q \in Producers : Alone(held'[q])
        /\ at' \in [Producers -> {"idle", "snapshot", "diff", "compute", "record",
                                  "dispatch", "on", "gone"}]
        /\ \A q \in Producers \ {c} : at'[q] = at[q]
    <3>. DEFINE us == {[id |-> c, content |-> n]}
    <3>1. us \in SUBSET Updates /\ Alone(us) /\ Hands(c, us, next)
      BY <1>2, <2>1, FewAlone
    <3>. HIDE DEF us
    <3>. QED
      BY <1>1, <3>1, HandsIs
  <2>3. "events" \in Producers \ {c} /\ "login" \in Producers \ {c}
    BY <1>1, ProducersAre
  <2>. QED
    BY <2>2, <2>3
<1>3. CASE ProviderConnects(c)
  <2>1. Hands(c, {[id |-> c, content |-> 1]}, "on")
    BY <1>3 DEF ProviderConnects
  <2>2. /\ held' \in [Producers -> SUBSET Updates] /\ \A q \in Producers : Alone(held'[q])
        /\ at' \in [Producers -> {"idle", "snapshot", "diff", "compute", "record",
                                  "dispatch", "on", "gone"}]
        /\ at'["events"] = at["events"] /\ at'["login"] = at["login"]
    BY <1>2, <2>1
  <2>. QED
    BY <1>1, <1>3, <2>2, UpdatesAssumption DEF ProviderConnects, WatchInv, Stimulus
<1>4. CASE ProviderLeaves(c)
  <2>1. Hands(c, {[id |-> c, content |-> Absent]}, "gone")
    BY <1>4 DEF ProviderLeaves
  <2>2. /\ held' \in [Producers -> SUBSET Updates] /\ \A q \in Producers : Alone(held'[q])
        /\ at' \in [Producers -> {"idle", "snapshot", "diff", "compute", "record",
                                  "dispatch", "on", "gone"}]
        /\ at'["events"] = at["events"] /\ at'["login"] = at["login"]
    BY <1>2, <2>1
  <2>. QED
    BY <1>1, <1>4, <2>2 DEF ProviderLeaves, WatchInv
<1>. QED
  BY <1>3, <1>4

-----------------------------------------------------------------------------
(* AuthUpdates: from the watcher to the manager.                           *)

LEMMA DispatchKeeps == ASSUME UpdatesInv, NEW p \in Producers, Dispatch(p) PROVE UpdatesInv'
<1>. DEFINE S == held[p]
<1>1. /\ S \in SUBSET Updates /\ Alone(S) /\ pending \in Seq(Updates) /\ Once(pending)
      /\ \A a \in AuthIds : Chain(a)
  BY DEF UpdatesInv, WatchInv, PipeInv
<1>2. /\ pending' = Enqueued(S) /\ held' = [held EXCEPT ![p] = {}]
      /\ said' = [a \in AuthIds |-> UpdateOf(S, a, [id |-> a, content |-> said[a]]).content]
      /\ UNCHANGED <<file, notices, recent, hash, known, current, runtime, event, snap, login, batch,
                     queue, taken, draining, manager, stimuli>>
  BY DEF Dispatch
<1>9. asleep' = FALSE
  BY DEF Dispatch, Signal
<1>3. /\ at' \in [Producers -> {"idle", "snapshot", "diff", "compute", "record",
                                "dispatch", "on", "gone"}]
      /\ \A q \in Producers : at'[q] = at[q] \/ at'[q] \in {"idle", "on", "gone"}
  BY DEF UpdatesInv, WatchInv, Dispatch, Goes
<1>4. held' \in [Producers -> SUBSET Updates] /\ \A q \in Producers : Alone(held'[q])
  BY <1>2, FewAlone DEF UpdatesInv, WatchInv
<1>5. WatchInv'
  BY <1>2, <1>3, <1>4, ProducersAre DEF UpdatesInv, WatchInv
<1>. HIDE DEF S
<1>6. ASSUME NEW a \in AuthIds PROVE said'[a] \in {Absent, 1} \cup Contents /\ Chain(a)'
  <2>1. said'[a] = UpdateOf(S, a, [id |-> a, content |-> said[a]]).content
    BY <1>2
  <2>2. CASE \E u \in S : u.id = a
    <3>1. PICK u \in S : u.id = a
      BY <2>2
    <3>2. said'[a] = u.content
      BY <1>1, <2>1, <3>1 DEF UpdateOf, Alone
    <3>3. Has(pending', a) /\ Says(pending', a, said'[a])
      BY <1>1, <1>2, <3>1, <3>2, EnqueuedIs
    <3>. QED
      BY <1>1, <3>2, <3>3 DEF Chain, Updates
  <2>3. CASE \A u \in S : u.id # a
    <3>1. said'[a] = said[a]
      BY <2>1, <2>3 DEF UpdateOf
    <3>2. /\ Has(pending', a) <=> Has(pending, a)
          /\ Says(pending, a, said[a]) => Says(pending', a, said[a])
      BY <1>1, <1>2, <2>3, EnqueuedIs
    <3>. QED
      BY <1>1, <1>2, <3>1, <3>2 DEF Chain, UpdatesInv, PipeInv
  <2>. QED
    BY <2>2, <2>3
<1>7. pending' \in Seq(Updates) /\ Once(pending')
  BY <1>1, <1>2, EnqueuedIs
<1>8. said' \in [AuthIds -> {Absent, 1} \cup Contents]
  BY <1>2, <1>6
<1>. QED
  BY <1>2, <1>5, <1>6, <1>7, <1>8, <1>9 DEF UpdatesInv, PipeInv

LEMMA WatchStays == ASSUME WatchInv, UNCHANGED <<watchVars, stimuli>> PROVE WatchInv'
BY DEF WatchInv, watchVars

LEMMA SleepKeeps == ASSUME PipeInv, Sleep PROVE PipeInv'
BY DEF Sleep, PipeInv, Chain

LEMMA NextBatchKeeps == ASSUME PipeInv, NextBatch PROVE PipeInv'
<1>1. /\ batch = <<>> /\ batch' = pending /\ pending' = <<>>
      /\ UNCHANGED <<asleep, queue, taken, draining, manager, said>>
  BY DEF NextBatch
<1>2. \A a, c : Says(<<>>, a, c) /\ ~Has(<<>>, a) /\ Once(<<>>)
  BY DEF Says, Has, Once
<1>3. ASSUME NEW a \in AuthIds PROVE Chain(a)'
  BY <1>1, <1>2 DEF Chain, PipeInv
<1>4. <<>> \in Seq(Updates)
  OBVIOUS
<1>. QED
  BY <1>1, <1>2, <1>3, <1>4 DEF PipeInv

LEMMA SendKeeps == ASSUME PipeInv, Send PROVE PipeInv'
<1>1. /\ batch # <<>> /\ Len(queue) < QueueSize /\ queue' = Append(queue, Head(batch))
      /\ batch' = Tail(batch) /\ UNCHANGED <<pending, asleep, taken, draining, manager, said>>
  BY DEF Send
<1>2. batch \in Seq(Updates) /\ queue \in Seq(Updates) /\ Once(batch)
  BY DEF PipeInv
<1>. DEFINE u == Head(batch)
<1>3. /\ u \in Updates /\ batch' \in Seq(Updates) /\ Once(batch') /\ ~Has(batch', u.id)
      /\ \A a : Has(batch, a) <=> (u.id = a \/ Has(batch', a))
      /\ \A a, c : Says(batch, a, c) => Says(batch', a, c) /\ (u.id = a => u.content = c)
  BY <1>1, <1>2, TailIs
<1>4. /\ queue' \in Seq(Updates) /\ LastSays(queue', u.id, u.content)
      /\ \A a : Has(queue', a) <=> (u.id = a \/ Has(queue, a))
      /\ \A a, c : LastSays(queue, a, c) /\ u.id # a => LastSays(queue', a, c)
  BY <1>1, <1>2, <1>3, AppendIs
<1>5. Len(queue') <= QueueSize
  BY <1>1, <1>2, UpdatesAssumption
<1>. HIDE DEF u
<1>6. ASSUME NEW a \in AuthIds PROVE Chain(a)'
  <2>1. Chain(a)
    BY DEF PipeInv
  <2>2. CASE u.id = a
    BY <1>1, <1>3, <1>4, <2>1, <2>2 DEF Chain
  <2>3. CASE u.id # a
    BY <1>1, <1>3, <1>4, <2>1, <2>3 DEF Chain
  <2>. QED
    BY <2>2, <2>3
<1>. QED
  BY <1>1, <1>3, <1>4, <1>5, <1>6 DEF PipeInv

LEMMA DrainKeeps == ASSUME PipeInv, Drain PROVE PipeInv'
<1>. DEFINE u == Head(queue)
<1>1. /\ queue # <<>> /\ queue' = Tail(queue) /\ taken' = Merged(taken, u) /\ draining' = TRUE
      /\ UNCHANGED <<pending, asleep, batch, manager, said>>
  BY DEF Drain
<1>2. queue \in Seq(Updates) /\ taken \in Seq(Updates) /\ Once(taken) /\ Len(queue) <= QueueSize
  BY DEF PipeInv
<1>3. /\ u \in Updates /\ queue' \in Seq(Updates)
      /\ \A a : Has(queue, a) <=> (u.id = a \/ Has(queue', a))
      /\ \A a, c : LastSays(queue, a, c) =>
            LastSays(queue', a, c) /\ (u.id = a /\ ~Has(queue', a) => u.content = c)
  BY <1>1, <1>2, TailIs
<1>4. Len(queue') <= QueueSize
  BY <1>1, <1>2, UpdatesAssumption
<1>. HIDE DEF u
<1>5. /\ taken' \in Seq(Updates) /\ Once(taken') /\ Says(taken', u.id, u.content)
      /\ \A a : Has(taken', a) <=> (u.id = a \/ Has(taken, a))
      /\ \A a, c : Says(taken, a, c) /\ u.id # a => Says(taken', a, c)
  BY <1>1, <1>2, <1>3, MergedIs
<1>6. ASSUME NEW a \in AuthIds PROVE Chain(a)'
  <2>1. Chain(a)
    BY DEF PipeInv
  <2>2. CASE u.id = a
    BY <1>1, <1>3, <1>5, <2>1, <2>2 DEF Chain
  <2>3. CASE u.id # a
    BY <1>1, <1>3, <1>5, <2>1, <2>3 DEF Chain
  <2>. QED
    BY <2>2, <2>3
<1>. QED
  BY <1>1, <1>3, <1>4, <1>5, <1>6 DEF PipeInv

LEMMA DrainedKeeps == ASSUME PipeInv, Drained PROVE PipeInv'
<1>1. draining' = FALSE /\ UNCHANGED <<pending, asleep, batch, queue, taken, manager, said>>
  BY DEF Drained
<1>2. ASSUME NEW a \in AuthIds PROVE Chain(a)'
  <2>1. Chain(a)
    BY DEF PipeInv
  <2>. QED
    BY <1>1, <2>1 DEF Chain
<1>. QED
  BY <1>1, <1>2 DEF PipeInv

LEMMA ApplyKeeps == ASSUME PipeInv, Apply PROVE PipeInv'
<1>. DEFINE u == Head(taken)
<1>1. /\ taken # <<>> /\ taken' = Tail(taken) /\ manager' = [manager EXCEPT ![u.id] = u.content]
      /\ UNCHANGED <<pending, asleep, batch, queue, draining, said>>
  BY DEF Apply
<1>2. taken \in Seq(Updates) /\ Once(taken)
  BY DEF PipeInv
<1>3. /\ u \in Updates /\ taken' \in Seq(Updates) /\ Once(taken')
      /\ \A a : Has(taken, a) <=> (u.id = a \/ Has(taken', a))
      /\ \A a, c : Says(taken, a, c) => Says(taken', a, c) /\ (u.id = a => u.content = c)
  BY <1>1, <1>2, TailIs
<1>. HIDE DEF u
<1>4. u.id \in AuthIds /\ u.content \in {Absent, 1} \cup Contents
  BY <1>3 DEF Updates
<1>5. ASSUME NEW a \in AuthIds PROVE Chain(a)'
  <2>1. Chain(a) /\ manager \in [AuthIds -> {Absent, 1} \cup Contents]
    BY DEF PipeInv
  <2>2. CASE u.id = a
    <3>1. manager'[a] = u.content
      BY <1>1, <1>4, <2>1, <2>2
    <3>. QED
      BY <1>1, <1>3, <2>1, <2>2, <3>1 DEF Chain
  <2>3. CASE u.id # a
    <3>1. manager'[a] = manager[a]
      BY <1>1, <1>4, <2>1, <2>3
    <3>. QED
      BY <1>1, <1>3, <2>1, <2>3, <3>1 DEF Chain
  <2>. QED
    BY <2>2, <2>3
<1>6. manager' \in [AuthIds -> {Absent, 1} \cup Contents]
  BY <1>1, <1>4 DEF PipeInv
<1>. QED
  BY <1>1, <1>3, <1>5, <1>6 DEF PipeInv

\* Types hold, the updates that are handed on together are of different auths, and
\* the last one of each auth is never overtaken.
THEOREM UpdatesInvariance == UpdatesSpec => []UpdatesInv
<1>1. UpdatesInit => UpdatesInv
  <2>. SUFFICES ASSUME UpdatesInit PROVE UpdatesInv
    OBVIOUS
  <2>1. at["events"] = "idle" /\ at["login"] = "idle"
    BY ProducersAre DEF UpdatesInit
  <2>2. \A p \in Producers : Alone(held[p])
    BY FewAlone DEF UpdatesInit
  <2>3. file \in [Files -> {Absent} \cup Contents] /\ current \in [AuthIds -> {Absent, 1} \cup Contents]
    BY DEF UpdatesInit
  <2>4. WatchInv
    BY <2>1, <2>2, <2>3, UpdatesAssumption DEF UpdatesInit, WatchInv
  <2>5. \A a, c : Says(<<>>, a, c) /\ LastSays(<<>>, a, c) /\ ~Has(<<>>, a) /\ Once(<<>>)
    BY DEF Says, LastSays, Has, Once
  <2>6. <<>> \in Seq(Updates) /\ Len(<<>>) = 0
    OBVIOUS
  <2>7. /\ pending = <<>> /\ batch = <<>> /\ queue = <<>> /\ taken = <<>> /\ draining = FALSE
        /\ asleep = FALSE /\ manager = current /\ said = current
    BY DEF UpdatesInit
  <2>8. PipeInv
    <3>1. \A a \in AuthIds : Chain(a)
      BY <2>5, <2>7 DEF Chain
    <3>2. Once(pending) /\ Once(batch) /\ Once(taken)
      BY <2>5, <2>7
    <3>3. /\ pending \in Seq(Updates) /\ batch \in Seq(Updates) /\ queue \in Seq(Updates)
          /\ taken \in Seq(Updates) /\ Len(queue) <= QueueSize
      BY <2>6, <2>7, UpdatesAssumption
    <3>. QED
      BY <2>3, <2>7, <3>1, <3>2, <3>3 DEF PipeInv
  <2>. QED
    BY <2>4, <2>8 DEF UpdatesInv
<1>2. UpdatesInv /\ [UpdatesNext]_updateVars => UpdatesInv'
  <2>. SUFFICES ASSUME UpdatesInv, [UpdatesNext]_updateVars PROVE UpdatesInv'
    OBVIOUS
  <2>1. WatchInv /\ PipeInv
    BY DEF UpdatesInv
  <2>2. ASSUME NEW f \in Files, WriteFile(f) \/ RemoveFile(f) \/ Settle(f) PROVE UpdatesInv'
    BY <2>1, <2>2, FilesChange, PipeStays DEF UpdatesInv
  <2>3. ASSUME NEW f \in Logins, SaveLogin(f) PROVE UpdatesInv'
    <3>1. f \in Files
      BY UpdatesAssumption
    <3>. QED
      BY <2>1, <2>3, <3>1, SaveKeeps, PipeStays DEF UpdatesInv
  <2>4. CASE HandleEvent \/ ComputeUpdates
    BY <2>1, <2>4, HandleEventKeeps, ComputeKeeps, PipeStays DEF UpdatesInv
  <2>5. CASE BeginReload \/ Snapshot \/ Diff
    BY <2>1, <2>5, BeginKeeps, SnapshotKeeps, DiffKeeps, PipeStays DEF UpdatesInv
  <2>6. CASE RecordLogin
    BY <2>1, <2>6, RecordKeeps, PipeStays DEF UpdatesInv
  <2>7. ASSUME NEW c \in Channels, ProviderConnects(c) \/ ProviderLeaves(c) PROVE UpdatesInv'
    BY <2>1, <2>7, ProviderKeeps, PipeStays DEF UpdatesInv
  <2>8. ASSUME NEW p \in Producers, Dispatch(p) PROVE UpdatesInv'
    BY <2>8, DispatchKeeps
  <2>9. CASE Loop
    <3>1. UNCHANGED <<watchVars, stimuli>>
      BY <2>9 DEF Loop, Sleep, NextBatch, Send
    <3>. QED
      BY <2>1, <2>9, <3>1, WatchStays, SleepKeeps, NextBatchKeeps, SendKeeps DEF UpdatesInv, Loop
  <2>10. CASE Consume
    <3>1. UNCHANGED <<watchVars, stimuli>>
      BY <2>10 DEF Consume, Drain, Drained, Apply
    <3>. QED
      BY <2>1, <2>10, <3>1, WatchStays, DrainKeeps, DrainedKeeps, ApplyKeeps DEF UpdatesInv, Consume
  <2>11. CASE UNCHANGED updateVars
    BY <2>1, <2>11, WatchStays, PipeStays DEF UpdatesInv, updateVars
  <2>. QED
    BY <2>2, <2>3, <2>4, <2>5, <2>6, <2>7, <2>8, <2>9, <2>10, <2>11 DEF UpdatesNext
<1>. QED
  BY <1>1, <1>2, PTL DEF UpdatesSpec

\* Of the updates of an auth the last one handed on counts, for any files,
\* providers, logins and size of the service's channel.
THEOREM UpdatesCount == UpdatesSpec => [](UpdatesTypeOK /\ LastUpdateCounts)
BY UpdatesInvIs, UpdatesInvariance, PTL

-----------------------------------------------------------------------------
(* AuthUpdates: its stages are one line.                                   *)

LEMMA UnderwayIs ==
    ASSUME PipeInv
    PROVE  /\ taken \o queue \in Seq(Updates) /\ taken \o queue \o batch \in Seq(Updates)
           /\ Underway \in Seq(Updates)
BY ConcatProperties DEF PipeInv, Underway

\* Sending the first of a batch moves nothing.
LEMMA SentStays ==
    ASSUME NEW q \in Seq(Updates), NEW b \in Seq(Updates), b # <<>>
    PROVE  Append(q, Head(b)) \o Tail(b) = q \o b
<1>. DEFINE p == Append(q, Head(b))
            t == Tail(b)
<1>1. /\ Len(q) \in Nat /\ Len(b) \in Nat \ {0} /\ t \in Seq(Updates) /\ p \in Seq(Updates)
      /\ Len(t) = Len(b) - 1 /\ Len(p) = Len(q) + 1 /\ p[Len(q) + 1] = b[1]
      /\ \A i \in 1..Len(q) : p[i] = q[i]
      /\ \A i \in 1..Len(t) : t[i] = b[i + 1]
  OBVIOUS
<1>. HIDE DEF p, t
<1>2. /\ p \o t \in Seq(Updates) /\ Len(p \o t) = Len(p) + Len(t)
      /\ q \o b \in Seq(Updates) /\ Len(q \o b) = Len(q) + Len(b)
      /\ \A i \in 1..(Len(p) + Len(t)) : (p \o t)[i] = IF i <= Len(p) THEN p[i] ELSE t[i - Len(p)]
      /\ \A i \in 1..(Len(q) + Len(b)) : (q \o b)[i] = IF i <= Len(q) THEN q[i] ELSE b[i - Len(q)]
  BY <1>1, ConcatProperties
<1>3. ASSUME NEW i \in 1..Len(p \o t) PROVE (p \o t)[i] = (q \o b)[i]
  <2>1. CASE i <= Len(q)
    BY <1>1, <1>2, <2>1
  <2>2. CASE i = Len(q) + 1
    BY <1>1, <1>2, <2>2
  <2>3. CASE i > Len(q) + 1
    <3>1. i - Len(p) \in 1..Len(t) /\ (i - Len(p)) + 1 = i - Len(q) /\ ~(i <= Len(p)) /\ ~(i <= Len(q))
      BY <1>1, <1>2, <2>3
    <3>2. (p \o t)[i] = t[i - Len(p)] /\ (q \o b)[i] = b[i - Len(q)]
      <4>1. i \in 1..(Len(p) + Len(t)) /\ i \in 1..(Len(q) + Len(b))
        BY <1>1, <1>2
      <4>. QED
        BY <1>2, <3>1, <4>1
    <3>3. t[i - Len(p)] = b[(i - Len(p)) + 1]
      BY <1>1, <3>1
    <3>. QED
      BY <3>1, <3>2, <3>3
  <2>. QED
    BY <1>1, <1>2, <2>1, <2>2, <2>3
<1>. QED
  BY <1>1, <1>2, <1>3, SeqEqual DEF p, t

\* What is taken from the front is taken from the line.
LEMMA FrontIs ==
    ASSUME NEW s \in Seq(Updates), NEW t \in Seq(Updates), s # <<>>
    PROVE  s \o t # <<>> /\ Head(s \o t) = Head(s) /\ Tail(s \o t) = Tail(s) \o t
<1>. DEFINE st == s \o t
            r == Tail(s)
            v == Tail(st)
<1>1. /\ Len(s) \in Nat \ {0} /\ Len(t) \in Nat /\ r \in Seq(Updates) /\ Len(r) = Len(s) - 1
      /\ \A i \in 1..Len(r) : r[i] = s[i + 1]
  OBVIOUS
<1>2. /\ st \in Seq(Updates) /\ Len(st) = Len(s) + Len(t)
      /\ \A i \in 1..(Len(s) + Len(t)) : st[i] = IF i <= Len(s) THEN s[i] ELSE t[i - Len(s)]
  BY ConcatProperties
<1>. HIDE DEF st, r
<1>3. st # <<>> /\ st[1] = s[1]
  BY <1>1, <1>2
<1>4. Head(st) = Head(s)
  BY <1>1, <1>2, <1>3
<1>5. v \in Seq(Updates) /\ Len(v) = Len(st) - 1 /\ \A i \in 1..Len(v) : v[i] = st[i + 1]
  BY <1>2, <1>3, HeadTailProperties
<1>. HIDE DEF v
<1>6. /\ r \o t \in Seq(Updates) /\ Len(r \o t) = Len(r) + Len(t)
      /\ \A i \in 1..(Len(r) + Len(t)) : (r \o t)[i] = IF i <= Len(r) THEN r[i] ELSE t[i - Len(r)]
  BY <1>1, ConcatProperties
<1>7. ASSUME NEW i \in 1..Len(v) PROVE v[i] = (r \o t)[i]
  <2>1. CASE i <= Len(r)
    BY <1>1, <1>2, <1>5, <1>6, <2>1
  <2>2. CASE i > Len(r)
    <3>1. i + 1 - Len(s) = i - Len(r) /\ ~(i + 1 <= Len(s)) /\ ~(i <= Len(r))
      BY <1>1, <1>2, <1>5, <2>2
    <3>. QED
      BY <1>1, <1>2, <1>5, <1>6, <3>1
  <2>. QED
    BY <1>1, <1>2, <1>5, <2>1, <2>2
<1>8. v = r \o t
  <2>1. Len(v) = Len(r \o t)
    BY <1>1, <1>2, <1>5, <1>6
  <2>. QED
    BY <1>5, <1>6, <1>7, <2>1, SeqEqual
<1>. QED
  BY <1>3, <1>4, <1>8 DEF st, r, v

\* What moves in the front part of the line moves in the line.
LEMMA MovedIs ==
    ASSUME NEW us \in Seq(Updates), NEW i \in DOMAIN us, NEW j \in DOMAIN us, Feed!Follows(us, i, j)
    PROVE  /\ Feed!Moved(us, i, j) \in Seq(Updates) /\ Len(Feed!Moved(us, i, j)) = Len(us) - 1
           /\ Len(us) \in Nat \ {0} /\ i \in 1..Len(us) /\ j \in 1..Len(us) /\ i < j
           /\ \A k \in 1..(Len(us) - 1) : Feed!Moved(us, i, j)[k] =
                 IF k = i THEN us[j] ELSE IF k < j THEN us[k] ELSE us[k + 1]
<1>1. /\ Len(us) \in Nat \ {0} /\ i \in 1..Len(us) /\ j \in 1..Len(us) /\ i < j
      /\ \A k \in 1..Len(us) : us[k] \in Updates
  BY DEF Feed!Follows
<1>. DEFINE n == Len(us) - 1
            f == [k \in 1..n |-> IF k = i THEN us[j] ELSE IF k < j THEN us[k] ELSE us[k + 1]]
<1>2. Feed!Moved(us, i, j) = f
  BY DEF Feed!Moved
<1>3. n \in Nat /\ \A k \in 1..n : k \in 1..Len(us) /\ k + 1 \in 1..Len(us)
  BY <1>1
<1>. HIDE DEF n
<1>4. \A k \in 1..n : f[k] = IF k = i THEN us[j] ELSE IF k < j THEN us[k] ELSE us[k + 1]
  OBVIOUS
<1>5. f \in [1..n -> Updates]
  BY <1>1, <1>3
<1>. HIDE DEF f
<1>6. f \in Seq(Updates) /\ Len(f) = n
  BY <1>3, <1>5
<1>. QED
  BY <1>1, <1>2, <1>4, <1>6 DEF n

LEMMA MovedInFront ==
    ASSUME NEW s \in Seq(Updates), NEW t \in Seq(Updates),
           NEW i \in DOMAIN s, NEW j \in DOMAIN s, Feed!Follows(s, i, j)
    PROVE  /\ i \in DOMAIN (s \o t) /\ j \in DOMAIN (s \o t) /\ Feed!Follows(s \o t, i, j)
           /\ Feed!Moved(s \o t, i, j) = Feed!Moved(s, i, j) \o t
<1>. DEFINE st == s \o t
            m == Feed!Moved(s, i, j)
            v == Feed!Moved(st, i, j)
<1>1. /\ m \in Seq(Updates) /\ Len(m) = Len(s) - 1
      /\ Len(s) \in Nat \ {0} /\ i \in 1..Len(s) /\ j \in 1..Len(s) /\ i < j
      /\ \A k \in 1..(Len(s) - 1) : m[k] =
            IF k = i THEN s[j] ELSE IF k < j THEN s[k] ELSE s[k + 1]
  BY MovedIs
<1>. HIDE DEF m
<1>2. /\ st \in Seq(Updates) /\ Len(st) = Len(s) + Len(t) /\ Len(t) \in Nat
      /\ DOMAIN st = 1..(Len(s) + Len(t))
      /\ \A k \in 1..(Len(s) + Len(t)) : st[k] = IF k <= Len(s) THEN s[k] ELSE t[k - Len(s)]
  BY ConcatProperties
<1>. HIDE DEF st
<1>3. i \in DOMAIN st /\ j \in DOMAIN st
  BY <1>1, <1>2
<1>4. Feed!Follows(st, i, j)
  <2>1. st[i] = s[i] /\ st[j] = s[j]
    BY <1>1, <1>2
  <2>2. ASSUME NEW k \in DOMAIN st, i < k, k < j PROVE st[k].id # st[i].id
    <3>1. k \in DOMAIN s /\ st[k] = s[k]
      BY <1>1, <1>2, <2>2
    <3>. QED
      BY <2>1, <2>2, <3>1 DEF Feed!Follows
  <2>. QED
    BY <1>1, <2>1, <2>2 DEF Feed!Follows
<1>5. /\ v \in Seq(Updates) /\ Len(v) = Len(st) - 1
      /\ \A k \in 1..(Len(st) - 1) : v[k] =
            IF k = i THEN st[j] ELSE IF k < j THEN st[k] ELSE st[k + 1]
  <2>1. st \in Seq(Updates)
    BY <1>2
  <2>. QED
    BY <1>3, <1>4, <2>1, MovedIs
<1>. HIDE DEF v
<1>6. /\ m \o t \in Seq(Updates) /\ Len(m \o t) = Len(m) + Len(t)
      /\ \A k \in 1..(Len(m) + Len(t)) : (m \o t)[k] = IF k <= Len(m) THEN m[k] ELSE t[k - Len(m)]
  BY <1>1, ConcatProperties
<1>7. ASSUME NEW k \in 1..Len(v) PROVE v[k] = (m \o t)[k]
  <2>0. k \in Nat /\ k \in 1..(Len(st) - 1) /\ k \in 1..(Len(m) + Len(t))
    BY <1>1, <1>2, <1>5
  <2>1. CASE k = i
    <3>1. v[k] = st[j] /\ st[j] = s[j]
      BY <1>1, <1>2, <1>5, <2>0, <2>1
    <3>2. k <= Len(m) /\ k \in 1..(Len(s) - 1)
      BY <1>1, <2>0, <2>1
    <3>3. (m \o t)[k] = m[k]
      BY <1>6, <2>0, <3>2
    <3>4. m[k] = s[j]
      BY <1>1, <2>1, <3>2
    <3>. QED
      BY <3>1, <3>3, <3>4
  <2>2. CASE k # i /\ k < j
    BY <1>1, <1>2, <1>5, <1>6, <2>2
  <2>3. CASE k # i /\ ~(k < j) /\ k <= Len(m)
    BY <1>1, <1>2, <1>5, <1>6, <2>3
  <2>4. CASE k > Len(m)
    <3>1. k + 1 - Len(s) = k - Len(m) /\ ~(k + 1 <= Len(s)) /\ ~(k <= Len(m)) /\ k # i /\ ~(k < j)
          /\ k + 1 \in 1..(Len(s) + Len(t)) /\ k \in 1..(Len(m) + Len(t)) /\ k \in 1..(Len(st) - 1)
      BY <1>1, <1>2, <1>5, <2>4
    <3>2. v[k] = st[k + 1]
      BY <1>5, <3>1
    <3>3. st[k + 1] = t[k + 1 - Len(s)]
      BY <1>2, <3>1
    <3>4. (m \o t)[k] = t[k - Len(m)]
      BY <1>6, <3>1
    <3>. QED
      BY <3>1, <3>2, <3>3, <3>4
  <2>. QED
    BY <1>1, <2>0, <2>1, <2>2, <2>3, <2>4
<1>8. v = m \o t
  <2>1. Len(v) = Len(m \o t)
    BY <1>1, <1>2, <1>5, <1>6
  <2>. QED
    BY <1>5, <1>6, <1>7, <2>1, SeqEqual
<1>. QED
  BY <1>3, <1>4, <1>8 DEF st, m, v

\* To drain an update whose auth has one already is to move it.
LEMMA MergedMoves ==
    ASSUME NEW s \in Seq(Updates), Once(s), NEW q \in Seq(Updates), q # <<>>, Has(s, Head(q).id)
    PROVE  \E i, j \in DOMAIN (s \o q) :
                /\ Feed!Follows(s \o q, i, j)
                /\ Merged(s, Head(q)) \o Tail(q) = Feed!Moved(s \o q, i, j)
<1>. DEFINE u == Head(q)
            i == Place(s, u)
            j == Len(s) + 1
            st == s \o q
            m == [s EXCEPT ![i] = u]
            r == Tail(q)
            v == Feed!Moved(st, i, j)
<1>1. i \in DOMAIN s /\ s[i].id = u.id
  BY DEF Place, Has
<1>2. /\ Len(s) \in Nat /\ DOMAIN s = 1..Len(s) /\ Len(q) \in Nat \ {0} /\ u = q[1] /\ u \in Updates
      /\ r \in Seq(Updates) /\ Len(r) = Len(q) - 1 /\ \A k \in 1..Len(r) : r[k] = q[k + 1]
  OBVIOUS
<1>3. Merged(s, u) = m
  <2>. HIDE DEF u
  <2>1. i # 0
    BY <1>1, <1>2
  <2>. QED
    BY <2>1 DEF Merged
<1>. HIDE DEF i, u, r
<1>4. /\ m \in Seq(Updates) /\ Len(m) = Len(s) /\ m[i] = u
      /\ \A k \in 1..Len(s) : k # i => m[k] = s[k]
  BY <1>1, <1>2
<1>. HIDE DEF m
<1>5. /\ st \in Seq(Updates) /\ Len(st) = Len(s) + Len(q) /\ DOMAIN st = 1..(Len(s) + Len(q))
      /\ \A k \in 1..(Len(s) + Len(q)) : st[k] = IF k <= Len(s) THEN s[k] ELSE q[k - Len(s)]
  BY ConcatProperties
<1>. HIDE DEF st
<1>6. i \in DOMAIN st /\ j \in DOMAIN st /\ st[i] = s[i] /\ st[j] = u /\ i < j /\ j = Len(s) + 1
  <2>1. j - Len(s) = 1 /\ ~(j <= Len(s)) /\ j \in 1..(Len(s) + Len(q)) /\ i \in 1..(Len(s) + Len(q))
        /\ i <= Len(s)
    BY <1>1, <1>2
  <2>2. st[j] = q[j - Len(s)] /\ st[i] = s[i]
    BY <1>5, <2>1
  <2>. QED
    BY <1>2, <1>5, <2>1, <2>2
<1>. HIDE DEF j
<1>7. Feed!Follows(st, i, j)
  <2>1. ASSUME NEW k \in DOMAIN st, i < k, k < j PROVE st[k].id # st[i].id
    <3>1. k \in DOMAIN s /\ st[k] = s[k] /\ k # i
      BY <1>1, <1>2, <1>5, <1>6, <2>1
    <3>. QED
      BY <1>1, <1>6, <3>1 DEF Once
  <2>. QED
    BY <1>1, <1>6, <2>1 DEF Feed!Follows
<1>8. /\ v \in Seq(Updates) /\ Len(v) = Len(st) - 1
      /\ \A k \in 1..(Len(st) - 1) : v[k] =
            IF k = i THEN st[j] ELSE IF k < j THEN st[k] ELSE st[k + 1]
  <2>1. st \in Seq(Updates) /\ i \in DOMAIN st /\ j \in DOMAIN st
    BY <1>5, <1>6
  <2>. QED
    BY <1>7, <2>1, MovedIs
<1>. HIDE DEF v
<1>9. /\ m \o r \in Seq(Updates) /\ Len(m \o r) = Len(m) + Len(r)
      /\ \A k \in 1..(Len(m) + Len(r)) : (m \o r)[k] = IF k <= Len(m) THEN m[k] ELSE r[k - Len(m)]
  BY <1>2, <1>4, ConcatProperties
<1>10. ASSUME NEW k \in 1..Len(v) PROVE v[k] = (m \o r)[k]
  <2>0. k \in Nat /\ k \in 1..(Len(st) - 1) /\ k \in 1..(Len(m) + Len(r))
    BY <1>2, <1>4, <1>5, <1>8
  <2>1. CASE k = i
    <3>1. v[k] = u
      BY <1>6, <1>8, <2>0, <2>1
    <3>2. (m \o r)[k] = m[k] /\ m[k] = u
      BY <1>1, <1>2, <1>4, <1>9, <2>0, <2>1
    <3>. QED
      BY <3>1, <3>2
  <2>2. CASE k # i /\ k <= Len(s)
    BY <1>1, <1>2, <1>4, <1>5, <1>6, <1>8, <1>9, <2>0, <2>2
  <2>3. CASE k > Len(s)
    <3>1. k + 1 - Len(s) = (k - Len(m)) + 1 /\ ~(k + 1 <= Len(s)) /\ ~(k <= Len(m)) /\ k # i /\ ~(k < j)
          /\ k + 1 \in 1..(Len(s) + Len(q)) /\ k \in 1..(Len(m) + Len(r)) /\ k \in 1..(Len(st) - 1)
          /\ k - Len(m) \in 1..Len(r)
      BY <1>1, <1>2, <1>4, <1>5, <1>6, <1>8, <2>0, <2>3
    <3>2. v[k] = st[k + 1]
      BY <1>8, <3>1
    <3>3. st[k + 1] = q[k + 1 - Len(s)]
      BY <1>5, <3>1
    <3>4. (m \o r)[k] = r[k - Len(m)]
      BY <1>9, <3>1
    <3>5. r[k - Len(m)] = q[(k - Len(m)) + 1]
      BY <1>2, <3>1
    <3>. QED
      BY <3>1, <3>2, <3>3, <3>4, <3>5
  <2>. QED
    BY <1>2, <2>0, <2>1, <2>2, <2>3
<1>11. v = m \o r
  <2>1. Len(v) = Len(m \o r)
    BY <1>2, <1>4, <1>5, <1>8, <1>9
  <2>. QED
    BY <1>8, <1>9, <1>10, <2>1, SeqEqual
<1>. QED
  BY <1>3, <1>6, <1>7, <1>11 DEF u, r, st, v

\* Where the updates go that are handed on: to that of their auth, or behind all.
LEMMA EnqueuedWhere ==
    ASSUME pending \in Seq(Updates), NEW S \in SUBSET Updates, Alone(S)
    PROVE  LET m == Len(pending)
               E == Enqueued(S) IN
           /\ Len(E) \in Nat /\ m \in Nat /\ m <= Len(E)
           /\ \A i \in 1..m : E[i] = UpdateOf(S, pending[i].id, pending[i])
           /\ \A i \in (m + 1)..Len(E) : E[i] \in S /\ ~Has(pending, E[i].id)
           /\ \A u \in S : Has(pending, u.id) \/ \E i \in (m + 1)..Len(E) : E[i] = u
<1>. DEFINE waiting == {pending[i].id : i \in DOMAIN pending}
            first == [i \in DOMAIN pending |-> UpdateOf(S, pending[i].id, pending[i])]
            rest == {u \in S : u.id \notin waiting}
            more == SetToSeq(rest)
            E == Enqueued(S)
            m == Len(pending)
            n == Cardinality(rest)
<1>1. /\ \A e : \A u \in S : UpdateOf(S, u.id, e) = u
      /\ \A a, e : (\A u \in S : u.id # a) => UpdateOf(S, a, e) = e
  BY DEF UpdateOf, Alone
<1>2. m \in Nat /\ DOMAIN pending = 1..m /\ \A i \in 1..m : pending[i] \in Updates
  OBVIOUS
<1>3. ASSUME NEW i \in 1..m PROVE UpdateOf(S, pending[i].id, pending[i]) \in Updates
  <2>1. CASE \E u \in S : u.id = pending[i].id
    BY <1>1, <2>1
  <2>2. CASE \A u \in S : u.id # pending[i].id
    BY <1>1, <1>2, <2>2
  <2>. QED
    BY <2>1, <2>2
<1>4. /\ first \in Seq(Updates) /\ Len(first) = m
      /\ \A i \in 1..m : first[i] = UpdateOf(S, pending[i].id, pending[i])
  BY <1>2, <1>3
<1>5. /\ n \in Nat /\ more \in [1..n -> rest]
      /\ \A u \in rest : \E i \in 1..n : more[i] = u
  <2>1. IsFiniteSet(rest)
    BY FS_Subset DEF Alone
  <2>. QED
    BY <2>1, SetToSeqIs
<1>6. \A u : u \in rest <=> u \in S /\ ~Has(pending, u.id)
  BY DEF Has
<1>7. E = first \o more
  BY DEF Enqueued
<1>. HIDE DEF waiting, rest, first, more, m, n, E
<1>8. more \in Seq(Updates) /\ Len(more) = n
  BY <1>5, <1>6
<1>9. /\ Len(E) = m + n
      /\ \A i \in 1..(m + n) : E[i] = IF i <= m THEN first[i] ELSE more[i - m]
  BY <1>4, <1>7, <1>8, ConcatProperties
<1>10. ASSUME NEW i \in (m + 1)..Len(E) PROVE E[i] \in S /\ ~Has(pending, E[i].id)
  <2>1. i - m \in 1..n /\ ~(i <= m) /\ i \in 1..(m + n)
    BY <1>2, <1>5, <1>9
  <2>2. E[i] = more[i - m]
    BY <1>9, <2>1
  <2>. QED
    BY <1>5, <1>6, <2>1, <2>2
<1>11. ASSUME NEW u \in S, ~Has(pending, u.id) PROVE \E i \in (m + 1)..Len(E) : E[i] = u
  <2>1. PICK i \in 1..n : more[i] = u
    BY <1>5, <1>6, <1>11
  <2>2. m + i \in (m + 1)..Len(E) /\ (m + i) - m = i /\ ~(m + i <= m) /\ m + i \in 1..(m + n)
    BY <1>2, <1>5, <1>9
  <2>3. E[m + i] = u
    BY <1>9, <2>1, <2>2
  <2>. QED
    BY <2>2, <2>3
<1>12. ASSUME NEW i \in 1..m PROVE E[i] = UpdateOf(S, pending[i].id, pending[i])
  <2>1. i <= m /\ i \in 1..(m + n)
    BY <1>2, <1>5
  <2>. QED
    BY <1>4, <1>9, <2>1
<1>13. Len(E) \in Nat /\ m <= Len(E)
  BY <1>2, <1>5, <1>9
<1>. QED
  BY <1>2, <1>10, <1>11, <1>12, <1>13 DEF m, E

\* To hand on updates is to say them.
LEMMA DispatchSays ==
    ASSUME UpdatesInv, UpdatesInv', NEW p \in Producers, Dispatch(p) PROVE Feed!Say
<1>. DEFINE S == held[p]
            H == taken \o queue \o batch
            n == Len(H)
            m == Len(pending)
            E == pending'
            among == {u.id : u \in S}
            replaced == {a \in among : Has(pending, a)}
            line == Underway
            next == Underway'
            new == {i \in DOMAIN next : i > Len(line)}
            Newest(i) == \A j \in DOMAIN line : j > i => line[j].id # line[i].id
<1>1. /\ S \in SUBSET Updates /\ Alone(S) /\ pending \in Seq(Updates) /\ Once(pending)
      /\ PipeInv /\ PipeInv'
  BY DEF UpdatesInv, WatchInv, PipeInv
<1>2. /\ pending' = Enqueued(S)
      /\ said' = [a \in AuthIds |-> UpdateOf(S, a, [id |-> a, content |-> said[a]]).content]
      /\ UNCHANGED <<batch, queue, taken, manager>>
  BY DEF Dispatch
<1>3. /\ E \in Seq(Updates) /\ Once(E) /\ said' \in [AuthIds -> {Absent, 1} \cup Contents]
  BY <1>1 DEF PipeInv
<1>4. /\ Len(E) \in Nat /\ m \in Nat /\ m <= Len(E)
      /\ \A i \in 1..m : E[i] = UpdateOf(S, pending[i].id, pending[i])
      /\ \A i \in (m + 1)..Len(E) : E[i] \in S /\ ~Has(pending, E[i].id)
      /\ \A u \in S : Has(pending, u.id) \/ \E i \in (m + 1)..Len(E) : E[i] = u
  BY <1>1, <1>2, EnqueuedWhere
<1>5. H \in Seq(Updates) /\ line = H \o pending /\ next = H \o E
  BY <1>1, <1>2, UnderwayIs DEF Underway
<1>6. /\ \A u \in S : u.id \in AuthIds /\ u = [id |-> u.id, content |-> said'[u.id]]
      /\ \A a \in AuthIds \ among : said'[a] = said[a]
  <2>1. ASSUME NEW u \in S PROVE u.id \in AuthIds /\ u = [id |-> u.id, content |-> said'[u.id]]
    <3>1. u \in Updates /\ u.id \in AuthIds /\ u = [id |-> u.id, content |-> u.content]
      BY <1>1 DEF Updates
    <3>2. UpdateOf(S, u.id, [id |-> u.id, content |-> said[u.id]]) = u
      BY <1>1 DEF UpdateOf, Alone
    <3>3. said'[u.id] = u.content
      BY <1>2, <3>1, <3>2
    <3>. QED
      BY <3>1, <3>3
  <2>2. ASSUME NEW a \in AuthIds, a \notin among PROVE said'[a] = said[a]
    <3>1. UpdateOf(S, a, [id |-> a, content |-> said[a]]) = [id |-> a, content |-> said[a]]
      BY <2>2 DEF UpdateOf
    <3>. QED
      BY <1>2, <3>1
  <2>. QED
    BY <2>1, <2>2
<1>. HIDE DEF S, H, line, next, E
<1>7. /\ n \in Nat /\ line \in Seq(Updates) /\ next \in Seq(Updates)
      /\ Len(line) = n + m /\ Len(next) = n + Len(E)
      /\ DOMAIN line = 1..(n + m) /\ DOMAIN next = 1..(n + Len(E))
      /\ \A i \in 1..(n + m) : line[i] = IF i <= n THEN H[i] ELSE pending[i - n]
      /\ \A i \in 1..(n + Len(E)) : next[i] = IF i <= n THEN H[i] ELSE E[i - n]
  BY <1>1, <1>3, <1>5, ConcatProperties
<1>8. DOMAIN pending = 1..m /\ DOMAIN E = 1..Len(E)
  BY <1>1, <1>3
<1>. HIDE DEF m, n
<1>9. \A i \in 1..m : n + i \in DOMAIN line /\ line[n + i] = pending[i]
  <2>. SUFFICES ASSUME NEW i \in 1..m PROVE n + i \in DOMAIN line /\ line[n + i] = pending[i]
    OBVIOUS
  <2>1. n + i \in 1..(n + m) /\ ~(n + i <= n) /\ (n + i) - n = i
    BY <1>4, <1>7
  <2>. QED
    BY <1>7, <2>1
<1>10. \A i \in 1..Len(E) : n + i \in DOMAIN next /\ next[n + i] = E[i]
  <2>. SUFFICES ASSUME NEW i \in 1..Len(E) PROVE n + i \in DOMAIN next /\ next[n + i] = E[i]
    OBVIOUS
  <2>1. n + i \in 1..(n + Len(E)) /\ ~(n + i <= n) /\ (n + i) - n = i
    BY <1>4, <1>7
  <2>. QED
    BY <1>7, <2>1
<1>11. new = (n + m + 1)..(n + Len(E)) /\ DOMAIN next = DOMAIN line \cup new
  BY <1>4, <1>7
<1>. HIDE DEF new
<1>12. \A i \in new : /\ i - n \in (m + 1)..Len(E) /\ i - n \in DOMAIN E
                       /\ next[i] = E[i - n]
  <2>. SUFFICES ASSUME NEW i \in new
                PROVE  i - n \in (m + 1)..Len(E) /\ i - n \in DOMAIN E /\ next[i] = E[i - n]
    OBVIOUS
  <2>1. i - n \in (m + 1)..Len(E) /\ i - n \in 1..Len(E) /\ i \in 1..(n + Len(E)) /\ ~(i <= n)
    BY <1>4, <1>7, <1>11
  <2>. QED
    BY <1>7, <1>8, <2>1
<1>13. among \in SUBSET AuthIds /\ replaced \in SUBSET among
  BY <1>6
<1>14. replaced \subseteq {line[i].id : i \in DOMAIN line}
  <2>. SUFFICES ASSUME NEW a \in replaced PROVE \E i \in DOMAIN line : line[i].id = a
    OBVIOUS
  <2>1. PICK i \in 1..m : pending[i].id = a
    BY <1>8 DEF Has
  <2>. QED
    BY <1>9, <2>1
<1>15. ASSUME NEW i \in DOMAIN line
       PROVE  next[i] = IF line[i].id \in replaced /\ Newest(i)
                        THEN [id |-> line[i].id, content |-> said'[line[i].id]] ELSE line[i]
  <2>0. i \in 1..(n + m) /\ i \in 1..(n + Len(E)) /\ i \in Nat
    BY <1>4, <1>7
  <2>1. CASE i <= n
    <3>1. next[i] = line[i]
      BY <1>7, <2>0, <2>1
    <3>2. ASSUME line[i].id \in replaced PROVE ~Newest(i)
      <4>1. PICK j \in 1..m : pending[j].id = line[i].id
        BY <1>8, <3>2 DEF Has
      <4>2. n + j > i /\ n + j \in DOMAIN line /\ line[n + j].id = line[i].id
        BY <1>4, <1>7, <1>9, <2>0, <2>1, <4>1
      <4>. QED
        BY <4>2
    <3>. QED
      BY <3>1, <3>2
  <2>2. CASE i > n
    <3>. DEFINE k == i - n
    <3>1. k \in 1..m /\ k \in 1..Len(E) /\ n + k = i /\ k \in DOMAIN pending
      BY <1>4, <1>7, <1>8, <2>0, <2>2
    <3>. HIDE DEF k
    <3>2. line[i] = pending[k] /\ next[i] = UpdateOf(S, pending[k].id, pending[k])
      BY <1>4, <1>9, <1>10, <3>1
    <3>3. Newest(i)
      <4>1. ASSUME NEW j \in DOMAIN line, j > i PROVE line[j].id # line[i].id
        <5>1. j - n \in 1..m /\ j - n \in DOMAIN pending /\ n + (j - n) = j /\ j - n # k
          BY <1>4, <1>7, <1>8, <2>0, <2>2, <3>1, <4>1
        <5>2. line[j] = pending[j - n]
          BY <1>9, <5>1
        <5>. QED
          BY <1>1, <3>1, <3>2, <5>1, <5>2 DEF Once
      <4>. QED
        BY <4>1
    <3>4. CASE line[i].id \in among
      <4>1. PICK u \in S : u.id = pending[k].id
        BY <3>2, <3>4
      <4>2. next[i] = u
        BY <1>1, <3>2, <4>1 DEF UpdateOf, Alone
      <4>3. line[i].id \in replaced
        BY <3>1, <3>2, <3>4 DEF Has
      <4>. QED
        BY <1>6, <3>2, <3>3, <4>1, <4>2, <4>3
    <3>5. CASE line[i].id \notin among
      <4>1. next[i] = line[i]
        BY <3>2, <3>5 DEF UpdateOf
      <4>. QED
        BY <3>5, <4>1
    <3>. QED
      BY <3>4, <3>5
  <2>. QED
    BY <1>7, <2>0, <2>1, <2>2
<1>16. {next[i] : i \in new} = {[id |-> a, content |-> said'[a]] : a \in among \ replaced}
  <2>1. ASSUME NEW i \in new
        PROVE  \E a \in among \ replaced : next[i] = [id |-> a, content |-> said'[a]]
    <3>1. next[i] \in S /\ ~Has(pending, next[i].id)
      BY <1>4, <1>12
    <3>. QED
      BY <1>6, <3>1
  <2>2. ASSUME NEW a \in among \ replaced
        PROVE  \E i \in new : next[i] = [id |-> a, content |-> said'[a]]
    <3>1. PICK u \in S : u.id = a
      OBVIOUS
    <3>2. ~Has(pending, u.id)
      BY <3>1
    <3>3. PICK k \in (m + 1)..Len(E) : E[k] = u
      BY <1>4, <3>2
    <3>4. k \in 1..Len(E) /\ n + k \in new
      BY <1>4, <1>7, <1>11
    <3>5. next[n + k] = u
      BY <1>10, <3>3, <3>4
    <3>. QED
      BY <1>6, <3>1, <3>4, <3>5
  <2>. DEFINE A == {next[i] : i \in new}
              B == {[id |-> a, content |-> said'[a]] : a \in among \ replaced}
  <2>3. A \subseteq B
    BY <2>1
  <2>4. B \subseteq A
    <3>. SUFFICES ASSUME NEW a \in among \ replaced PROVE [id |-> a, content |-> said'[a]] \in A
      OBVIOUS
    <3>1. PICK i \in new : next[i] = [id |-> a, content |-> said'[a]]
      BY <2>2
    <3>. QED
      BY <3>1
  <2>. QED
    BY <2>3, <2>4
<1>17. ASSUME NEW i \in new, NEW j \in new, next[i].id = next[j].id PROVE i = j
  <2>1. i - n = j - n
    BY <1>3, <1>12, <1>17 DEF Once
  <2>2. i \in Int /\ j \in Int
    BY <1>4, <1>7, <1>11
  <2>. QED
    BY <1>7, <2>1, <2>2
<1>. HIDE DEF among, replaced
<1>18. UNCHANGED manager /\ said' \in [AuthIds -> {Absent, 1} \cup Contents]
  BY <1>2, <1>3
<1>. QED
  <2>1. \E am \in SUBSET AuthIds : \E re \in SUBSET am :
            /\ said' \in [AuthIds -> {Absent, 1} \cup Contents]
            /\ \A a \in AuthIds \ am : said'[a] = said[a]
            /\ re \subseteq {line[i].id : i \in DOMAIN line}
            /\ DOMAIN next = DOMAIN line \cup new
            /\ \A i \in DOMAIN line :
                next[i] = IF line[i].id \in re /\ Newest(i)
                           THEN [id |-> line[i].id, content |-> said'[line[i].id]] ELSE line[i]
            /\ {next[i] : i \in new} = {[id |-> a, content |-> said'[a]] : a \in am \ re}
            /\ \A i, j \in new : next[i].id = next[j].id => i = j
            /\ UNCHANGED manager
    <3>. USE <1>13
    <3>. WITNESS among \in SUBSET AuthIds
    <3>. WITNESS replaced \in SUBSET among
    <3>. QED
      BY <1>6, <1>11, <1>13, <1>14, <1>15, <1>16, <1>17, <1>18
  <2>. QED
    BY <2>1 DEF Feed!Say, Feed!IsLast, line, next, new

LEMMA FeedStep ==
    ASSUME UpdatesInv, UpdatesInv', [UpdatesNext]_updateVars
    PROVE  [Feed!FeedNext]_(Feed!feedVars)
<1>1. PipeInv /\ WatchInv /\ taken \in Seq(Updates) /\ queue \in Seq(Updates) /\ batch \in Seq(Updates)
      /\ pending \in Seq(Updates) /\ Once(taken)
  BY DEF UpdatesInv, PipeInv
<1>2. taken \o queue \in Seq(Updates) /\ taken \o queue \o batch \in Seq(Updates)
  BY <1>1, UnderwayIs
<1>3. ASSUME UNCHANGED pipeVars PROVE UNCHANGED Feed!feedVars
  BY <1>3 DEF pipeVars, Feed!feedVars, Underway
<1>4. ASSUME NEW f \in Files, WriteFile(f) \/ RemoveFile(f) \/ Settle(f) PROVE UNCHANGED pipeVars
  BY <1>4 DEF WriteFile, RemoveFile, Settle
<1>5. ASSUME NEW f \in Logins, SaveLogin(f) PROVE UNCHANGED pipeVars
  BY <1>5 DEF SaveLogin
<1>6. HandleEvent \/ ComputeUpdates \/ BeginReload \/ Snapshot \/ Diff \/ RecordLogin => UNCHANGED pipeVars
  BY DEF HandleEvent, ComputeUpdates, BeginReload, Snapshot, Diff, RecordLogin
<1>7. ASSUME NEW c \in Channels, ProviderConnects(c) \/ ProviderLeaves(c) PROVE UNCHANGED pipeVars
  BY <1>7 DEF ProviderConnects, ProviderLeaves
<1>8. ASSUME NEW p \in Producers, Dispatch(p) PROVE Feed!FeedNext
  BY <1>8, DispatchSays DEF Feed!FeedNext
<1>9. ASSUME NextBatch PROVE UNCHANGED Feed!feedVars
  <2>1. batch = <<>> /\ batch' = pending /\ pending' = <<>> /\ UNCHANGED <<queue, taken, manager, said>>
    BY <1>9 DEF NextBatch
  <2>2. taken \o queue \o batch = taken \o queue
    BY <1>1, <1>2, <2>1, ConcatEmptySeq
  <2>3. (taken \o queue \o pending) \o <<>> = taken \o queue \o pending
    <3>1. taken \o queue \o pending \in Seq(Updates)
      BY <1>1, <1>2, ConcatProperties
    <3>. QED
      BY <3>1, ConcatEmptySeq
  <2>. QED
    BY <2>1, <2>2, <2>3 DEF Feed!feedVars, Underway
<1>10. ASSUME Send PROVE UNCHANGED Feed!feedVars
  <2>1. /\ batch # <<>> /\ queue' = Append(queue, Head(batch)) /\ batch' = Tail(batch)
        /\ UNCHANGED <<pending, taken, manager, said>>
    BY <1>10 DEF Send
  <2>2. queue' \in Seq(Updates) /\ batch' \in Seq(Updates)
    BY <1>1, <2>1
  <2>3. queue' \o batch' = queue \o batch
    BY <1>1, <2>1, SentStays
  <2>4. taken \o queue' \o batch' = taken \o queue \o batch
    <3>1. (taken \o queue') \o batch' = taken \o (queue' \o batch')
      BY <1>1, <2>2, ConcatAssociative, SMTT(30)
    <3>2. (taken \o queue) \o batch = taken \o (queue \o batch)
      BY <1>1, ConcatAssociative
    <3>. QED
      BY <2>3, <3>1, <3>2
  <2>. QED
    BY <2>1, <2>4 DEF Feed!feedVars, Underway
<1>11. ASSUME Drain PROVE [Feed!FeedNext]_(Feed!feedVars)
  <2>1. /\ queue # <<>> /\ taken' = Merged(taken, Head(queue)) /\ queue' = Tail(queue)
        /\ UNCHANGED <<pending, batch, manager, said>>
    BY <1>11 DEF Drain
  <2>. DEFINE front == taken \o queue
              most == front \o batch
  <2>0. front \in Seq(Updates) /\ most \in Seq(Updates)
    BY <1>2
  <2>2. CASE Has(taken, Head(queue).id)
    <3>1. PICK i, j \in DOMAIN front :
              /\ Feed!Follows(front, i, j)
              /\ taken' \o queue' = Feed!Moved(front, i, j)
      BY <1>1, <2>1, <2>2, MergedMoves
    <3>. HIDE DEF front
    <3>2. /\ i \in DOMAIN (front \o batch) /\ j \in DOMAIN (front \o batch)
          /\ Feed!Follows(front \o batch, i, j)
          /\ Feed!Moved(front \o batch, i, j) = Feed!Moved(front, i, j) \o batch
      BY <1>1, <2>0, <3>1, MovedInFront
    <3>. HIDE DEF most
    <3>3. /\ i \in DOMAIN (most \o pending) /\ j \in DOMAIN (most \o pending)
          /\ Feed!Follows(most \o pending, i, j)
          /\ Feed!Moved(most \o pending, i, j) = Feed!Moved(most, i, j) \o pending
      <4>1. i \in DOMAIN most /\ j \in DOMAIN most /\ Feed!Follows(most, i, j)
        BY <3>2 DEF most
      <4>. QED
        BY <1>1, <2>0, <4>1, MovedInFront
    <3>4. Underway = most \o pending /\ Underway' = taken' \o queue' \o batch \o pending
      BY <2>1 DEF Underway, most, front
    <3>5. Underway' = Feed!Moved(Underway, i, j)
      BY <3>1, <3>2, <3>3, <3>4 DEF most
    <3>. QED
      BY <2>1, <3>3, <3>4, <3>5 DEF Feed!FeedNext, Feed!Merge
  <2>3. CASE ~Has(taken, Head(queue).id)
    <3>1. taken' = Append(taken, Head(queue))
      BY <2>1, <2>3 DEF Merged, Place, Has
    <3>2. taken' \o queue' = taken \o queue
      BY <1>1, <2>1, <3>1, SentStays
    <3>. QED
      BY <2>1, <3>2 DEF Feed!feedVars, Underway
  <2>. QED
    BY <2>2, <2>3
<1>12. ASSUME Drained PROVE UNCHANGED Feed!feedVars
  BY <1>12 DEF Drained, Feed!feedVars, Underway
<1>13. ASSUME Apply PROVE Feed!FeedNext
  <2>1. /\ taken # <<>> /\ taken' = Tail(taken)
        /\ manager' = [manager EXCEPT ![Head(taken).id] = Head(taken).content]
        /\ UNCHANGED <<pending, batch, queue, said>>
    BY <1>13 DEF Apply
  <2>. DEFINE front == taken \o queue
              most == front \o batch
  <2>2. front \in Seq(Updates) /\ most \in Seq(Updates)
    BY <1>2
  <2>3. front # <<>> /\ Head(front) = Head(taken) /\ Tail(front) = taken' \o queue
    BY <1>1, <2>1, FrontIs
  <2>. HIDE DEF front
  <2>4. most # <<>> /\ Head(most) = Head(front) /\ Tail(most) = Tail(front) \o batch
    BY <1>1, <2>2, <2>3, FrontIs
  <2>. HIDE DEF most
  <2>5. /\ most \o pending # <<>> /\ Head(most \o pending) = Head(most)
        /\ Tail(most \o pending) = Tail(most) \o pending
    BY <1>1, <2>2, <2>4, FrontIs
  <2>6. Underway = most \o pending /\ Underway' = taken' \o queue \o batch \o pending
    BY <2>1 DEF Underway, most, front
  <2>7. Underway' = Tail(Underway) /\ Underway # <<>> /\ Head(Underway) = Head(taken)
    BY <2>3, <2>4, <2>5, <2>6
  <2>. QED
    BY <2>1, <2>7 DEF Feed!FeedNext, Feed!Hear
<1>14. CASE UNCHANGED updateVars
  BY <1>3, <1>14 DEF updateVars
<1>15. ASSUME Sleep PROVE UNCHANGED Feed!feedVars
  BY <1>15 DEF Sleep, Feed!feedVars, Underway
<1>. QED
  BY <1>3, <1>4, <1>5, <1>6, <1>7, <1>8, <1>9, <1>10, <1>11, <1>12, <1>13, <1>14, <1>15
     DEF UpdatesNext, Loop, Consume

\* Pending updates, batch, channel and drained updates are together one line, on which
\* nothing is overtaken by an update of its auth, and nothing left out but for the one
\* that follows it.
THEOREM FeedImplemented == UpdatesSpec => ImplementsFeed
<1>1. UpdatesInit => Feed!FeedInit
  <2>. SUFFICES ASSUME UpdatesInit PROVE Feed!FeedInit
    OBVIOUS
  <2>1. /\ pending = <<>> /\ batch = <<>> /\ queue = <<>> /\ taken = <<>>
        /\ manager = current /\ said = current
        /\ current \in [AuthIds -> {Absent, 1} \cup Contents]
    BY DEF UpdatesInit
  <2>2. <<>> \o <<>> = <<>>
    BY ConcatEmptySeq
  <2>3. Underway = <<>>
    BY <2>1, <2>2 DEF Underway
  <2>. QED
    BY <2>1, <2>3 DEF Feed!FeedInit
<1>2. UpdatesInv /\ UpdatesInv' /\ [UpdatesNext]_updateVars => [Feed!FeedNext]_(Feed!feedVars)
  BY FeedStep
<1>. QED
  BY <1>1, <1>2, UpdatesInvariance, PTL DEF UpdatesSpec, ImplementsFeed, Feed!FeedSpec

-----------------------------------------------------------------------------
(* UsageRecords: sequences of records.                                     *)

Kept == [rec: Records, left: 0..Retention]

\* None is above k; all of s are below all of t; none is in both.
UpTo(s, k) == \A i \in DOMAIN s : s[i] <= k
Before(s, t) == \A i \in DOMAIN s, j \in DOMAIN t : s[i] < t[j]
Apart(s, t) == \A i \in DOMAIN s, j \in DOMAIN t : s[i] # t[j]

\* t is what s has after its first k elements, or the first ones of that.
PartOf(t, s, k) == Len(t) + k <= Len(s) /\ \A i \in 1..Len(t) : t[i] = s[k + i]

LEMMA RecordsAre == /\ Records \subseteq Nat \ {0} /\ Refresh \notin Records /\ Refresh = 0
                    /\ \A s \in Seq(Records) : /\ Len(s) \in Nat /\ DOMAIN s = 1..Len(s)
                                               /\ \A i \in 1..Len(s) : s[i] \in Records /\ s[i] \in Nat
BY UsageAssumption DEF Records, Refresh

LEMMA Parts ==
    ASSUME NEW s \in Seq(Records), NEW t \in Seq(Records), NEW k \in Nat, PartOf(t, s, k)
    PROVE  /\ Rising(s) => Rising(t)
           /\ \A n : UpTo(s, n) => UpTo(t, n)
           /\ \A u : (Before(u, s) => Before(u, t)) /\ (Apart(u, s) => Apart(u, t))
<1>0. Len(s) \in Nat /\ Len(t) \in Nat /\ DOMAIN s = 1..Len(s) /\ DOMAIN t = 1..Len(t)
  OBVIOUS
<1>1. \A i \in DOMAIN t : k + i \in DOMAIN s /\ t[i] = s[k + i] /\ i \in Nat
  BY <1>0 DEF PartOf
<1>2. Rising(s) => Rising(t)
  <2>1. \A i, j \in DOMAIN t : i < j => k + i < k + j
    BY <1>1
  <2>. QED
    BY <1>1, <2>1 DEF Rising
<1>3. \A n : UpTo(s, n) => UpTo(t, n)
  BY <1>1 DEF UpTo
<1>4. \A u : (Before(u, s) => Before(u, t)) /\ (Apart(u, s) => Apart(u, t))
  BY <1>1 DEF Before, Apart
<1>. QED
  BY <1>2, <1>3, <1>4

LEMMA Appended ==
    ASSUME NEW s \in Seq(Records), NEW x \in Records
    PROVE  /\ Append(s, x) \in Seq(Records)
           /\ Rising(s) /\ UpTo(s, x - 1) => Rising(Append(s, x))
           /\ \A n : UpTo(s, n) /\ x <= n => UpTo(Append(s, x), n)
           /\ \A t \in Seq(Records) : UpTo(t, x - 1) =>
                 /\ Before(t, s) => Before(t, Append(s, x))
                 /\ Apart(t, s) => Apart(t, Append(s, x))
                 /\ Apart(s, t) => Apart(Append(s, x), t)
<1>. DEFINE v == Append(s, x)
            n == Len(s) + 1
<1>1. /\ v \in Seq(Records) /\ n \in Nat /\ v[n] = x /\ n \in DOMAIN v
      /\ \A i \in DOMAIN s : i \in DOMAIN v /\ v[i] = s[i] /\ i < n /\ i \in Nat
      /\ \A i \in DOMAIN v : i = n \/ i \in DOMAIN s
  OBVIOUS
<1>. HIDE DEF v, n
<1>2. x \in Nat /\ \A i \in DOMAIN s : s[i] \in Nat
  BY RecordsAre
<1>3. Rising(s) /\ UpTo(s, x - 1) => Rising(v)
  <2>. SUFFICES ASSUME Rising(s), UpTo(s, x - 1), NEW i \in DOMAIN v, NEW j \in DOMAIN v, i < j
                PROVE  v[i] < v[j]
    BY DEF Rising
  <2>1. i \in DOMAIN s /\ v[i] = s[i]
    BY <1>1
  <2>2. CASE j = n
    <3>1. s[i] <= x - 1
      BY <2>1 DEF UpTo
    <3>. QED
      BY <1>1, <1>2, <2>1, <2>2, <3>1
  <2>3. CASE j \in DOMAIN s
    BY <1>1, <2>1, <2>3 DEF Rising
  <2>. QED
    BY <1>1, <2>2, <2>3
<1>4. \A m : UpTo(s, m) /\ x <= m => UpTo(v, m)
  BY <1>1 DEF UpTo
<1>5. ASSUME NEW t \in Seq(Records), UpTo(t, x - 1)
      PROVE  /\ Before(t, s) => Before(t, v)
             /\ Apart(t, s) => Apart(t, v)
             /\ Apart(s, t) => Apart(v, t)
  <2>1. \A i \in DOMAIN t : t[i] < x /\ t[i] # x
    <3>. SUFFICES ASSUME NEW i \in DOMAIN t PROVE t[i] < x /\ t[i] # x
      OBVIOUS
    <3>1. t[i] <= x - 1 /\ t[i] \in Nat
      BY <1>5, RecordsAre DEF UpTo
    <3>. QED
      BY <1>2, <3>1
  <2>. QED
    BY <1>1, <2>1 DEF Before, Apart
<1>. QED
  BY <1>1, <1>3, <1>4, <1>5 DEF v

\* What is taken from the head of s and put behind p, and what is left, u.
LEMMA TakenOver ==
    ASSUME NEW p \in Seq(Records), NEW s \in Seq(Records), NEW t \in Seq(Records),
           NEW u \in Seq(Records), NEW k \in Nat, NEW j \in Nat,
           PartOf(t, s, k), PartOf(u, s, j), k + Len(t) <= j,
           Rising(p), Rising(s), Before(p, s)
    PROVE  /\ p \o t \in Seq(Records) /\ Rising(p \o t) /\ Before(p \o t, u)
           /\ \A n : UpTo(p, n) /\ UpTo(s, n) => UpTo(p \o t, n)
           /\ \A q : Apart(q, p) /\ Apart(q, s) => Apart(q, p \o t)
<1>. DEFINE v == p \o t
            m == Len(p)
<1>1. /\ v \in Seq(Records) /\ m \in Nat /\ Len(t) \in Nat /\ DOMAIN p = 1..m /\ DOMAIN t = 1..Len(t)
      /\ DOMAIN v = 1..(m + Len(t))
      /\ \A i \in 1..m : v[i] = p[i]
      /\ \A i \in 1..Len(t) : v[m + i] = t[i]
  OBVIOUS
<1>. HIDE DEF v, m
<1>2. \A i \in DOMAIN v : \/ i \in DOMAIN p /\ v[i] = p[i] /\ i <= m
                          \/ /\ i > m /\ i - m \in DOMAIN t /\ v[i] = t[i - m]
                             /\ k + (i - m) \in DOMAIN s /\ v[i] = s[k + (i - m)]
  <2>. SUFFICES ASSUME NEW i \in DOMAIN v, i > m
                PROVE  /\ i - m \in DOMAIN t /\ v[i] = t[i - m]
                       /\ k + (i - m) \in DOMAIN s /\ v[i] = s[k + (i - m)]
    BY <1>1
  <2>1. i - m \in 1..Len(t) /\ m + (i - m) = i
    BY <1>1
  <2>2. v[i] = t[i - m]
    BY <1>1, <2>1
  <2>. QED
    BY <1>1, <2>1, <2>2, RecordsAre DEF PartOf
<1>3. \A i \in DOMAIN u : j + i \in DOMAIN s /\ u[i] = s[j + i] /\ i \in Nat \ {0}
  <2>1. Len(s) \in Nat /\ Len(u) \in Nat /\ DOMAIN s = 1..Len(s) /\ DOMAIN u = 1..Len(u)
    OBVIOUS
  <2>. QED
    BY <2>1 DEF PartOf
<1>4. Rising(v)
  <2>. SUFFICES ASSUME NEW i \in DOMAIN v, NEW l \in DOMAIN v, i < l PROVE v[i] < v[l]
    BY DEF Rising
  <2>1. CASE l <= m
    BY <1>1, <1>2, <2>1 DEF Rising
  <2>2. CASE i <= m /\ l > m
    BY <1>1, <1>2, <2>2, SMTT(30) DEF Before
  <2>3. CASE i > m
    <3>1. /\ k + (i - m) \in DOMAIN s /\ v[i] = s[k + (i - m)]
          /\ k + (l - m) \in DOMAIN s /\ v[l] = s[k + (l - m)]
      BY <1>1, <1>2, <2>3
    <3>2. k + (i - m) < k + (l - m)
      BY <1>1
    <3>. QED
      BY <3>1, <3>2 DEF Rising
  <2>. QED
    BY <1>1, <2>1, <2>2, <2>3
<1>5. Before(v, u)
  <2>. SUFFICES ASSUME NEW i \in DOMAIN v, NEW l \in DOMAIN u PROVE v[i] < u[l]
    BY DEF Before
  <2>1. CASE i <= m
    BY <1>1, <1>2, <1>3, <2>1 DEF Before
  <2>2. CASE i > m
    <3>1. k + (i - m) \in DOMAIN s /\ v[i] = s[k + (i - m)] /\ i - m \in 1..Len(t)
      BY <1>1, <1>2, <2>2
    <3>2. k + (i - m) < j + l
      BY <1>1, <1>3, <3>1, SMTT(30)
    <3>. QED
      BY <1>3, <3>1, <3>2 DEF Rising
  <2>. QED
    BY <1>1, <2>1, <2>2
<1>6. \A n : UpTo(p, n) /\ UpTo(s, n) => UpTo(v, n)
  BY <1>2 DEF UpTo
<1>7. \A q : Apart(q, p) /\ Apart(q, s) => Apart(q, v)
  BY <1>2 DEF Apart
<1>. QED
  BY <1>1, <1>4, <1>5, <1>6, <1>7 DEF v

LEMMA KeptIs ==
    ASSUME NEW s \in Seq(Kept)
    PROVE  /\ Len(s) \in Nat /\ DOMAIN s = 1..Len(s)
           /\ \A i \in 1..Len(s) : /\ s[i] \in Kept /\ s[i].rec \in Records
                                   /\ s[i].left \in 0..Retention
<1>1. Len(s) \in Nat /\ DOMAIN s = 1..Len(s) /\ \A i \in 1..Len(s) : s[i] \in Kept
  OBVIOUS
<1>2. \A x \in Kept : x.rec \in Records /\ x.left \in 0..Retention
  BY DEF Kept
<1>. QED
  BY <1>1, <1>2

LEMMA RecordsInIs ==
    ASSUME NEW s \in Seq(Kept)
    PROVE  /\ RecordsIn(s) \in Seq(Records) /\ Len(RecordsIn(s)) = Len(s)
           /\ \A i \in 1..Len(s) : RecordsIn(s)[i] = s[i].rec
<1>. QED
  BY KeptIs DEF RecordsIn

LEMMA SubSeqIs ==
    ASSUME NEW T, NEW s \in Seq(T), NEW k \in Nat, NEW m \in k..Len(s)
    PROVE  /\ SubSeq(s, k + 1, m) \in Seq(T) /\ Len(SubSeq(s, k + 1, m)) = m - k
           /\ \A i \in 1..(m - k) : SubSeq(s, k + 1, m)[i] = s[k + i]
OBVIOUS

\* The records at the head whose time is over are dropped.
LEMMA PrunedIs ==
    ASSUME items \in Seq(Kept)
    PROVE  /\ Pruned \in Seq(Kept) /\ PrunedRecords \in SUBSET Records
           /\ \E k \in Nat : /\ Len(Pruned) + k = Len(items)
                             /\ \A i \in 1..Len(Pruned) : Pruned[i] = items[k + i]
<1>. DEFINE old == {i \in DOMAIN items : \A j \in 1..i : items[j].left = 0}
            n == Len(items)
<1>1. n \in Nat /\ DOMAIN items = 1..n /\ \A i \in 1..n : items[i].rec \in Records
  BY KeptIs
<1>2. IsFiniteSet(1..n) /\ Cardinality(1..n) = n
  <2>1. 1 \in Int /\ n \in Int
    BY <1>1
  <2>. HIDE DEF n
  <2>2. IsFiniteSet(1..n) /\ Cardinality(1..n) = IF 1 > n THEN 0 ELSE n - 1 + 1
    BY <2>1, FS_Interval
  <2>. QED
    BY <1>1, <2>2
<1>3. old \in SUBSET (1..n)
  BY <1>1
<1>4. Outdated = Cardinality(old)
  BY DEF Outdated
<1>. HIDE DEF old, n
<1>5. Outdated \in 0..n
  <2>1. IsFiniteSet(old) /\ Cardinality(old) <= Cardinality(1..n)
    BY <1>2, <1>3, FS_Subset
  <2>2. Cardinality(old) \in Nat
    BY <2>1, FS_CardinalityType
  <2>. QED
    BY <1>1, <1>2, <1>4, <2>1, <2>2
<1>6. PrunedRecords \in SUBSET Records
  BY <1>1, <1>5 DEF PrunedRecords
<1>7. Pruned = SubSeq(items, Outdated + 1, n)
  BY DEF Pruned, n
<1>8. /\ Pruned \in Seq(Kept) /\ Len(Pruned) = n - Outdated
      /\ \A i \in 1..(n - Outdated) : Pruned[i] = items[Outdated + i]
  <2>1. Outdated \in Nat /\ n \in Outdated..Len(items)
    BY <1>1, <1>5 DEF n
  <2>. QED
    BY <1>7, <2>1, SubSeqIs
<1>9. Outdated \in Nat /\ Len(Pruned) + Outdated = Len(items)
  BY <1>1, <1>5, <1>8 DEF n
<1>10. \A i \in 1..Len(Pruned) : Pruned[i] = items[Outdated + i]
  BY <1>8
<1>. QED
  BY <1>6, <1>8, <1>9, <1>10

LEMMA PoppedIs ==
    ASSUME items \in Seq(Kept), NEW n \in Nat
    PROVE  /\ Unpopped(n) \in Seq(Kept) /\ Popped(n) \in Seq(Kept)
           /\ \E k, j \in Nat : /\ PartOf(RecordsIn(Popped(n)), RecordsIn(items), k)
                                /\ PartOf(RecordsIn(Unpopped(n)), RecordsIn(items), j)
                                /\ k + Len(RecordsIn(Popped(n))) <= j
<1>. DEFINE p == Pruned
            l == Len(p)
            m == IF n <= l THEN n ELSE l
            u == Unpopped(n)
            t == Popped(n)
<1>0. PICK k \in Nat : /\ Len(p) + k = Len(items)
                       /\ \A i \in 1..Len(p) : p[i] = items[k + i]
  BY PrunedIs
<1>2. p \in Seq(Kept)
  BY PrunedIs
<1>13. u = SubSeq(p, n + 1, l) /\ t = SubSeq(p, 1, l - Len(u))
  BY DEF Unpopped, Popped
<1>. HIDE DEF p, u, t
<1>1. l \in Nat /\ DOMAIN p = 1..l
  BY <1>2
<1>3. m \in 0..l
  BY <1>1
<1>4. u = SubSeq(p, m + 1, l)
  <2>1. CASE n <= l
    BY <1>13, <2>1
  <2>2. CASE ~(n <= l)
    <3>1. u = <<>>
      BY <1>1, <1>13, <2>2, SubSeqEmpty
    <3>2. SubSeq(p, l + 1, l) = <<>>
      BY <1>1, SubSeqEmpty
    <3>. QED
      BY <2>2, <3>1, <3>2
  <2>. QED
    BY <2>1, <2>2
<1>. HIDE DEF m
<1>5. /\ u \in Seq(Kept) /\ Len(u) = l - m
      /\ \A i \in 1..(l - m) : u[i] = p[m + i]
  <2>1. m \in Nat /\ l \in m..Len(p)
    BY <1>1, <1>3
  <2>. QED
    BY <1>2, <1>4, <2>1, SubSeqIs
<1>6. l - Len(u) = m
  BY <1>1, <1>3, <1>5
<1>7. /\ t \in Seq(Kept) /\ Len(t) = m
      /\ \A i \in 1..m : t[i] = p[i]
  <2>1. 0 \in Nat /\ m \in 0..Len(p) /\ m - 0 = m
    BY <1>1, <1>3
  <2>2. /\ SubSeq(p, 0 + 1, m) \in Seq(Kept) /\ Len(SubSeq(p, 0 + 1, m)) = m - 0
        /\ \A i \in 1..(m - 0) : SubSeq(p, 0 + 1, m)[i] = p[0 + i]
    BY <1>2, <2>1, SubSeqIs
  <2>3. t = SubSeq(p, 0 + 1, m)
    BY <1>13, <1>6
  <2>4. \A i \in 1..m : 0 + i = i
    OBVIOUS
  <2>. QED
    BY <2>1, <2>2, <2>3, <2>4
<1>. HIDE DEF l
<1>8. /\ Len(RecordsIn(t)) = m /\ Len(RecordsIn(u)) = l - m
      /\ Len(RecordsIn(items)) = l + k
      /\ \A i \in 1..m : RecordsIn(t)[i] = p[i].rec
      /\ \A i \in 1..(l - m) : RecordsIn(u)[i] = p[m + i].rec
      /\ \A i \in 1..(l + k) : RecordsIn(items)[i] = items[i].rec
  <2>1. /\ Len(RecordsIn(t)) = m
        /\ \A i \in 1..m : RecordsIn(t)[i] = t[i].rec
    BY <1>7, RecordsInIs
  <2>2. /\ Len(RecordsIn(u)) = l - m
        /\ \A i \in 1..(l - m) : RecordsIn(u)[i] = u[i].rec
    BY <1>5, RecordsInIs
  <2>3. /\ Len(RecordsIn(items)) = Len(items)
        /\ \A i \in 1..Len(items) : RecordsIn(items)[i] = items[i].rec
    BY RecordsInIs
  <2>4. Len(items) = l + k
    BY <1>0 DEF l
  <2>. QED
    BY <1>5, <1>7, <2>1, <2>2, <2>3, <2>4
<1>9. \A i \in 1..l : p[i].rec = RecordsIn(items)[k + i]
  <2>1. \A i \in 1..l : k + i \in 1..(l + k)
    BY <1>1
  <2>. QED
    BY <1>0, <1>8, <2>1 DEF l
<1>10. PartOf(RecordsIn(t), RecordsIn(items), k)
  <2>1. m + k <= l + k /\ \A i \in 1..m : i \in 1..l
    BY <1>1, <1>3
  <2>. QED
    BY <1>8, <1>9, <2>1 DEF PartOf
<1>11. PartOf(RecordsIn(u), RecordsIn(items), k + m)
  <2>1. /\ (l - m) + (k + m) <= l + k
        /\ \A i \in 1..(l - m) : m + i \in 1..l /\ k + (m + i) = (k + m) + i
    BY <1>1, <1>3
  <2>. QED
    BY <1>8, <1>9, <2>1 DEF PartOf
<1>12. k + m \in Nat /\ k + Len(RecordsIn(t)) <= k + m
  BY <1>3, <1>8
<1>. QED
  BY <1>5, <1>7, <1>10, <1>11, <1>12 DEF u, t

-----------------------------------------------------------------------------
(* UsageRecords: what a subscriber was handed.                             *)

Payloads == Records \cup {Refresh}
Counting(chan, n) == {i \in 1..n : chan[i] # Refresh}

LEMMA AmongIs ==
    ASSUME NEW chan, NEW n \in Nat
    PROVE  IsFiniteSet(Counting(chan, n)) /\ RecordsAmong(chan, n) \in 0..n
<1>1. IsFiniteSet(1..n) /\ Cardinality(1..n) = n
  <2>1. IsFiniteSet(1..n) /\ Cardinality(1..n) = IF 1 > n THEN 0 ELSE n - 1 + 1
    BY FS_Interval
  <2>. QED
    BY <2>1
<1>2. /\ IsFiniteSet(Counting(chan, n)) /\ Cardinality(Counting(chan, n)) <= n
  <2>1. Counting(chan, n) \in SUBSET (1..n)
    BY DEF Counting
  <2>. QED
    BY <1>1, <2>1, FS_Subset
<1>3. Cardinality(Counting(chan, n)) \in Nat
  BY <1>2, FS_CardinalityType
<1>. QED
  BY <1>2, <1>3 DEF RecordsAmong, Counting

LEMMA AmongMore ==
    ASSUME NEW chan, NEW n \in Nat
    PROVE  /\ RecordsAmong(chan, 0) = 0
           /\ chan[n + 1] = Refresh => RecordsAmong(chan, n + 1) = RecordsAmong(chan, n)
           /\ chan[n + 1] # Refresh => RecordsAmong(chan, n + 1) = RecordsAmong(chan, n) + 1
<1>1. RecordsAmong(chan, 0) = 0
  <2>1. RecordsAmong(chan, 0) \in 0..0
    BY AmongIs
  <2>. QED
    BY <2>1
<1>2. chan[n + 1] = Refresh => RecordsAmong(chan, n + 1) = RecordsAmong(chan, n)
  <2>1. chan[n + 1] = Refresh => {i \in 1..(n + 1) : chan[i] # Refresh} = {i \in 1..n : chan[i] # Refresh}
    OBVIOUS
  <2>. QED
    BY <2>1 DEF RecordsAmong
<1>3. ASSUME chan[n + 1] # Refresh
      PROVE  RecordsAmong(chan, n + 1) = RecordsAmong(chan, n) + 1
  <2>1. Counting(chan, n + 1) = Counting(chan, n) \cup {n + 1} /\ n + 1 \notin Counting(chan, n)
    BY <1>3 DEF Counting
  <2>2. IsFiniteSet(Counting(chan, n))
    BY AmongIs
  <2>3. Cardinality(Counting(chan, n) \cup {n + 1}) = Cardinality(Counting(chan, n)) + 1
    BY <2>1, <2>2, FS_AddElement
  <2>. QED
    BY <2>1, <2>3 DEF RecordsAmong, Counting
<1>. QED
  BY <1>1, <1>2, <1>3

LEMMA AmongSame ==
    ASSUME NEW chan, NEW other, NEW n \in Nat, \A i \in 1..n : other[i] = chan[i]
    PROVE  RecordsAmong(other, n) = RecordsAmong(chan, n)
<1>1. {i \in 1..n : other[i] # Refresh} = {i \in 1..n : chan[i] # Refresh}
  OBVIOUS
<1>. QED
  BY <1>1 DEF RecordsAmong

LEMMA AmongRises ==
    ASSUME NEW chan, NEW n \in Nat, NEW m \in 0..n
    PROVE  RecordsAmong(chan, m) <= RecordsAmong(chan, n)
<1>1. m \in Nat /\ Counting(chan, m) \in SUBSET Counting(chan, n)
  BY DEF Counting
<1>2. IsFiniteSet(Counting(chan, n))
  BY AmongIs
<1>3. Cardinality(Counting(chan, m)) <= Cardinality(Counting(chan, n))
  BY <1>1, <1>2, FS_Subset
<1>. QED
  BY <1>3 DEF RecordsAmong, Counting

\* One element less at the head.
LEMMA AmongTail ==
    ASSUME NEW chan, NEW other, NEW n \in Nat, \A i \in 1..n : other[i] = chan[i + 1]
    PROVE  /\ chan[1] = Refresh => RecordsAmong(other, n) = RecordsAmong(chan, n + 1)
           /\ chan[1] # Refresh => RecordsAmong(other, n) + 1 = RecordsAmong(chan, n + 1)
<1>. DEFINE A == Counting(other, n)
            B == {i \in 2..(n + 1) : chan[i] # Refresh}
            f == [i \in A |-> i + 1]
<1>1. IsFiniteSet(A)
  BY AmongIs
<1>2. \A i \in A : i \in 1..n /\ f[i] = i + 1 /\ f[i] \in B
  BY DEF Counting
<1>3. \A b \in B : b - 1 \in A /\ b \in Int
  BY DEF Counting
<1>4. f \in Bijection(A, B)
  <2>1. f \in [A -> B]
    BY <1>2
  <2>2. f \in Injection(A, B)
    <3>1. \A a, b \in A : f[a] = f[b] => a = b
      BY <1>2
    <3>. HIDE DEF A, B, f
    <3>. QED
      BY <2>1, <3>1 DEF Injection, IsInjective
  <2>3. f \in Surjection(A, B)
    <3>1. \A b \in B : b - 1 \in A /\ f[b - 1] = b
      BY <1>2, <1>3
    <3>. HIDE DEF A, B, f
    <3>. QED
      BY <2>1, <3>1 DEF Surjection
  <2>. QED
    BY <2>2, <2>3 DEF Bijection
<1>5. IsFiniteSet(B) /\ Cardinality(B) = Cardinality(A)
  <2>. HIDE DEF A, B, f
  <2>1. ExistsBijection(A, B)
    BY <1>4 DEF ExistsBijection
  <2>. QED
    BY <1>1, <2>1, FS_Bijection
<1>6. RecordsAmong(other, n) = Cardinality(A)
  BY DEF RecordsAmong, Counting
<1>7. ASSUME chan[1] = Refresh PROVE RecordsAmong(chan, n + 1) = Cardinality(B)
  <2>1. {i \in 1..(n + 1) : chan[i] # Refresh} = B
    BY <1>7
  <2>. QED
    BY <2>1 DEF RecordsAmong
<1>8. ASSUME chan[1] # Refresh PROVE RecordsAmong(chan, n + 1) = Cardinality(B) + 1
  <2>1. {i \in 1..(n + 1) : chan[i] # Refresh} = B \cup {1}
    BY <1>8
  <2>2. 1 \notin B
    OBVIOUS
  <2>. HIDE DEF B
  <2>3. Cardinality(B \cup {1}) = Cardinality(B) + 1
    BY <1>5, <2>2, FS_AddElement
  <2>. QED
    BY <2>1, <2>3 DEF RecordsAmong
<1>. HIDE DEF A, B
<1>. QED
  BY <1>5, <1>6, <1>7, <1>8

\* The condition that UsageInOrder puts on a subscriber, element by element.
Follows(c, log) ==
    /\ c.from + Len(c.got) + RecordsAmong(c.chan, Len(c.chan)) <= Len(log)
    /\ c.open => c.from + Len(c.got) + RecordsAmong(c.chan, Len(c.chan)) = Len(log)
    /\ \A i \in 1..Len(c.got) : c.got[i] = log[c.from + i]
    /\ \A i \in 1..Len(c.chan) :
          c.chan[i] # Refresh => c.chan[i] = log[c.from + Len(c.got) + RecordsAmong(c.chan, i)]

LEMMA SubIs ==
    ASSUME NEW c \in Sub
    PROVE  /\ c.open \in BOOLEAN /\ c.chan \in Seq(Payloads) /\ c.from \in Nat /\ c.got \in Seq(Records)
           /\ Len(c.chan) \in Nat /\ Len(c.got) \in Nat
           /\ \A i \in 0..Len(c.chan) : RecordsAmong(c.chan, i) \in 0..i
           /\ \A i \in 0..Len(c.chan) : RecordsAmong(c.chan, i) <= RecordsAmong(c.chan, Len(c.chan))
<1>1. c.open \in BOOLEAN /\ c.chan \in Seq(Payloads) /\ c.from \in Nat /\ c.got \in Seq(Records)
  BY DEF Sub, Payloads
<1>2. Len(c.chan) \in Nat /\ Len(c.got) \in Nat
  BY <1>1
<1>3. \A i \in 0..Len(c.chan) : i \in Nat
  BY <1>2
<1>. QED
  BY <1>1, <1>2, <1>3, AmongIs, AmongRises

\* Who is closed need not be handed what is sent from then on.
LEMMA SentMore ==
    ASSUME NEW c \in Sub, NEW log \in Seq(Records), NEW x \in Records, Follows(c, log), ~c.open
    PROVE  Follows(c, Append(log, x))
<1>1. /\ Len(log) \in Nat /\ Len(Append(log, x)) = Len(log) + 1
      /\ \A i \in 1..Len(log) : Append(log, x)[i] = log[i]
  OBVIOUS
<1>6. RecordsAmong(c.chan, Len(c.chan)) \in Nat
  BY SubIs
<1>8. c.from \in Nat /\ Len(c.got) \in Nat /\ c.from + Len(c.got) <= Len(log)
  BY <1>1, <1>6, SubIs DEF Follows
<1>2. \A i \in 1..Len(c.got) : c.from + i \in 1..Len(log)
  BY <1>1, <1>8
<1>3. ASSUME NEW i \in 1..Len(c.chan), c.chan[i] # Refresh
      PROVE  c.from + Len(c.got) + RecordsAmong(c.chan, i) \in 1..Len(log)
  <2>1. RecordsAmong(c.chan, i) \in Nat /\ RecordsAmong(c.chan, i) >= 1
    <3>1. i - 1 \in Nat /\ i - 1 \in 0..Len(c.chan) /\ (i - 1) + 1 = i
      BY SubIs
    <3>2. RecordsAmong(c.chan, i) = RecordsAmong(c.chan, i - 1) + 1
      BY <1>3, <3>1, AmongMore
    <3>. QED
      BY <3>1, <3>2, SubIs
  <2>2. RecordsAmong(c.chan, i) <= RecordsAmong(c.chan, Len(c.chan))
    BY SubIs
  <2>3. RecordsAmong(c.chan, Len(c.chan)) \in Nat
    BY SubIs
  <2>. QED
    BY <1>1, <2>1, <2>2, <2>3, SubIs DEF Follows
<1>4. \A i \in 1..Len(c.got) : c.got[i] = Append(log, x)[c.from + i]
  BY <1>1, <1>2 DEF Follows
<1>5. \A i \in 1..Len(c.chan) : c.chan[i] # Refresh =>
          c.chan[i] = Append(log, x)[c.from + Len(c.got) + RecordsAmong(c.chan, i)]
  BY <1>1, <1>3 DEF Follows
<1>7. c.from + Len(c.got) + RecordsAmong(c.chan, Len(c.chan)) <= Len(Append(log, x))
  BY <1>1, <1>6, SubIs DEF Follows
<1>. QED
  BY <1>4, <1>5, <1>7 DEF Follows

LEMMA Closes ==
    ASSUME NEW c \in Sub, NEW log, Follows(c, log)
    PROVE  [c EXCEPT !.open = FALSE] \in Sub /\ Follows([c EXCEPT !.open = FALSE], log)
<1>. DEFINE d == [c EXCEPT !.open = FALSE]
<1>1. d \in Sub /\ ~d.open /\ d.chan = c.chan /\ d.from = c.from /\ d.got = c.got
  BY DEF Sub
<1>. HIDE DEF d
<1>. QED
  BY <1>1 DEF Follows, d

\* A payload more in the channel.
LEMMA PayloadMore ==
    ASSUME NEW c \in Sub, NEW x \in Payloads
    PROVE  LET d == [c EXCEPT !.chan = Append(@, x)]
           IN  /\ d \in Sub /\ d.open = c.open /\ d.from = c.from /\ d.got = c.got
               /\ Len(d.chan) = Len(c.chan) + 1 /\ d.chan[Len(c.chan) + 1] = x
               /\ \A i \in 1..Len(c.chan) : d.chan[i] = c.chan[i]
               /\ \A i \in 0..Len(c.chan) : RecordsAmong(d.chan, i) = RecordsAmong(c.chan, i)
               /\ x = Refresh => RecordsAmong(d.chan, Len(c.chan) + 1) = RecordsAmong(c.chan, Len(c.chan))
               /\ x # Refresh => RecordsAmong(d.chan, Len(c.chan) + 1) = RecordsAmong(c.chan, Len(c.chan)) + 1
<1>. DEFINE d == [c EXCEPT !.chan = Append(@, x)]
            n == Len(c.chan)
<1>1. c.chan \in Seq(Payloads) /\ n \in Nat
  BY SubIs
<1>2. /\ Append(c.chan, x) \in Seq(Payloads) /\ Len(Append(c.chan, x)) = n + 1
      /\ Append(c.chan, x)[n + 1] = x /\ \A i \in 1..n : Append(c.chan, x)[i] = c.chan[i]
  BY <1>1
<1>3. d \in Sub /\ d.open = c.open /\ d.from = c.from /\ d.got = c.got /\ d.chan = Append(c.chan, x)
  BY <1>2 DEF Sub, Payloads
<1>4. d.chan[n + 1] = x /\ Len(d.chan) = n + 1 /\ \A i \in 1..n : d.chan[i] = c.chan[i]
  BY <1>2, <1>3
<1>. HIDE DEF d, n
<1>5. \A i \in 0..n : RecordsAmong(d.chan, i) = RecordsAmong(c.chan, i)
  <2>. SUFFICES ASSUME NEW i \in 0..n PROVE RecordsAmong(d.chan, i) = RecordsAmong(c.chan, i)
    OBVIOUS
  <2>1. i \in Nat /\ \A j \in 1..i : d.chan[j] = c.chan[j]
    BY <1>1, <1>4
  <2>. QED
    BY <2>1, AmongSame
<1>6. n \in 0..n
  BY <1>1
<1>7. /\ x = Refresh => RecordsAmong(d.chan, n + 1) = RecordsAmong(d.chan, n)
      /\ x # Refresh => RecordsAmong(d.chan, n + 1) = RecordsAmong(d.chan, n) + 1
  BY <1>1, <1>4, AmongMore
<1>. QED
  BY <1>3, <1>4, <1>5, <1>6, <1>7 DEF d, n

LEMMA HandedRefresh ==
    ASSUME NEW c \in Sub, NEW log, Follows(c, log)
    PROVE  /\ [c EXCEPT !.chan = Append(@, Refresh)] \in Sub
           /\ Follows([c EXCEPT !.chan = Append(@, Refresh)], log)
<1>. DEFINE d == [c EXCEPT !.chan = Append(@, Refresh)]
            n == Len(c.chan)
<1>1. Refresh \in Payloads
  BY DEF Payloads
<1>2. /\ d \in Sub /\ d.open = c.open /\ d.from = c.from /\ d.got = c.got
      /\ Len(d.chan) = n + 1 /\ d.chan[n + 1] = Refresh
      /\ \A i \in 1..n : d.chan[i] = c.chan[i]
      /\ \A i \in 0..n : RecordsAmong(d.chan, i) = RecordsAmong(c.chan, i)
      /\ RecordsAmong(d.chan, n + 1) = RecordsAmong(c.chan, n)
  BY <1>1, PayloadMore
<1>. HIDE DEF d
<1>3. n \in Nat
  BY SubIs
<1>4. \A i \in 1..(n + 1) : d.chan[i] # Refresh => i \in 1..n /\ i \in 0..n
  BY <1>2, <1>3
<1>5. \A i \in 1..Len(d.chan) : d.chan[i] # Refresh =>
          d.chan[i] = log[d.from + Len(d.got) + RecordsAmong(d.chan, i)]
  BY <1>2, <1>4 DEF Follows
<1>. QED
  BY <1>2, <1>5 DEF Follows, d

LEMMA HandedRecord ==
    ASSUME NEW c \in Sub, NEW log \in Seq(Records), NEW x \in Records, Follows(c, log), c.open
    PROVE  /\ [c EXCEPT !.chan = Append(@, x)] \in Sub
           /\ Follows([c EXCEPT !.chan = Append(@, x)], Append(log, x))
<1>. DEFINE d == [c EXCEPT !.chan = Append(@, x)]
            b == [c EXCEPT !.open = FALSE]
            n == Len(c.chan)
            more == Append(log, x)
<1>1. x \in Payloads /\ x # Refresh
  BY RecordsAre DEF Payloads
<1>2. /\ d \in Sub /\ d.open = c.open /\ d.from = c.from /\ d.got = c.got
      /\ Len(d.chan) = n + 1 /\ d.chan[n + 1] = x
      /\ \A i \in 1..n : d.chan[i] = c.chan[i]
      /\ \A i \in 0..n : RecordsAmong(d.chan, i) = RecordsAmong(c.chan, i)
      /\ RecordsAmong(d.chan, n + 1) = RecordsAmong(c.chan, n) + 1
  BY <1>1, PayloadMore
<1>3. b \in Sub /\ ~b.open /\ b.from = c.from /\ b.got = c.got /\ b.chan = c.chan
  BY DEF Sub
<1>4. Follows(b, log)
  BY Closes
<1>5. Len(more) = Len(log) + 1 /\ more[Len(log) + 1] = x /\ Len(log) \in Nat
  OBVIOUS
<1>. HIDE DEF b, d
<1>6. Follows(b, more)
  BY <1>3, <1>4, SentMore
<1>. HIDE DEF more
<1>7. n \in Nat /\ RecordsAmong(c.chan, n) \in Nat /\ c.from \in Nat /\ Len(c.got) \in Nat
  BY SubIs
<1>8. c.from + Len(c.got) + RecordsAmong(c.chan, n) = Len(log)
  BY DEF Follows
<1>9. d.from + Len(d.got) + RecordsAmong(d.chan, n + 1) = Len(log) + 1
  BY <1>2, <1>5, <1>7, <1>8
<1>10. \A i \in 1..Len(d.got) : d.got[i] = more[d.from + i]
  BY <1>2, <1>3, <1>6 DEF Follows
<1>11. ASSUME NEW i \in 1..(n + 1), d.chan[i] # Refresh
       PROVE  d.chan[i] = more[d.from + Len(d.got) + RecordsAmong(d.chan, i)]
  <2>1. CASE i = n + 1
    BY <1>2, <1>5, <1>9, <2>1
  <2>2. CASE i # n + 1
    <3>1. i \in 1..n /\ i \in 0..n
      BY <1>7, <2>2
    <3>. QED
      BY <1>2, <1>3, <1>6, <1>11, <3>1 DEF Follows
  <2>. QED
    BY <2>1, <2>2
<1>12. d.from + Len(d.got) + RecordsAmong(d.chan, Len(d.chan)) = Len(more)
  BY <1>2, <1>5, <1>9
<1>13. d.from + Len(d.got) + RecordsAmong(d.chan, Len(d.chan)) <= Len(more)
  BY <1>5, <1>12
<1>14. \A i \in 1..Len(d.chan) : d.chan[i] # Refresh =>
          d.chan[i] = more[d.from + Len(d.got) + RecordsAmong(d.chan, i)]
  BY <1>2, <1>11
<1>. QED
  BY <1>2, <1>10, <1>12, <1>13, <1>14 DEF Follows, d, more

\* Subscribed, and left.
LEMMA Joined ==
    ASSUME NEW log \in Seq(Records)
    PROVE  LET d == [open |-> TRUE, chan |-> <<Refresh>>, from |-> Len(log), got |-> <<>>]
           IN  d \in Sub /\ Follows(d, log)
<1>. DEFINE d == [open |-> TRUE, chan |-> <<Refresh>>, from |-> Len(log), got |-> <<>>]
<1>1. /\ Len(log) \in Nat /\ Len(<<Refresh>>) = 1 /\ <<Refresh>>[1] = Refresh
      /\ <<Refresh>> \in Seq(Payloads) /\ <<>> \in Seq(Records) /\ Len(<<>>) = 0
  BY DEF Payloads
<1>2. d \in Sub /\ d.open /\ d.chan = <<Refresh>> /\ d.from = Len(log) /\ d.got = <<>>
  BY <1>1 DEF Sub, Payloads
<1>. HIDE DEF d
<1>3. RecordsAmong(d.chan, 1) = 0
  <2>1. 0 \in Nat /\ 0 + 1 = 1 /\ d.chan[0 + 1] = Refresh
    BY <1>1, <1>2
  <2>2. RecordsAmong(d.chan, 0 + 1) = RecordsAmong(d.chan, 0) /\ RecordsAmong(d.chan, 0) = 0
    BY <2>1, AmongMore
  <2>. QED
    BY <2>1, <2>2
<1>4. Len(d.chan) = 1 /\ Len(d.got) = 0 /\ \A i \in 1..1 : d.chan[i] = Refresh
  BY <1>1, <1>2
<1>5. d.from + Len(d.got) + RecordsAmong(d.chan, Len(d.chan)) = Len(log)
  BY <1>1, <1>2, <1>3, <1>4
<1>. QED
  BY <1>1, <1>2, <1>4, <1>5 DEF Follows, d

LEMMA Left ==
    ASSUME NEW c \in Sub, NEW log \in Seq(Records), Follows(c, log)
    PROVE  LET d == [c EXCEPT !.open = FALSE, !.chan = <<>>] IN d \in Sub /\ Follows(d, log)
<1>. DEFINE d == [c EXCEPT !.open = FALSE, !.chan = <<>>]
<1>1. d \in Sub /\ ~d.open /\ d.chan = <<>> /\ d.from = c.from /\ d.got = c.got
  <2>1. <<>> \in Seq(Records \cup {Refresh})
    OBVIOUS
  <2>. QED
    BY <2>1 DEF Sub
<1>. HIDE DEF d
<1>2. Len(d.chan) = 0 /\ RecordsAmong(d.chan, 0) = 0
  BY <1>1, AmongMore
<1>3. /\ c.from \in Nat /\ Len(c.got) \in Nat /\ RecordsAmong(c.chan, Len(c.chan)) \in Nat
      /\ Len(log) \in Nat
  BY SubIs
<1>4. c.from + Len(c.got) + RecordsAmong(c.chan, Len(c.chan)) <= Len(log)
  BY DEF Follows
<1>5. d.from + Len(d.got) + RecordsAmong(d.chan, Len(d.chan)) <= Len(log)
  BY <1>1, <1>2, <1>3, <1>4
<1>6. \A i \in 1..Len(d.got) : d.got[i] = log[d.from + i]
  BY <1>1 DEF Follows
<1>. QED
  BY <1>1, <1>2, <1>5, <1>6 DEF Follows, d

\* The head of the channel is read.
LEMMA ReadOne ==
    ASSUME NEW c \in Sub, NEW log \in Seq(Records), Follows(c, log), c.chan # <<>>
    PROVE  LET d == [c EXCEPT !.chan = Tail(@),
                              !.got = IF Head(c.chan) = Refresh THEN @ ELSE Append(@, Head(c.chan))]
           IN  d \in Sub /\ Follows(d, log)
<1>. DEFINE h == c.chan[1]
            t == Tail(c.chan)
            g == IF h = Refresh THEN c.got ELSE Append(c.got, h)
            d == [c EXCEPT !.chan = t, !.got = g]
            n == Len(c.chan) - 1
<1>1. /\ c.chan \in Seq(Payloads) /\ n \in Nat /\ Len(c.chan) = n + 1 /\ h \in Payloads
      /\ t \in Seq(Payloads) /\ Len(t) = n /\ Head(c.chan) = h
      /\ \A i \in 1..n : t[i] = c.chan[i + 1]
  <2>1. c.chan \in Seq(Payloads)
    BY SubIs
  <2>. QED
    BY <2>1
<1>2. c.got \in Seq(Records) /\ c.from \in Nat /\ Len(c.got) \in Nat /\ c.open \in BOOLEAN
  BY SubIs
<1>3. /\ h = Refresh => g = c.got
      /\ h # Refresh => /\ g = Append(c.got, h) /\ h \in Records
  BY <1>1 DEF Payloads
<1>4. g \in Seq(Records) /\ Len(g) \in Nat
  <2>1. \A x \in Records : Append(c.got, x) \in Seq(Records)
    BY <1>2
  <2>2. g \in Seq(Records)
    BY <1>2, <1>3, <2>1
  <2>. QED
    BY <2>2
<1>. HIDE DEF h, t, g, n
<1>5. d \in Sub /\ d.open = c.open /\ d.from = c.from /\ d.got = g /\ d.chan = t
  BY <1>1, <1>2, <1>4 DEF Sub, Payloads
<1>. HIDE DEF d
<1>6. ASSUME NEW i \in 0..n
      PROVE  /\ RecordsAmong(t, i) \in Nat /\ RecordsAmong(c.chan, i + 1) \in Nat
             /\ h = Refresh => RecordsAmong(t, i) = RecordsAmong(c.chan, i + 1)
             /\ h # Refresh => RecordsAmong(t, i) + 1 = RecordsAmong(c.chan, i + 1)
  <2>1. i \in Nat /\ i + 1 \in Nat /\ \A j \in 1..i : t[j] = c.chan[j + 1]
    BY <1>1
  <2>2. RecordsAmong(t, i) \in 0..i /\ RecordsAmong(c.chan, i + 1) \in 0..(i + 1)
    BY <2>1, AmongIs
  <2>. QED
    BY <2>1, <2>2, AmongTail DEF h
<1>7. /\ h = Refresh => Len(g) = Len(c.got)
      /\ h # Refresh => Len(g) = Len(c.got) + 1 /\ g[Len(c.got) + 1] = h
      /\ \A i \in 1..Len(c.got) : g[i] = c.got[i]
  <2>1. \A x \in Records : /\ Len(Append(c.got, x)) = Len(c.got) + 1
                           /\ Append(c.got, x)[Len(c.got) + 1] = x
                           /\ \A i \in 1..Len(c.got) : Append(c.got, x)[i] = c.got[i]
    BY <1>2
  <2>. QED
    BY <1>3, <2>1
\* What is handed and not read begins one further on, if it was a record.
<1>8. ASSUME NEW i \in 0..n
      PROVE  c.from + Len(g) + RecordsAmong(t, i) = c.from + Len(c.got) + RecordsAmong(c.chan, i + 1)
  <2>1. CASE h = Refresh
    BY <1>6, <1>7, <2>1
  <2>2. CASE h # Refresh
    <3>1. Len(g) = Len(c.got) + 1
      BY <1>7, <2>2
    <3>2. RecordsAmong(c.chan, i + 1) = RecordsAmong(t, i) + 1 /\ RecordsAmong(t, i) \in Nat
      BY <1>6, <2>2
    <3>3. c.from + Len(g) + RecordsAmong(t, i) = c.from + (Len(c.got) + 1) + RecordsAmong(t, i)
      BY <3>1
    <3>4. c.from + Len(c.got) + RecordsAmong(c.chan, i + 1) = c.from + Len(c.got) + (RecordsAmong(t, i) + 1)
      BY <3>2
    <3>5. c.from \in Nat /\ Len(c.got) \in Nat /\ RecordsAmong(t, i) \in Nat
      BY <1>2, <3>2
    <3>6. c.from + (Len(c.got) + 1) + RecordsAmong(t, i) = c.from + Len(c.got) + (RecordsAmong(t, i) + 1)
      BY <3>5, SMTT(30)
    <3>. QED
      BY <3>3, <3>4, <3>6
  <2>. QED
    BY <2>1, <2>2
<1>9. n \in 0..n /\ 0 \in 0..n
  BY <1>1
<1>10. d.from + Len(d.got) + RecordsAmong(d.chan, Len(d.chan))
          = c.from + Len(c.got) + RecordsAmong(c.chan, Len(c.chan))
  BY <1>1, <1>5, <1>8, <1>9
<1>11. ASSUME NEW i \in 1..Len(g) PROVE g[i] = log[c.from + i]
  <2>1. CASE i \in 1..Len(c.got)
    BY <1>7, <2>1 DEF Follows
  <2>2. CASE i \notin 1..Len(c.got)
    <3>1. h # Refresh /\ i = Len(c.got) + 1
      BY <1>2, <1>4, <1>7, <2>2
    <3>2. RecordsAmong(c.chan, 1) = 1
      <4>1. RecordsAmong(c.chan, 0 + 1) = RecordsAmong(c.chan, 0) + 1 /\ RecordsAmong(c.chan, 0) = 0
        BY <3>1, AmongMore DEF h
      <4>. QED
        BY <4>1
    <3>3. 1 \in 1..Len(c.chan) /\ c.chan[1] # Refresh /\ c.chan[1] = h
      BY <1>1, <3>1 DEF h
    <3>4. h = log[c.from + Len(c.got) + 1]
      BY <3>2, <3>3 DEF Follows
    <3>5. c.from + Len(c.got) + 1 = c.from + i
      BY <1>2, <3>1
    <3>. QED
      BY <1>7, <3>1, <3>4, <3>5
  <2>. QED
    BY <2>1, <2>2
<1>12. ASSUME NEW i \in 1..n, t[i] # Refresh
       PROVE  t[i] = log[c.from + Len(g) + RecordsAmong(t, i)]
  <2>1. i \in 0..n /\ i + 1 \in 1..Len(c.chan) /\ t[i] = c.chan[i + 1]
    BY <1>1
  <2>2. c.chan[i + 1] = log[c.from + Len(c.got) + RecordsAmong(c.chan, i + 1)]
    BY <1>12, <2>1 DEF Follows
  <2>. QED
    BY <1>8, <2>1, <2>2
<1>13. Follows(d, log)
  <2>1. /\ d.from + Len(d.got) + RecordsAmong(d.chan, Len(d.chan)) <= Len(log)
        /\ d.open => d.from + Len(d.got) + RecordsAmong(d.chan, Len(d.chan)) = Len(log)
    BY <1>5, <1>10 DEF Follows
  <2>2. \A i \in 1..Len(d.got) : d.got[i] = log[d.from + i]
    BY <1>5, <1>11
  <2>3. \A i \in 1..Len(d.chan) : d.chan[i] # Refresh =>
            d.chan[i] = log[d.from + Len(d.got) + RecordsAmong(d.chan, i)]
    BY <1>1, <1>5, <1>12
  <2>. QED
    BY <2>1, <2>2, <2>3 DEF Follows
<1>. QED
  BY <1>1, <1>5, <1>13 DEF d, g, t

\* What UsageInOrder says of a subscriber.
LEMMA FollowsIs ==
    ASSUME NEW c \in Sub, NEW log \in Seq(Records), Follows(c, log)
    PROVE  LET read == c.from + Len(c.got)
               handed == read + RecordsAmong(c.chan, Len(c.chan))
           IN  /\ handed <= Len(log) /\ (c.open => handed = Len(log))
               /\ c.got = SubSeq(log, c.from + 1, read)
               /\ \A i \in DOMAIN c.chan : c.chan[i] # Refresh =>
                     c.chan[i] = log[read + RecordsAmong(c.chan, i)]
<1>. DEFINE read == c.from + Len(c.got)
            part == SubSeq(log, c.from + 1, read)
<1>1. /\ c.from \in Nat /\ c.got \in Seq(Records) /\ Len(c.got) \in Nat /\ c.chan \in Seq(Payloads)
      /\ RecordsAmong(c.chan, Len(c.chan)) \in Nat
  BY SubIs
<1>2. read + RecordsAmong(c.chan, Len(c.chan)) <= Len(log)
  BY DEF Follows
<1>3. read \in c.from..Len(log) /\ read - c.from = Len(c.got)
  BY <1>1, <1>2
<1>4. /\ part \in Seq(Records) /\ Len(part) = read - c.from
      /\ \A i \in 1..(read - c.from) : part[i] = log[c.from + i]
  BY <1>1, <1>3, SubSeqIs
<1>5. c.got = part
  <2>1. \A i \in 1..Len(c.got) : c.got[i] = part[i]
    BY <1>3, <1>4 DEF Follows
  <2>2. Len(c.got) = Len(part)
    BY <1>3, <1>4
  <2>. HIDE DEF part
  <2>. QED
    BY <1>1, <1>4, <2>1, <2>2, SeqEqual
<1>6. DOMAIN c.chan = 1..Len(c.chan)
  BY <1>1
<1>. QED
  BY <1>5, <1>6 DEF Follows

-----------------------------------------------------------------------------
(* UsageRecords: the invariant.                                            *)

\* The last record that was given to subscribers or kept, and to the file.
Passed == IF handing.at \in {"check", "offer", "keep"} THEN handing.rec - 1 ELSE handing.rec
Stored == IF handing.at = "idle" THEN handing.rec ELSE handing.rec - 1

BacklogInv ==
    /\ handing.at # "idle" => handing.rec \in Records
    /\ handing.rec <= published /\ Rising(backlog) /\ UpTo(backlog, published)
    /\ \A i \in DOMAIN backlog : handing.rec < backlog[i]

FileInv ==
    /\ Rising(outcome.written) /\ UpTo(outcome.written, Stored)
    /\ Rising(writes) /\ UpTo(writes, Stored) /\ Before(outcome.written, writes)

\* With a home server nobody subscribes or pops; without one nothing comes back
\* to the queue.
QueueInv ==
    /\ Rising(outcome.sent) /\ UpTo(outcome.sent, Passed)
    /\ Rising(outcome.popped) /\ UpTo(outcome.popped, Passed)
    /\ home => /\ outcome.sent = <<>> /\ outcome.popped = <<>>
               /\ \A s \in Subscribers : ~sub[s].open
    /\ ~home => /\ forward = [state |-> "over", batch |-> <<>>]
                /\ Rising(RecordsIn(items)) /\ UpTo(RecordsIn(items), Passed)
                /\ Before(outcome.popped, RecordsIn(items))
    /\ Apart(outcome.sent, outcome.popped) /\ Apart(outcome.sent, RecordsIn(items))

SubsInv == \A s \in Subscribers : Follows(sub[s], outcome.sent)

UsageInv == UsageTypeOK /\ BacklogInv /\ FileInv /\ QueueInv /\ SubsInv

LEMMA UsageFields ==
    ASSUME UsageTypeOK
    PROVE  /\ MaxRecords \in Nat /\ Retention \in Nat /\ published \in 0..MaxRecords
           /\ home \in BOOLEAN /\ enabled \in BOOLEAN
           /\ backlog \in Seq(Records) /\ writes \in Seq(Records) /\ items \in Seq(Kept)
           /\ handing.at \in {"idle", "check", "offer", "keep", "file"}
           /\ handing.rec \in 0..MaxRecords /\ handing.rec \in Nat
           /\ handing = [at |-> handing.at, rec |-> handing.rec]
           /\ \A s \in Subscribers : sub[s] \in Sub
           /\ forward.state \in {"on", "canceled", "over"} /\ forward.batch \in Seq(Records)
           /\ outcome.sent \in Seq(Records) /\ outcome.popped \in Seq(Records)
           /\ outcome.written \in Seq(Records) /\ outcome.unwritten \in SUBSET Records
           /\ outcome.arrived \in SUBSET Records /\ outcome.expired \in SUBSET Records
<1>1. MaxRecords \in Nat /\ Retention \in Nat
  BY UsageAssumption
<1>2. handing.rec \in 0..MaxRecords /\ handing.rec \in Nat
  BY <1>1 DEF UsageTypeOK
<1>3. items \in Seq(Kept)
  BY DEF UsageTypeOK, Kept
<1>. QED
  BY <1>1, <1>2, <1>3 DEF UsageTypeOK

LEMMA KeptNowIs ==
    ASSUME NEW recs \in Seq(Records)
    PROVE  /\ KeptNow(recs) \in Seq(Kept) /\ Len(KeptNow(recs)) = Len(recs)
           /\ \A i \in 1..Len(recs) : KeptNow(recs)[i].rec = recs[i]
<1>1. /\ Retention \in 0..Retention /\ Len(recs) \in Nat /\ DOMAIN recs = 1..Len(recs)
      /\ \A i \in 1..Len(recs) : recs[i] \in Records
  BY UsageAssumption
<1>2. \A i \in 1..Len(recs) : [rec |-> recs[i], left |-> Retention] \in Kept
  BY <1>1 DEF Kept
<1>3. KeptNow(recs) = [i \in 1..Len(recs) |-> [rec |-> recs[i], left |-> Retention]]
  BY <1>1 DEF KeptNow
<1>4. KeptNow(recs) \in [1..Len(recs) -> Kept]
  BY <1>2, <1>3
<1>5. KeptNow(recs) \in Seq(Kept) /\ Len(KeptNow(recs)) = Len(recs)
  BY <1>1, <1>4
<1>. QED
  BY <1>3, <1>5

LEMMA RequeuedIs ==
    ASSUME items \in Seq(Kept), NEW recs \in Seq(Records)
    PROVE  Pruned \o KeptNow(recs) \in Seq(Kept)
BY PrunedIs, KeptNowIs

LEMMA KeepIs ==
    ASSUME items \in Seq(Kept), NEW r \in Records
    PROVE  /\ Pruned \o KeptNow(<<r>>) \in Seq(Kept)
           /\ RecordsIn(Pruned) \in Seq(Records)
           /\ RecordsIn(Pruned \o KeptNow(<<r>>)) = Append(RecordsIn(Pruned), r)
           /\ \E k \in Nat : PartOf(RecordsIn(Pruned), RecordsIn(items), k)
<1>. DEFINE p == Pruned
            w == KeptNow(<<r>>)
            v == p \o w
            l == Len(p)
<1>1. PICK k \in Nat : /\ Len(p) + k = Len(items)
                       /\ \A i \in 1..Len(p) : p[i] = items[k + i]
  BY PrunedIs
<1>2. p \in Seq(Kept)
  BY PrunedIs
<1>3. w \in Seq(Kept) /\ Len(w) = 1 /\ w[1].rec = r
  <2>1. <<r>> \in Seq(Records) /\ Len(<<r>>) = 1 /\ <<r>>[1] = r /\ 1 \in 1..1
    OBVIOUS
  <2>. QED
    BY <2>1, KeptNowIs
<1>. HIDE DEF p, w
<1>4. /\ l \in Nat /\ v \in Seq(Kept) /\ Len(v) = l + 1 /\ v[l + 1] = w[1]
      /\ \A i \in 1..l : v[i] = p[i]
  <2>1. l \in Nat
    BY <1>2
  <2>2. /\ v \in Seq(Kept) /\ Len(v) = l + 1
        /\ \A i \in 1..(l + 1) : v[i] = IF i <= l THEN p[i] ELSE w[i - l]
    <3>1. /\ p \o w \in Seq(Kept) /\ Len(p \o w) = Len(p) + Len(w)
          /\ \A i \in 1..(Len(p) + Len(w)) :
                (p \o w)[i] = IF i <= Len(p) THEN p[i] ELSE w[i - Len(p)]
      BY <1>2, <1>3, ConcatProperties
    <3>. QED
      BY <1>3, <3>1
  <2>. HIDE DEF v, l
  <2>3. v[l + 1] = w[1]
    BY <2>1, <2>2
  <2>4. \A i \in 1..l : v[i] = p[i]
    BY <2>1, <2>2
  <2>. QED
    BY <2>1, <2>2, <2>3, <2>4
<1>5. /\ RecordsIn(p) \in Seq(Records) /\ Len(RecordsIn(p)) = l
      /\ \A i \in 1..l : RecordsIn(p)[i] = p[i].rec
  BY <1>2, RecordsInIs
<1>. HIDE DEF v, l
<1>6. /\ RecordsIn(v) \in Seq(Records) /\ Len(RecordsIn(v)) = l + 1
      /\ \A i \in 1..(l + 1) : RecordsIn(v)[i] = v[i].rec
  BY <1>4, RecordsInIs
<1>. DEFINE q == RecordsIn(p)
            a == Append(q, r)
<1>. HIDE DEF q
<1>7. q \in Seq(Records) /\ Len(q) = l
  BY <1>5 DEF q
<1>8. /\ a \in Seq(Records) /\ Len(a) = l + 1 /\ a[l + 1] = r
      /\ \A i \in 1..l : a[i] = q[i]
  BY <1>7
<1>. HIDE DEF a
<1>9. \A i \in 1..(l + 1) : RecordsIn(v)[i] = a[i]
  <2>. SUFFICES ASSUME NEW i \in 1..(l + 1) PROVE RecordsIn(v)[i] = a[i]
    OBVIOUS
  <2>1. CASE i = l + 1
    BY <1>3, <1>4, <1>6, <1>8, <2>1
  <2>2. CASE i # l + 1
    <3>1. i \in 1..l
      BY <1>4, <2>2
    <3>. QED
      BY <1>4, <1>5, <1>6, <1>8, <3>1 DEF q
  <2>. QED
    BY <2>1, <2>2
<1>10. RecordsIn(v) = a
  BY <1>6, <1>8, <1>9, SeqEqual
<1>11. PartOf(q, RecordsIn(items), k)
  <2>1. /\ Len(RecordsIn(items)) = Len(items)
        /\ \A i \in 1..Len(items) : RecordsIn(items)[i] = items[i].rec
    BY RecordsInIs
  <2>2. Len(items) = l + k /\ \A i \in 1..l : k + i \in 1..Len(items) /\ p[i] = items[k + i]
    BY <1>1, <1>4 DEF l
  <2>. QED
    BY <1>4, <1>5, <1>7, <2>1, <2>2 DEF PartOf, q
<1>. QED
  BY <1>4, <1>7, <1>10, <1>11 DEF v, a, q, p, w

LEMMA TickIs ==
    ASSUME items \in Seq(Kept)
    PROVE  LET later == [i \in DOMAIN items |->
                            [items[i] EXCEPT !.left = IF @ > 0 THEN @ - 1 ELSE 0]]
           IN  later \in Seq(Kept) /\ RecordsIn(later) = RecordsIn(items)
<1>. DEFINE later == [i \in DOMAIN items |-> [items[i] EXCEPT !.left = IF @ > 0 THEN @ - 1 ELSE 0]]
            n == Len(items)
<1>1. n \in Nat /\ DOMAIN items = 1..n /\ \A i \in 1..n : items[i] \in Kept
  BY KeptIs
<1>2. \A x \in Kept : LET y == [x EXCEPT !.left = IF @ > 0 THEN @ - 1 ELSE 0]
                      IN  y \in Kept /\ y.rec = x.rec
  BY UsageAssumption DEF Kept
<1>3. \A i \in 1..n : later[i] \in Kept /\ later[i].rec = items[i].rec
  BY <1>1, <1>2
<1>4. DOMAIN later = 1..n /\ later \in [1..n -> Kept]
  BY <1>1, <1>3
<1>5. later \in Seq(Kept) /\ Len(later) = n
  BY <1>1, <1>4
<1>. HIDE DEF later
<1>6. RecordsIn(later) = RecordsIn(items)
  BY <1>1, <1>3, <1>4 DEF RecordsIn
<1>. QED
  BY <1>5, <1>6 DEF later

LEMMA HeadTail ==
    ASSUME NEW s \in Seq(Records), s # <<>>
    PROVE  /\ Head(s) \in Records /\ Head(s) = s[1] /\ Tail(s) \in Seq(Records)
           /\ 1 \in DOMAIN s /\ PartOf(Tail(s), s, 1)
           /\ \A i \in DOMAIN Tail(s) : i + 1 \in DOMAIN s /\ Tail(s)[i] = s[i + 1] /\ 1 < i + 1
<1>1. /\ Head(s) = s[1] /\ s[1] \in Records /\ Tail(s) \in Seq(Records) /\ Len(s) \in Nat \ {0}
      /\ Len(Tail(s)) = Len(s) - 1 /\ \A i \in 1..(Len(s) - 1) : Tail(s)[i] = s[i + 1]
  OBVIOUS
<1>2. DOMAIN s = 1..Len(s) /\ DOMAIN Tail(s) = 1..(Len(s) - 1)
  BY <1>1
<1>3. PartOf(Tail(s), s, 1)
  <2>1. \A i \in 1..(Len(s) - 1) : 1 + i = i + 1
    OBVIOUS
  <2>. QED
    BY <1>1, <2>1 DEF PartOf
<1>. QED
  BY <1>1, <1>2, <1>3

LEMMA UsageInitInv == UsageInit => UsageInv
<1>. SUFFICES ASSUME UsageInit PROVE UsageInv
  OBVIOUS
<1>. USE DEF UsageInit
<1>1. 0 \in 0..MaxRecords /\ <<>> \in Seq(Records) /\ <<>> \in Seq(Kept) /\ <<>> \in Seq(Records \cup {Refresh})
  BY UsageAssumption
<1>2. UsageTypeOK
  <2>1. sub \in [Subscribers -> Sub]
    BY <1>1 DEF NoSub, Sub
  <2>2. forward \in [state: {"on", "canceled", "over"}, batch: Seq(Records)]
    BY <1>1
  <2>3. outcome \in [sent: Seq(Records), popped: Seq(Records), written: Seq(Records),
                     unwritten: SUBSET Records, arrived: SUBSET Records, expired: SUBSET Records]
    BY <1>1
  <2>. QED
    BY <1>1, <2>1, <2>2, <2>3 DEF UsageTypeOK, Kept
<1>3. /\ \A k : UpTo(<<>>, k) /\ \A s : Before(s, <<>>) /\ Apart(s, <<>>)
      /\ Rising(<<>>)
  <2>1. DOMAIN <<>> = {}
    OBVIOUS
  <2>. QED
    BY <2>1 DEF UpTo, Before, Apart, Rising
<1>4. RecordsIn(items) = <<>>
  <2>1. <<>> \in Seq(Kept) /\ Len(<<>>) = 0
    BY <1>1
  <2>2. RecordsIn(<<>>) \in Seq(Records) /\ Len(RecordsIn(<<>>)) = 0
    BY <2>1, RecordsInIs
  <2>. QED
    BY <2>2, EmptySeq
<1>5. BacklogInv
  BY <1>3 DEF BacklogInv
<1>6. FileInv
  BY <1>3 DEF FileInv
<1>7. QueueInv
  BY <1>3, <1>4 DEF QueueInv, NoSub
<1>8. SubsInv
  <2>. SUFFICES ASSUME NEW s \in Subscribers PROVE Follows(sub[s], outcome.sent)
    BY DEF SubsInv
  <2>1. sub[s] = NoSub /\ outcome.sent = <<>>
    OBVIOUS
  <2>2. RecordsAmong(<<>>, 0) = 0
    BY AmongMore
  <2>3. Len(<<>>) = 0
    OBVIOUS
  <2>. QED
    BY <2>1, <2>2, <2>3 DEF Follows, NoSub
<1>. QED
  BY <1>2, <1>5, <1>6, <1>7, <1>8 DEF UsageInv

\* Offered keeps the type of each subscriber.
LEMMA OfferedIs ==
    ASSUME UsageTypeOK, NEW x \in Payloads
    PROVE  Offered(x) \in [Subscribers -> Sub]
<1>1. \A s \in Subscribers : sub[s] \in Sub
  BY UsageFields
<1>2. \A c \in Sub : [c EXCEPT !.chan = Append(@, x)] \in Sub
  BY PayloadMore
<1>3. \A c \in Sub : [c EXCEPT !.open = FALSE] \in Sub
  BY DEF Sub
<1>4. \A s \in Subscribers : Offered(x)[s] \in Sub
  BY <1>1, <1>2, <1>3 DEF Offered
<1>. QED
  BY <1>4 DEF Offered

LEMMA UsageTypeStep ==
    ASSUME UsageInv, [UsageNext]_usageVars
    PROVE  UsageTypeOK'
<1>0. UsageTypeOK /\ BacklogInv
  BY DEF UsageInv
<1>. DEFINE Handings == [at: {"idle", "check", "offer", "keep", "file"}, rec: 0..MaxRecords]
            Forwards == [state: {"on", "canceled", "over"}, batch: Seq(Records)]
            Outcomes == [sent: Seq(Records), popped: Seq(Records), written: Seq(Records),
                         unwritten: SUBSET Records, arrived: SUBSET Records,
                         expired: SUBSET Records]
<1>1. /\ home \in BOOLEAN /\ published \in 0..MaxRecords /\ backlog \in Seq(Records)
      /\ ended \in BOOLEAN /\ enabled \in BOOLEAN /\ handing \in Handings /\ items \in Seq(Kept)
      /\ sub \in [Subscribers -> Sub] /\ forward \in Forwards /\ writes \in Seq(Records)
      /\ outcome \in Outcomes
  BY <1>0 DEF UsageTypeOK, Kept
<1>2. UsageTypeOK' <=>
         /\ home' \in BOOLEAN /\ published' \in 0..MaxRecords /\ backlog' \in Seq(Records)
         /\ ended' \in BOOLEAN /\ enabled' \in BOOLEAN /\ handing' \in Handings /\ items' \in Seq(Kept)
         /\ sub' \in [Subscribers -> Sub] /\ forward' \in Forwards /\ writes' \in Seq(Records)
         /\ outcome' \in Outcomes
  BY DEF UsageTypeOK, Kept
<1>3. handing.at # "idle" => handing.rec \in Records
  BY <1>0 DEF BacklogInv
<1>4. \A place \in {"idle", "check", "offer", "keep", "file"} : [handing EXCEPT !.at = place] \in Handings
  BY <1>1
<1>5. /\ outcome.sent \in Seq(Records) /\ outcome.popped \in Seq(Records)
      /\ outcome.written \in Seq(Records) /\ outcome.unwritten \in SUBSET Records
      /\ outcome.arrived \in SUBSET Records /\ outcome.expired \in SUBSET Records
      /\ forward.batch \in Seq(Records)
  BY <1>1
<1>6. \A s \in Seq(Records), x \in Records : Append(s, x) \in Seq(Records)
  OBVIOUS
<1>7. PrunedRecords \in SUBSET Records
  BY <1>1, PrunedIs
<1>8. Records \subseteq 0..MaxRecords
  BY UsageAssumption DEF Records
<1>9. \A n \in Nat : Unpopped(n) \in Seq(Kept) /\ RecordsIn(Popped(n)) \in Seq(Records)
  BY <1>1, PoppedIs, RecordsInIs
<1>10. MaxBatch \in Nat /\ Len(items) \in Nat /\ MaxRecords \in Nat
  BY <1>1, UsageAssumption
<1>. HIDE DEF Handings
<1>11. CASE PublishUsage
  <2>1. published' \in 0..MaxRecords /\ published' \in Records
    BY <1>1, <1>10, <1>11 DEF PublishUsage, Records
  <2>. QED
    BY <1>1, <1>2, <1>6, <1>11, <2>1 DEF PublishUsage
<1>12. CASE Shutdown
  <2>1. [forward EXCEPT !.state = "canceled"] \in Forwards
    BY <1>1
  <2>. QED
    BY <1>1, <1>2, <1>12, <2>1 DEF Shutdown
<1>13. CASE TakeRecord
  <2>1. Head(backlog) \in Records /\ Tail(backlog) \in Seq(Records)
    BY <1>1, <1>13, HeadTail DEF TakeRecord
  <2>2. handing' \in Handings
    BY <1>8, <1>13, <2>1 DEF TakeRecord, Handings
  <2>. QED
    BY <1>1, <1>2, <1>13, <2>1, <2>2 DEF TakeRecord
<1>14. CASE CheckEnabled
  <2>1. handing' \in Handings
    BY <1>4, <1>14 DEF CheckEnabled, HandTo
  <2>. QED
    BY <1>1, <1>2, <1>14, <2>1 DEF CheckEnabled
<1>15. CASE Offer
  <2>1. handing' \in Handings
    BY <1>4, <1>15 DEF Offer, HandTo
  <2>2. handing.rec \in Records
    BY <1>3, <1>15 DEF Offer
  <2>3. Append(outcome.sent, handing.rec) \in Seq(Records)
    BY <1>5, <1>6, <2>2
  <2>4. [outcome EXCEPT !.sent = Append(@, handing.rec)] \in Outcomes
    BY <1>1, <2>3
  <2>5. sub' \in [Subscribers -> Sub]
    BY <1>0, <1>15, <2>2, OfferedIs DEF Offer, Payloads
  <2>. HIDE DEF Outcomes
  <2>. QED
    BY <1>1, <1>2, <1>15, <2>1, <2>4, <2>5 DEF Offer
<1>16. CASE Keep
  <2>1. handing' \in Handings
    BY <1>4, <1>16 DEF Keep, HandTo
  <2>2. handing.rec \in Records
    BY <1>3, <1>16 DEF Keep
  <2>3. items' \in Seq(Kept)
    BY <1>1, <1>16, <2>2, KeepIs DEF Keep
  <2>4. outcome' \in Outcomes
    BY <1>1, <1>5, <1>7, <1>16 DEF Keep
  <2>. QED
    BY <1>1, <1>2, <1>16, <2>1, <2>3, <2>4 DEF Keep
<1>17. CASE HandleFile
  <2>1. handing' \in Handings
    BY <1>4, <1>17 DEF HandleFile, HandTo
  <2>2. handing.rec \in Records
    BY <1>3, <1>17 DEF HandleFile
  <2>3. outcome' \in Outcomes
    <3>1. outcome.unwritten \cup {handing.rec} \in SUBSET Records
      BY <1>5, <2>2
    <3>2. [outcome EXCEPT !.unwritten = @ \cup {handing.rec}] \in Outcomes
      BY <1>1, <3>1
    <3>. HIDE DEF Outcomes
    <3>. QED
      BY <1>1, <1>17, <3>2 DEF HandleFile
  <2>4. writes' \in Seq(Records)
    BY <1>1, <1>6, <1>17, <2>2 DEF HandleFile
  <2>. QED
    BY <1>1, <1>2, <1>17, <2>1, <2>3, <2>4 DEF HandleFile
<1>18. CASE SetEnabled
  <2>1. \A s \in Subscribers : [sub[s] EXCEPT !.open = FALSE] \in Sub
    BY <1>1 DEF Sub
  <2>2. sub' \in [Subscribers -> Sub]
    BY <1>1, <1>18, <2>1 DEF SetEnabled
  <2>3. items' \in Seq(Kept)
    BY <1>1, <1>18, EmptySeq DEF SetEnabled
  <2>. QED
    BY <1>1, <1>2, <1>18, <2>2, <2>3 DEF SetEnabled
<1>19. CASE NotifyRefresh
  <2>1. sub' \in [Subscribers -> Sub]
    BY <1>0, <1>19, OfferedIs DEF NotifyRefresh, Payloads
  <2>. QED
    BY <1>1, <1>2, <1>19, <2>1 DEF NotifyRefresh
<1>20. CASE UsageTick
  <2>1. items' \in Seq(Kept)
    BY <1>1, <1>20, TickIs DEF UsageTick
  <2>. QED
    BY <1>1, <1>2, <1>20, <2>1 DEF UsageTick
<1>21. ASSUME NEW s \in Subscribers, Subscribe(s) PROVE UsageTypeOK'
  <2>1. [open |-> TRUE, chan |-> <<Refresh>>, from |-> Len(outcome.sent), got |-> <<>>] \in Sub
    <3>1. <<Refresh>> \in Seq(Records \cup {Refresh}) /\ <<>> \in Seq(Records) /\ Len(outcome.sent) \in Nat
      BY <1>5
    <3>. QED
      BY <3>1 DEF Sub
  <2>2. sub' \in [Subscribers -> Sub]
    BY <1>1, <1>21, <2>1 DEF Subscribe
  <2>. QED
    BY <1>1, <1>2, <1>21, <2>2 DEF Subscribe
<1>22. ASSUME NEW s \in Subscribers, ReadSub(s) PROVE UsageTypeOK'
  <2>1. sub' \in [Subscribers -> Sub]
    <3>1. /\ sub[s] \in Sub /\ sub[s].chan \in Seq(Records \cup {Refresh}) /\ sub[s].chan # <<>>
          /\ sub[s].got \in Seq(Records)
      BY <1>1, <1>22 DEF ReadSub, Sub
    <3>2. /\ Tail(sub[s].chan) \in Seq(Records \cup {Refresh})
          /\ Head(sub[s].chan) \in Records \cup {Refresh}
      BY <3>1
    <3>3. Head(sub[s].chan) # Refresh => Append(sub[s].got, Head(sub[s].chan)) \in Seq(Records)
      BY <1>6, <3>1, <3>2
    <3>4. [sub[s] EXCEPT !.chan = Tail(@),
                         !.got = IF Head(sub[s].chan) = Refresh THEN @
                                 ELSE Append(@, Head(sub[s].chan))] \in Sub
      BY <3>1, <3>2, <3>3 DEF Sub
    <3>5. sub' = [sub EXCEPT ![s] = [sub[s] EXCEPT !.chan = Tail(@),
                         !.got = IF Head(sub[s].chan) = Refresh THEN @
                                 ELSE Append(@, Head(sub[s].chan))]]
      BY <1>1, <1>22 DEF ReadSub
    <3>. QED
      BY <1>1, <3>4, <3>5
  <2>. QED
    BY <1>1, <1>2, <1>22, <2>1 DEF ReadSub
<1>23. ASSUME NEW s \in Subscribers, Unsubscribe(s) PROVE UsageTypeOK'
  <2>1. [sub[s] EXCEPT !.open = FALSE, !.chan = <<>>] \in Sub
    <3>1. <<>> \in Seq(Records \cup {Refresh})
      OBVIOUS
    <3>. QED
      BY <1>1, <3>1 DEF Sub
  <2>2. sub' \in [Subscribers -> Sub]
    BY <1>1, <1>23, <2>1 DEF Unsubscribe
  <2>. QED
    BY <1>1, <1>2, <1>23, <2>2 DEF Unsubscribe
<1>24. ASSUME NEW n \in 1..Len(items), Pop(n) PROVE UsageTypeOK'
  <2>1. Unpopped(n) \in Seq(Kept) /\ RecordsIn(Popped(n)) \in Seq(Records)
    BY <1>9
  <2>2. outcome.popped \o RecordsIn(Popped(n)) \in Seq(Records)
    BY <1>5, <2>1, ConcatProperties
  <2>3. outcome' \in Outcomes
    BY <1>1, <1>5, <1>7, <1>24, <2>2 DEF Pop
  <2>. QED
    BY <1>1, <1>2, <1>24, <2>1, <2>3 DEF Pop
<1>25. CASE PopBatch
  <2>1. Unpopped(MaxBatch) \in Seq(Kept) /\ RecordsIn(Popped(MaxBatch)) \in Seq(Records)
    BY <1>9, <1>10
  <2>2. outcome' \in Outcomes
    BY <1>1, <1>5, <1>7, <1>25 DEF PopBatch
  <2>3. forward' \in Forwards
    BY <1>1, <1>25, <2>1 DEF PopBatch
  <2>. QED
    BY <1>1, <1>2, <1>25, <2>1, <2>2, <2>3 DEF PopBatch
<1>26. CASE Push
  <2>1. Head(forward.batch) \in Records /\ Tail(forward.batch) \in Seq(Records)
    BY <1>5, <1>26, HeadTail DEF Push
  <2>2. outcome' \in Outcomes
    BY <1>1, <1>5, <1>26, <2>1 DEF Push
  <2>3. forward' \in Forwards
    BY <1>1, <1>26, <2>1 DEF Push
  <2>. QED
    BY <1>1, <1>2, <1>26, <2>2, <2>3 DEF Push
<1>27. CASE PushFails
  <2>1. Head(forward.batch) \in Records
    BY <1>5, <1>27, HeadTail DEF PushFails
  <2>2. items' \in Seq(Kept)
    BY <1>1, <1>5, <1>27, RequeuedIs DEF PushFails
  <2>3. outcome' \in Outcomes
    <3>1. PICK arrived \in SUBSET {Head(forward.batch)} :
            outcome' = [outcome EXCEPT !.expired = @ \cup PrunedRecords, !.arrived = @ \cup arrived]
      BY <1>27 DEF PushFails
    <3>2. outcome.expired \cup PrunedRecords \in SUBSET Records /\ outcome.arrived \cup arrived \in SUBSET Records
      BY <1>5, <1>7, <2>1, <3>1
    <3>. QED
      BY <1>1, <3>1, <3>2
  <2>4. forward' \in Forwards
    BY <1>1, <1>27, EmptySeq DEF PushFails
  <2>. QED
    BY <1>1, <1>2, <1>27, <2>2, <2>3, <2>4 DEF PushFails
<1>28. CASE ForwarderEnds
  <2>1. forward' \in Forwards
    BY <1>1, <1>28 DEF ForwarderEnds
  <2>. QED
    BY <1>1, <1>2, <1>28, <2>1 DEF ForwarderEnds
<1>29. CASE WriteUsage
  <2>1. Head(writes) \in Records /\ Tail(writes) \in Seq(Records)
    BY <1>1, <1>29, HeadTail DEF WriteUsage
  <2>2. Append(outcome.written, Head(writes)) \in Seq(Records)
    BY <1>5, <1>6, <2>1
  <2>3. /\ [outcome EXCEPT !.written = Append(@, Head(writes))] \in Outcomes
        /\ [outcome EXCEPT !.unwritten = @ \cup {Head(writes)}] \in Outcomes
    <3>1. outcome.unwritten \cup {Head(writes)} \in SUBSET Records
      BY <1>5, <2>1
    <3>. QED
      BY <1>1, <2>2, <3>1
  <2>. HIDE DEF Outcomes
  <2>. QED
    BY <1>1, <1>2, <1>29, <2>1, <2>3 DEF WriteUsage
<1>30. CASE UNCHANGED usageVars
  BY <1>1, <1>2, <1>30 DEF usageVars
<1>. QED
  BY <1>11, <1>12, <1>13, <1>14, <1>15, <1>16, <1>17, <1>18, <1>19, <1>20, <1>21, <1>22, <1>23,
     <1>24, <1>25, <1>26, <1>27, <1>28, <1>29, <1>30 DEF UsageNext, DispatchUsage

LEMMA BacklogStep ==
    ASSUME UsageInv, [UsageNext]_usageVars
    PROVE  BacklogInv'
<1>0. UsageTypeOK /\ BacklogInv
  BY DEF UsageInv
<1>1. /\ backlog \in Seq(Records) /\ published \in Nat /\ handing.rec \in Nat /\ handing.rec <= published
      /\ handing.at # "idle" => handing.rec \in Records
      /\ Rising(backlog) /\ UpTo(backlog, published) /\ \A i \in DOMAIN backlog : handing.rec < backlog[i]
  <2>1. published \in Nat
    BY <1>0, UsageFields
  <2>. QED
    BY <1>0, <2>1, UsageFields DEF BacklogInv
<1>2. \A place : place \in {"idle", "check", "offer", "keep", "file"} =>
          [handing EXCEPT !.at = place].at = place /\ [handing EXCEPT !.at = place].rec = handing.rec
  BY <1>0 DEF UsageTypeOK
<1>3. CASE PublishUsage
  <2>1. published' = published + 1 /\ backlog' = Append(backlog, published') /\ handing' = handing
    BY <1>3 DEF PublishUsage
  <2>2. published' \in Records
    BY <1>1, <1>3, UsageAssumption DEF PublishUsage, Records
  <2>3. published' - 1 = published
    BY <1>1, <2>1
  <2>4. Rising(backlog')
    BY <1>1, <2>1, <2>2, <2>3, Appended
  <2>5. UpTo(backlog', published')
    <3>1. UpTo(backlog, published')
      <4>1. \A i \in DOMAIN backlog : backlog[i] \in Nat /\ backlog[i] <= published
        BY <1>1, RecordsAre DEF UpTo
      <4>. QED
        BY <1>1, <2>1, <4>1 DEF UpTo
    <3>2. published' <= published' /\ published' \in Nat
      BY <1>1, <2>1
    <3>. QED
      BY <1>1, <2>1, <2>2, <3>1, <3>2, Appended
  <2>6. \A i \in DOMAIN backlog' : handing'.rec < backlog'[i]
    <3>1. \A i \in DOMAIN backlog' : (i \in DOMAIN backlog /\ backlog'[i] = backlog[i]) \/ backlog'[i] = published'
      BY <1>1, <2>1
    <3>2. handing.rec < published'
      BY <1>1, <2>1
    <3>. QED
      BY <1>1, <2>1, <3>1, <3>2
  <2>7. handing'.rec <= published'
    BY <1>1, <2>1
  <2>. QED
    BY <1>1, <2>1, <2>4, <2>5, <2>6, <2>7 DEF BacklogInv
<1>4. CASE TakeRecord
  <2>1. /\ handing'.at = "check" /\ handing'.rec = Head(backlog) /\ backlog' = Tail(backlog)
        /\ backlog # <<>> /\ published' = published
    BY <1>4 DEF TakeRecord
  <2>2. /\ Head(backlog) \in Records /\ Head(backlog) = backlog[1] /\ Tail(backlog) \in Seq(Records)
        /\ 1 \in DOMAIN backlog /\ PartOf(Tail(backlog), backlog, 1)
        /\ \A i \in DOMAIN Tail(backlog) :
              i + 1 \in DOMAIN backlog /\ Tail(backlog)[i] = backlog[i + 1] /\ 1 < i + 1
    BY <1>1, <2>1, HeadTail
  <2>3. Rising(backlog') /\ UpTo(backlog', published')
    <3>1. 1 \in Nat
      OBVIOUS
    <3>. QED
      BY <1>1, <2>1, <2>2, <3>1, Parts
  <2>4. \A i \in DOMAIN backlog' : handing'.rec < backlog'[i]
    BY <1>1, <2>1, <2>2 DEF Rising
  <2>5. handing'.rec <= published'
    BY <1>1, <2>1, <2>2 DEF UpTo
  <2>. QED
    BY <2>1, <2>2, <2>3, <2>4, <2>5 DEF BacklogInv
<1>5. CASE CheckEnabled \/ Offer \/ Keep \/ HandleFile
  <2>1. /\ handing'.rec = handing.rec /\ backlog' = backlog /\ published' = published
        /\ handing'.at # "idle" => handing.at # "idle"
    BY <1>2, <1>5 DEF CheckEnabled, Offer, Keep, HandleFile, HandTo
  <2>. QED
    BY <1>1, <2>1 DEF BacklogInv
<1>6. CASE UNCHANGED <<handing, backlog, published>>
  BY <1>0, <1>6 DEF BacklogInv, Rising, UpTo
<1>7. \/ PublishUsage \/ TakeRecord \/ CheckEnabled \/ Offer \/ Keep \/ HandleFile
      \/ UNCHANGED <<handing, backlog, published>>
  BY DEF UsageNext, DispatchUsage, Shutdown, SetEnabled, NotifyRefresh, UsageTick, Subscribe, ReadSub,
         Unsubscribe, Pop, PopBatch, Push, PushFails, ForwarderEnds, WriteUsage, usageVars
<1>. QED
  BY <1>3, <1>4, <1>5, <1>6, <1>7

\* What is up to k is up to any k2 that is not less.
LEMMA UpToMore ==
    ASSUME NEW s \in Seq(Records), NEW k \in Int, NEW n \in Int, UpTo(s, k), k <= n
    PROVE  UpTo(s, n)
<1>1. \A i \in DOMAIN s : s[i] \in Nat /\ s[i] <= k
  BY RecordsAre DEF UpTo
<1>. QED
  BY <1>1 DEF UpTo

LEMMA HandingMoves ==
    ASSUME UsageInv, [UsageNext]_usageVars
    PROVE  /\ Passed \in Int /\ Stored \in Int /\ Passed' \in Int /\ Stored' \in Int
           /\ Passed <= Passed' /\ Stored <= Stored'
<1>0. UsageTypeOK /\ UsageTypeOK' /\ BacklogInv
  BY UsageTypeStep DEF UsageInv
<1>1. handing.rec \in Nat /\ handing.at \in {"idle", "check", "offer", "keep", "file"}
  BY <1>0, UsageFields
<1>2. handing'.rec \in Nat
  BY <1>0, UsageAssumption DEF UsageTypeOK
<1>3. Passed \in Int /\ Stored \in Int /\ Passed' \in Int /\ Stored' \in Int
  BY <1>1, <1>2 DEF Passed, Stored
<1>4. \A place : place \in {"idle", "check", "offer", "keep", "file"} =>
          [handing EXCEPT !.at = place].at = place /\ [handing EXCEPT !.at = place].rec = handing.rec
  BY <1>0 DEF UsageTypeOK
<1>5. CASE TakeRecord
  <2>1. /\ handing.at = "idle" /\ handing'.at = "check" /\ handing'.rec = Head(backlog) /\ backlog # <<>>
    BY <1>5 DEF TakeRecord
  <2>2. handing.rec < handing'.rec
    <3>1. backlog \in Seq(Records)
      BY <1>0, UsageFields
    <3>2. Head(backlog) = backlog[1] /\ 1 \in DOMAIN backlog
      BY <2>1, <3>1, HeadTail
    <3>. QED
      BY <1>0, <2>1, <3>2 DEF BacklogInv
  <2>. QED
    BY <1>1, <1>2, <1>3, <2>1, <2>2 DEF Passed, Stored
<1>6. CASE CheckEnabled
  BY <1>1, <1>3, <1>4, <1>6 DEF CheckEnabled, HandTo, Passed, Stored
<1>7. CASE Offer
  BY <1>1, <1>3, <1>4, <1>7 DEF Offer, HandTo, Passed, Stored
<1>8. CASE Keep
  BY <1>1, <1>3, <1>4, <1>8 DEF Keep, HandTo, Passed, Stored
<1>9. CASE HandleFile
  BY <1>1, <1>3, <1>4, <1>9 DEF HandleFile, HandTo, Passed, Stored
<1>10. CASE UNCHANGED handing
  BY <1>3, <1>10 DEF Passed, Stored
<1>11. \/ TakeRecord \/ CheckEnabled \/ Offer \/ Keep \/ HandleFile \/ UNCHANGED handing
  BY DEF UsageNext, DispatchUsage, PublishUsage, Shutdown, SetEnabled, NotifyRefresh, UsageTick,
         Subscribe, ReadSub, Unsubscribe, Pop, PopBatch, Push, PushFails, ForwarderEnds, WriteUsage,
         usageVars
<1>. QED
  BY <1>3, <1>5, <1>6, <1>7, <1>8, <1>9, <1>10, <1>11

LEMMA FileStep ==
    ASSUME UsageInv, [UsageNext]_usageVars
    PROVE  FileInv'
<1>0. UsageTypeOK /\ UsageTypeOK' /\ BacklogInv /\ FileInv
  BY UsageTypeStep DEF UsageInv
<1>1. outcome.written \in Seq(Records) /\ writes \in Seq(Records)
  BY <1>0, UsageFields
<1>2. Stored \in Int /\ Stored' \in Int /\ Stored <= Stored'
  BY HandingMoves
<1>3. UpTo(outcome.written, Stored') /\ UpTo(writes, Stored')
  BY <1>0, <1>1, <1>2, UpToMore DEF FileInv
<1>4. CASE outcome'.written = outcome.written /\ writes' = writes
  BY <1>0, <1>3, <1>4 DEF FileInv
<1>5. CASE HandleFile /\ Len(writes) < WriteRoom
  <2>1. /\ writes' = Append(writes, handing.rec) /\ outcome'.written = outcome.written
        /\ handing.at = "file" /\ handing' = [handing EXCEPT !.at = "idle"]
    BY <1>5 DEF HandleFile, HandTo
  <2>2. handing.rec \in Records
    BY <1>0, <2>1 DEF BacklogInv
  <2>3. Stored = handing.rec - 1 /\ Stored' = handing.rec
    BY <1>0, <2>1 DEF Stored, UsageTypeOK
  <2>4. UpTo(writes, handing.rec - 1) /\ UpTo(outcome.written, handing.rec - 1)
    BY <1>0, <2>3 DEF FileInv
  <2>5. Rising(Append(writes, handing.rec))
    BY <1>0, <1>1, <2>2, <2>4, Appended DEF FileInv
  <2>6. UpTo(Append(writes, handing.rec), handing.rec)
    <3>1. UpTo(writes, handing.rec) /\ handing.rec <= handing.rec
      BY <1>3, <2>2, <2>3 DEF Records
    <3>. QED
      BY <1>1, <2>2, <3>1, Appended
  <2>7. Before(outcome.written, Append(writes, handing.rec))
    BY <1>0, <1>1, <2>2, <2>4, Appended DEF FileInv
  <2>. QED
    BY <1>0, <1>3, <2>1, <2>3, <2>5, <2>6, <2>7 DEF FileInv
<1>6. CASE WriteUsage
  <2>1. /\ writes # <<>> /\ writes' = Tail(writes)
        /\ \/ outcome'.written = Append(outcome.written, Head(writes))
           \/ outcome'.written = outcome.written
    BY <1>0, <1>6 DEF WriteUsage, UsageTypeOK
  <2>2. /\ Head(writes) \in Records /\ Head(writes) = writes[1] /\ Tail(writes) \in Seq(Records)
        /\ 1 \in DOMAIN writes /\ PartOf(Tail(writes), writes, 1) /\ 1 \in Nat
        /\ \A i \in DOMAIN Tail(writes) :
              i + 1 \in DOMAIN writes /\ Tail(writes)[i] = writes[i + 1] /\ 1 < i + 1
    BY <1>1, <2>1, HeadTail
  <2>3. /\ Rising(Tail(writes)) /\ UpTo(Tail(writes), Stored')
        /\ Before(outcome.written, Tail(writes))
    BY <1>0, <1>1, <1>3, <2>2, Parts DEF FileInv
  <2>4. CASE outcome'.written = outcome.written
    BY <1>0, <1>3, <2>1, <2>3, <2>4 DEF FileInv
  <2>5. CASE outcome'.written = Append(outcome.written, Head(writes))
    <3>. DEFINE h == Head(writes)
                w == Append(outcome.written, h)
    <3>1. \A i \in DOMAIN w : \/ (i \in DOMAIN outcome.written /\ w[i] = outcome.written[i])
                             \/ w[i] = h
      BY <1>1, <2>2
    <3>2. UpTo(outcome.written, h - 1)
      <4>1. \A i \in DOMAIN outcome.written : outcome.written[i] < h /\ outcome.written[i] \in Nat
        BY <1>0, <1>1, <2>2, RecordsAre DEF FileInv, Before
      <4>2. h \in Nat
        BY <2>2, RecordsAre
      <4>. QED
        BY <4>1, <4>2 DEF UpTo
    <3>3. Rising(w)
      BY <1>0, <1>1, <2>2, <3>2, Appended DEF FileInv
    <3>4. UpTo(w, Stored')
      BY <1>1, <1>3, <2>2, <3>1 DEF UpTo
    <3>5. Before(w, Tail(writes))
      <4>1. \A j \in DOMAIN Tail(writes) : h < Tail(writes)[j]
        BY <1>0, <2>2 DEF FileInv, Rising
      <4>. HIDE DEF w, h
      <4>. QED
        BY <2>3, <3>1, <4>1 DEF Before
    <3>. QED
      BY <2>1, <2>3, <2>5, <3>3, <3>4, <3>5 DEF FileInv
  <2>. QED
    BY <2>1, <2>4, <2>5
<1>7. \/ WriteUsage
      \/ (HandleFile /\ Len(writes) < WriteRoom)
      \/ (outcome'.written = outcome.written /\ writes' = writes)
  <2>1. CASE HandleFile /\ ~(Len(writes) < WriteRoom)
    BY <1>0, <2>1 DEF HandleFile, UsageTypeOK
  <2>2. CASE Offer \/ Keep \/ (\E n \in 1..Len(items) : Pop(n)) \/ PopBatch \/ Push \/ PushFails
    BY <1>0, <2>2 DEF Offer, Keep, Pop, PopBatch, Push, PushFails, UsageTypeOK
  <2>3. CASE UNCHANGED <<outcome, writes>>
    BY <2>3
  <2>4. \/ WriteUsage \/ HandleFile \/ Offer \/ Keep \/ (\E n \in 1..Len(items) : Pop(n)) \/ PopBatch
        \/ Push \/ PushFails \/ UNCHANGED <<outcome, writes>>
    BY DEF UsageNext, DispatchUsage, TakeRecord, CheckEnabled, PublishUsage, Shutdown, SetEnabled,
           NotifyRefresh, UsageTick, Subscribe, ReadSub, Unsubscribe, ForwarderEnds, usageVars
  <2>. QED
    BY <2>1, <2>2, <2>3, <2>4
<1>. QED
  BY <1>4, <1>5, <1>6, <1>7

LEMMA OfNone ==
    /\ Rising(<<>>) /\ (\A k : UpTo(<<>>, k))
    /\ \A s : Before(s, <<>>) /\ Before(<<>>, s) /\ Apart(s, <<>>) /\ Apart(<<>>, s)
<1>1. DOMAIN <<>> = {}
  OBVIOUS
<1>. QED
  BY <1>1 DEF UpTo, Before, Apart, Rising

\* With a home server.
LEMMA QueueAtHome ==
    ASSUME UsageInv, [UsageNext]_usageVars, home
    PROVE  QueueInv'
<1>0. UsageTypeOK /\ QueueInv
  BY DEF UsageInv
<1>1. outcome.sent = <<>> /\ outcome.popped = <<>> /\ \A s \in Subscribers : ~sub[s].open
  BY <1>0 DEF QueueInv
<1>2. ~Subscribed
  BY <1>1 DEF Subscribed
<1>3. home'
  BY DEF UsageNext, DispatchUsage, TakeRecord, CheckEnabled, Offer, Keep, HandleFile, PublishUsage,
         Shutdown, SetEnabled, NotifyRefresh, UsageTick, Subscribe, ReadSub, Unsubscribe, Pop, PopBatch,
         Push, PushFails, ForwarderEnds, WriteUsage, usageVars
<1>4. outcome'.sent = <<>> /\ outcome'.popped = <<>>
  <2>1. CASE Offer
    BY <1>1, <1>2, <2>1 DEF Offer
  <2>2. CASE Keep \/ HandleFile
    BY <1>0, <1>1, <2>2 DEF Keep, HandleFile, UsageTypeOK
  <2>3. CASE PopBatch \/ Push \/ PushFails \/ WriteUsage
    BY <1>0, <1>1, <2>3 DEF PopBatch, Push, PushFails, WriteUsage, UsageTypeOK
  <2>4. CASE UNCHANGED outcome
    BY <1>1, <2>4
  <2>5. \/ Offer \/ Keep \/ HandleFile \/ PopBatch \/ Push \/ PushFails \/ WriteUsage
        \/ UNCHANGED outcome
    BY DEF UsageNext, DispatchUsage, TakeRecord, CheckEnabled, PublishUsage, Shutdown, SetEnabled,
           NotifyRefresh, UsageTick, Subscribe, ReadSub, Unsubscribe, Pop, ForwarderEnds, usageVars
  <2>. QED
    BY <2>1, <2>2, <2>3, <2>4, <2>5
<1>5. \A s \in Subscribers : ~sub'[s].open
  <2>1. CASE Offer
    <3>1. sub' = [s \in Subscribers |-> sub[s]]
      BY <1>1, <2>1 DEF Offer, Offered
    <3>. QED
      BY <1>1, <3>1
  <2>2. ASSUME NEW s \in Subscribers, ReadSub(s) \/ Unsubscribe(s)
        PROVE  \A r \in Subscribers : ~sub'[r].open
    <3>1. sub \in [Subscribers -> Sub] /\ sub[s] \in Sub /\ ~sub[s].open
      BY <1>0, <1>1 DEF UsageTypeOK
    <3>2. ~sub'[s].open
      BY <2>2, <3>1 DEF ReadSub, Unsubscribe, Sub
    <3>3. \A r \in Subscribers \ {s} : sub'[r] = sub[r]
      BY <2>2, <3>1 DEF ReadSub, Unsubscribe
    <3>. QED
      BY <1>1, <3>2, <3>3
  <2>3. CASE UNCHANGED sub
    BY <1>1, <2>3
  <2>4. \/ Offer \/ UNCHANGED sub \/ \E s \in Subscribers : ReadSub(s) \/ Unsubscribe(s)
    BY <1>2 DEF UsageNext, DispatchUsage, TakeRecord, CheckEnabled, Keep, HandleFile, PublishUsage,
           Shutdown, SetEnabled, NotifyRefresh, UsageTick, Subscribe, Pop, PopBatch, Push, PushFails,
           ForwarderEnds, WriteUsage, usageVars
  <2>. QED
    BY <2>1, <2>2, <2>3, <2>4
<1>. QED
  BY <1>3, <1>4, <1>5, OfNone DEF QueueInv

\* Without one.
LEMMA QueueAlone ==
    ASSUME UsageInv, [UsageNext]_usageVars, ~home
    PROVE  QueueInv'
<1>. DEFINE sent == outcome.sent
            popped == outcome.popped
            kept == RecordsIn(items)
<1>0. UsageTypeOK /\ UsageTypeOK' /\ BacklogInv /\ QueueInv
  BY UsageTypeStep DEF UsageInv
<1>1. /\ forward = [state |-> "over", batch |-> <<>>] /\ Rising(sent) /\ Rising(popped) /\ Rising(kept)
      /\ UpTo(sent, Passed) /\ UpTo(popped, Passed) /\ UpTo(kept, Passed)
      /\ Before(popped, kept) /\ Apart(sent, popped) /\ Apart(sent, kept)
  BY <1>0 DEF QueueInv
<1>2. sent \in Seq(Records) /\ popped \in Seq(Records) /\ items \in Seq(Kept) /\ kept \in Seq(Records)
  BY <1>0, UsageFields, RecordsInIs
<1>3. Passed \in Int /\ Passed' \in Int /\ Passed <= Passed'
  BY HandingMoves
<1>4. UpTo(sent, Passed') /\ UpTo(popped, Passed') /\ UpTo(kept, Passed')
  BY <1>1, <1>2, <1>3, UpToMore
<1>5. ~home' /\ forward' = forward
  <2>1. forward.state = "over" /\ forward.batch = <<>>
    BY <1>1
  <2>2. ~home'
    BY DEF UsageNext, DispatchUsage, TakeRecord, CheckEnabled, Offer, Keep, HandleFile,
         PublishUsage, Shutdown, SetEnabled, NotifyRefresh, UsageTick, Subscribe, ReadSub, Unsubscribe,
         Pop, PopBatch, Push, PushFails, ForwarderEnds, WriteUsage, usageVars
  <2>3. Shutdown => forward' = forward
    BY <2>1 DEF Shutdown
  <2>4. ~PopBatch /\ ~Push /\ ~PushFails /\ ~ForwarderEnds
    BY <2>1 DEF PopBatch, Push, PushFails, ForwarderEnds
  <2>5. \/ Shutdown \/ PopBatch \/ Push \/ PushFails \/ ForwarderEnds \/ UNCHANGED forward
    BY DEF UsageNext, DispatchUsage, TakeRecord, CheckEnabled, Offer, Keep, HandleFile,
         PublishUsage, SetEnabled, NotifyRefresh, UsageTick, Subscribe, ReadSub, Unsubscribe,
         Pop, WriteUsage, usageVars
  <2>. QED
    BY <2>2, <2>3, <2>4, <2>5
<1>6. QueueInv' <=>
         /\ Rising(outcome'.sent) /\ Rising(outcome'.popped) /\ Rising(RecordsIn(items'))
         /\ UpTo(outcome'.sent, Passed') /\ UpTo(outcome'.popped, Passed')
         /\ UpTo(RecordsIn(items'), Passed') /\ Before(outcome'.popped, RecordsIn(items'))
         /\ Apart(outcome'.sent, outcome'.popped) /\ Apart(outcome'.sent, RecordsIn(items'))
  BY <1>1, <1>5 DEF QueueInv
<1>. HIDE DEF sent, popped, kept
<1>7. CASE outcome'.sent = sent /\ outcome'.popped = popped /\ RecordsIn(items') = kept
  BY <1>1, <1>4, <1>6, <1>7
<1>8. CASE Offer /\ Subscribed
  <2>1. /\ outcome'.sent = Append(sent, handing.rec) /\ outcome'.popped = popped /\ items' = items
        /\ handing.at = "offer" /\ handing' = [handing EXCEPT !.at = "file"]
    BY <1>0, <1>8 DEF Offer, HandTo, UsageTypeOK, sent, popped
  <2>2. handing.rec \in Records
    BY <1>0, <2>1 DEF BacklogInv
  <2>3. Passed = handing.rec - 1 /\ Passed' = handing.rec
    BY <1>0, <2>1 DEF Passed, UsageTypeOK
  <2>4. Rising(Append(sent, handing.rec))
    BY <1>1, <1>2, <2>2, <2>3, Appended
  <2>5. UpTo(Append(sent, handing.rec), Passed')
    <3>1. handing.rec <= handing.rec
      BY <2>2 DEF Records
    <3>. QED
      BY <1>2, <1>4, <2>2, <2>3, <3>1, Appended
  <2>6. Apart(Append(sent, handing.rec), popped) /\ Apart(Append(sent, handing.rec), kept)
    BY <1>1, <1>2, <2>2, <2>3, Appended
  <2>7. RecordsIn(items') = kept
    BY <2>1 DEF kept
  <2>. QED
    BY <1>1, <1>4, <1>6, <2>1, <2>4, <2>5, <2>6, <2>7
<1>9. CASE Keep
  <2>1. /\ outcome'.sent = sent /\ outcome'.popped = popped /\ items' = Pruned \o KeptNow(<<handing.rec>>)
        /\ handing.at = "keep" /\ handing' = [handing EXCEPT !.at = "file"]
    BY <1>0, <1>9 DEF Keep, HandTo, UsageTypeOK, sent, popped
  <2>2. handing.rec \in Records
    BY <1>0, <2>1 DEF BacklogInv
  <2>3. Passed = handing.rec - 1 /\ Passed' = handing.rec
    BY <1>0, <2>1 DEF Passed, UsageTypeOK
  <2>. DEFINE rest == RecordsIn(Pruned)
  <2>4. PICK k \in Nat : PartOf(rest, kept, k)
    BY <1>2, <2>2, KeepIs DEF kept
  <2>5. rest \in Seq(Records) /\ RecordsIn(items') = Append(rest, handing.rec)
    BY <1>2, <2>1, <2>2, KeepIs
  <2>. HIDE DEF rest
  <2>6. /\ Rising(rest) /\ UpTo(rest, Passed) /\ UpTo(rest, Passed')
        /\ Before(popped, rest) /\ Apart(sent, rest)
    BY <1>1, <1>2, <1>4, <2>4, <2>5, Parts
  <2>7. Rising(Append(rest, handing.rec))
    BY <2>2, <2>3, <2>5, <2>6, Appended
  <2>8. UpTo(Append(rest, handing.rec), Passed')
    <3>1. handing.rec <= handing.rec
      BY <2>2 DEF Records
    <3>. QED
      BY <2>2, <2>3, <2>5, <2>6, <3>1, Appended
  <2>9. Before(popped, Append(rest, handing.rec)) /\ Apart(sent, Append(rest, handing.rec))
    BY <1>1, <1>2, <2>2, <2>3, <2>5, <2>6, Appended
  <2>. QED
    BY <1>1, <1>4, <1>6, <2>1, <2>5, <2>7, <2>8, <2>9
<1>10. CASE SetEnabled
  <2>1. outcome'.sent = sent /\ outcome'.popped = popped /\ (items' = <<>> \/ items' = items)
    BY <1>10 DEF SetEnabled, sent, popped
  <2>2. CASE items' = items
    BY <1>7, <2>1, <2>2 DEF kept
  <2>3. CASE items' = <<>>
    <3>1. RecordsIn(items') = <<>>
      <4>1. <<>> \in Seq(Kept) /\ Len(<<>>) = 0
        OBVIOUS
      <4>2. RecordsIn(<<>>) \in Seq(Records) /\ Len(RecordsIn(<<>>)) = 0
        BY <4>1, RecordsInIs
      <4>. QED
        BY <2>3, <4>2, EmptySeq
    <3>. QED
      BY <1>1, <1>4, <1>6, <2>1, <3>1, OfNone
  <2>. QED
    BY <2>1, <2>2, <2>3
<1>11. CASE UsageTick
  <2>1. RecordsIn(items') = kept
    BY <1>2, <1>11, TickIs DEF UsageTick, kept
  <2>2. outcome'.sent = sent /\ outcome'.popped = popped
    BY <1>11 DEF UsageTick, sent, popped
  <2>. QED
    BY <1>7, <2>1, <2>2
<1>12. ASSUME NEW n \in 1..Len(items), Pop(n) PROVE QueueInv'
  <2>. DEFINE t == RecordsIn(Popped(n))
              u == RecordsIn(Unpopped(n))
  <2>1. /\ outcome'.sent = sent /\ outcome'.popped = popped \o t /\ items' = Unpopped(n)
    BY <1>0, <1>12 DEF Pop, UsageTypeOK, sent, popped
  <2>2. n \in Nat /\ Unpopped(n) \in Seq(Kept) /\ Popped(n) \in Seq(Kept)
    BY <1>2, PoppedIs
  <2>3. PICK k \in Nat, j \in Nat : PartOf(t, kept, k) /\ PartOf(u, kept, j) /\ k + Len(t) <= j
    BY <1>2, <2>2, PoppedIs DEF kept
  <2>4. t \in Seq(Records) /\ u \in Seq(Records)
    BY <2>2, RecordsInIs
  <2>5. RecordsIn(items') = u
    BY <2>1
  <2>. HIDE DEF t, u
  <2>6. /\ Rising(popped \o t) /\ Before(popped \o t, u)
        /\ \A m : UpTo(popped, m) /\ UpTo(kept, m) => UpTo(popped \o t, m)
        /\ \A q : Apart(q, popped) /\ Apart(q, kept) => Apart(q, popped \o t)
    BY <1>1, <1>2, <2>3, <2>4, TakenOver
  <2>7. Rising(u) /\ UpTo(u, Passed') /\ Apart(sent, u)
    BY <1>1, <1>2, <1>4, <2>3, <2>4, Parts
  <2>. QED
    BY <1>1, <1>4, <1>6, <2>1, <2>5, <2>6, <2>7
<1>13. \/ (Offer /\ Subscribed) \/ Keep \/ SetEnabled \/ UsageTick \/ (\E n \in 1..Len(items) : Pop(n))
       \/ (outcome'.sent = sent /\ outcome'.popped = popped /\ items' = items)
  <2>1. CASE HandleFile \/ WriteUsage \/ Push
    BY <1>0, <2>1 DEF HandleFile, WriteUsage, Push, UsageTypeOK, sent, popped
  <2>2. CASE UNCHANGED <<outcome, items>>
    BY <2>2 DEF sent, popped
  <2>3. CASE Offer /\ ~Subscribed
    BY <2>3 DEF Offer, sent, popped
  <2>4. CASE PopBatch \/ PushFails
    BY <1>1, <2>4 DEF PopBatch, PushFails
  <2>5. \/ Offer \/ Keep \/ SetEnabled \/ UsageTick \/ (\E n \in 1..Len(items) : Pop(n))
        \/ HandleFile \/ WriteUsage \/ Push \/ PopBatch \/ PushFails \/ UNCHANGED <<outcome, items>>
    BY DEF UsageNext, DispatchUsage, TakeRecord, CheckEnabled, PublishUsage, Shutdown, NotifyRefresh,
           Subscribe, ReadSub, Unsubscribe, ForwarderEnds, usageVars
  <2>. QED
    BY <2>1, <2>2, <2>3, <2>4, <2>5
<1>14. items' = items => RecordsIn(items') = kept
  BY DEF kept
<1>. QED
  BY <1>7, <1>8, <1>9, <1>10, <1>11, <1>12, <1>13, <1>14

LEMMA SubsStep ==
    ASSUME UsageInv, [UsageNext]_usageVars
    PROVE  SubsInv'
<1>. DEFINE sent == outcome.sent
<1>0. UsageTypeOK /\ BacklogInv /\ SubsInv
  BY DEF UsageInv
<1>1. sent \in Seq(Records) /\ sub \in [Subscribers -> Sub] /\ \A s \in Subscribers : sub[s] \in Sub
  BY <1>0, UsageFields DEF UsageTypeOK
<1>2. \A s \in Subscribers : Follows(sub[s], sent)
  BY <1>0 DEF SubsInv
<1>3. SubsInv' <=> \A s \in Subscribers : Follows(sub'[s], outcome'.sent)
  BY DEF SubsInv
<1>4. CASE Offer /\ Subscribed
  <2>. DEFINE r == handing.rec
  <2>1. sub' = Offered(r) /\ outcome'.sent = Append(sent, r) /\ handing.at = "offer"
    BY <1>0, <1>4 DEF Offer, UsageTypeOK
  <2>2. r \in Records
    BY <1>0, <2>1 DEF BacklogInv
  <2>. HIDE DEF sent
  <2>3. ASSUME NEW s \in Subscribers PROVE Follows(sub'[s], Append(sent, r))
    <3>0. sub[s] \in Sub /\ Follows(sub[s], sent)
      BY <1>1, <1>2
    <3>1. CASE ~sub[s].open
      <4>1. sub'[s] = sub[s]
        BY <2>1, <3>1 DEF Offered
      <4>. QED
        BY <1>1, <2>2, <3>0, <3>1, <4>1, SentMore
    <3>2. CASE sub[s].open /\ Len(sub[s].chan) < Room
      <4>1. sub'[s] = [sub[s] EXCEPT !.chan = Append(@, r)]
        BY <2>1, <3>2 DEF Offered
      <4>. QED
        BY <1>1, <2>2, <3>0, <3>2, <4>1, HandedRecord
    <3>3. CASE sub[s].open /\ ~(Len(sub[s].chan) < Room)
      <4>1. sub'[s] = [sub[s] EXCEPT !.open = FALSE]
        BY <2>1, <3>3 DEF Offered
      <4>2. sub'[s] \in Sub /\ Follows(sub'[s], sent)
        BY <3>0, <4>1, Closes
      <4>3. ~sub'[s].open
        BY <3>0, <4>1 DEF Sub
      <4>. QED
        BY <1>1, <2>2, <4>2, <4>3, SentMore
    <3>. QED
      BY <3>1, <3>2, <3>3
  <2>. QED
    BY <1>3, <2>1, <2>3
<1>5. CASE Offer /\ ~Subscribed
  <2>1. outcome' = outcome /\ \A s \in Subscribers : sub'[s] = sub[s]
    BY <1>5 DEF Offer, Offered, Subscribed
  <2>. QED
    BY <1>2, <1>3, <2>1
<1>6. CASE NotifyRefresh
  <2>1. sub' = Offered(Refresh) /\ outcome' = outcome
    BY <1>6 DEF NotifyRefresh
  <2>2. ASSUME NEW s \in Subscribers PROVE Follows(sub'[s], sent)
    <3>0. sub[s] \in Sub /\ Follows(sub[s], sent)
      BY <1>1, <1>2
    <3>1. CASE ~sub[s].open
      BY <2>1, <3>0, <3>1 DEF Offered
    <3>2. CASE sub[s].open /\ Len(sub[s].chan) < Room
      <4>1. sub'[s] = [sub[s] EXCEPT !.chan = Append(@, Refresh)]
        BY <2>1, <3>2 DEF Offered
      <4>. QED
        BY <3>0, <4>1, HandedRefresh
    <3>3. CASE sub[s].open /\ ~(Len(sub[s].chan) < Room)
      <4>1. sub'[s] = [sub[s] EXCEPT !.open = FALSE]
        BY <2>1, <3>3 DEF Offered
      <4>. QED
        BY <3>0, <4>1, Closes
    <3>. QED
      BY <3>1, <3>2, <3>3
  <2>. QED
    BY <1>3, <2>1, <2>2
<1>7. CASE SetEnabled
  <2>1. /\ outcome' = outcome
        /\ \A s \in Subscribers : sub'[s] = sub[s] \/ sub'[s] = [sub[s] EXCEPT !.open = FALSE]
    BY <1>1, <1>7 DEF SetEnabled
  <2>2. ASSUME NEW s \in Subscribers PROVE Follows(sub'[s], sent)
    <3>1. sub[s] \in Sub /\ Follows(sub[s], sent)
      BY <1>1, <1>2
    <3>2. Follows([sub[s] EXCEPT !.open = FALSE], sent)
      BY <3>1, Closes
    <3>. QED
      BY <2>1, <3>1, <3>2
  <2>. QED
    BY <1>3, <2>1, <2>2
<1>8. ASSUME NEW s \in Subscribers, Subscribe(s) PROVE SubsInv'
  <2>. DEFINE d == [open |-> TRUE, chan |-> <<Refresh>>, from |-> Len(outcome.sent), got |-> <<>>]
  <2>1. sub' = [sub EXCEPT ![s] = d] /\ outcome' = outcome
    BY <1>8 DEF Subscribe
  <2>2. Follows(d, sent)
    BY <1>1, Joined
  <2>. HIDE DEF d
  <2>. QED
    BY <1>1, <1>2, <1>3, <2>1, <2>2
<1>9. ASSUME NEW s \in Subscribers, ReadSub(s) PROVE SubsInv'
  <2>. DEFINE d == [sub[s] EXCEPT !.chan = Tail(@),
                        !.got = IF Head(sub[s].chan) = Refresh THEN @ ELSE Append(@, Head(sub[s].chan))]
  <2>1. sub' = [sub EXCEPT ![s] = d] /\ outcome' = outcome /\ sub[s].chan # <<>>
    BY <1>1, <1>9 DEF ReadSub
  <2>2. Follows(d, sent)
    BY <1>1, <1>2, <2>1, ReadOne
  <2>. HIDE DEF d
  <2>. QED
    BY <1>1, <1>2, <1>3, <2>1, <2>2
<1>10. ASSUME NEW s \in Subscribers, Unsubscribe(s) PROVE SubsInv'
  <2>. DEFINE d == [sub[s] EXCEPT !.open = FALSE, !.chan = <<>>]
  <2>1. sub' = [sub EXCEPT ![s] = d] /\ outcome' = outcome
    BY <1>1, <1>10 DEF Unsubscribe
  <2>2. Follows(d, sent)
    BY <1>1, <1>2, Left
  <2>. HIDE DEF d
  <2>. QED
    BY <1>1, <1>2, <1>3, <2>1, <2>2
<1>11. CASE sub' = sub /\ outcome'.sent = sent
  BY <1>2, <1>3, <1>11
<1>12. \/ Offer \/ NotifyRefresh \/ SetEnabled
       \/ (\E s \in Subscribers : Subscribe(s) \/ ReadSub(s) \/ Unsubscribe(s))
       \/ (sub' = sub /\ outcome'.sent = sent)
  <2>1. CASE Keep \/ HandleFile \/ (\E n \in 1..Len(items) : Pop(n))
    BY <1>0, <2>1 DEF Keep, HandleFile, Pop, UsageTypeOK
  <2>2. CASE PopBatch \/ Push \/ PushFails \/ WriteUsage
    BY <1>0, <2>2 DEF PopBatch, Push, PushFails, WriteUsage, UsageTypeOK
  <2>3. CASE UNCHANGED <<sub, outcome>>
    BY <2>3
  <2>4. \/ Offer \/ NotifyRefresh \/ SetEnabled
        \/ (\E s \in Subscribers : Subscribe(s) \/ ReadSub(s) \/ Unsubscribe(s))
        \/ Keep \/ HandleFile \/ (\E n \in 1..Len(items) : Pop(n))
        \/ PopBatch \/ Push \/ PushFails \/ WriteUsage \/ UNCHANGED <<sub, outcome>>
    BY DEF UsageNext, DispatchUsage, TakeRecord, CheckEnabled, PublishUsage, Shutdown, UsageTick,
           ForwarderEnds, usageVars
  <2>. QED
    BY <2>1, <2>2, <2>3, <2>4
<1>. QED
  BY <1>4, <1>5, <1>6, <1>7, <1>8, <1>9, <1>10, <1>11, <1>12

LEMMA UsageInvStep == UsageInv /\ [UsageNext]_usageVars => UsageInv'
<1>. SUFFICES ASSUME UsageInv, [UsageNext]_usageVars PROVE UsageInv'
  OBVIOUS
<1>1. QueueInv'
  BY QueueAtHome, QueueAlone
<1>. QED
  BY <1>1, UsageTypeStep, BacklogStep, FileStep, SubsStep DEF UsageInv

LEMMA UsageInvGives == UsageInv => UsageInOrder
<1>. SUFFICES ASSUME UsageInv PROVE UsageInOrder
  OBVIOUS
<1>0. UsageTypeOK /\ QueueInv /\ FileInv /\ SubsInv
  BY DEF UsageInv
<1>1. /\ outcome.sent \in Seq(Records) /\ outcome.popped \in Seq(Records)
      /\ RecordsIn(items) \in Seq(Records) /\ \A s \in Subscribers : sub[s] \in Sub
  BY <1>0, UsageFields, RecordsInIs
<1>2. ToSet(outcome.sent) \cap (ToSet(outcome.popped) \cup ToSet(RecordsIn(items))) = {}
  <2>1. Apart(outcome.sent, outcome.popped) /\ Apart(outcome.sent, RecordsIn(items))
    BY <1>0 DEF QueueInv
  <2>. QED
    BY <2>1 DEF Apart, ToSet
<1>3. Rising(outcome.sent) /\ Rising(outcome.popped) /\ Rising(outcome.written)
  BY <1>0 DEF QueueInv, FileInv
<1>4. ASSUME NEW s \in Subscribers
      PROVE  LET chan == sub[s].chan
                 read == sub[s].from + Len(sub[s].got)
                 handed == read + RecordsAmong(chan, Len(chan))
             IN  /\ handed <= Len(outcome.sent) /\ (sub[s].open => handed = Len(outcome.sent))
                 /\ sub[s].got = SubSeq(outcome.sent, sub[s].from + 1, read)
                 /\ \A i \in DOMAIN chan : chan[i] # Refresh =>
                       chan[i] = outcome.sent[read + RecordsAmong(chan, i)]
  <2>1. sub[s] \in Sub /\ Follows(sub[s], outcome.sent)
    BY <1>0, <1>1 DEF SubsInv
  <2>. QED
    BY <1>1, <2>1, FollowsIs
<1>. QED
  BY <1>2, <1>3, <1>4 DEF UsageInOrder

\* Types hold, and whatever is on its way to a reader, or was handed to one, is in
\* the order of publication.
THEOREM UsageInvariance == UsageSpec => []UsageInv
BY UsageInitInv, UsageInvStep, PTL DEF UsageSpec

\* For any number of records and subscribers, room and time: subscribers, poppers
\* and the file get records as UsageInOrder says.
THEOREM UsageKeepsOrder == UsageSpec => []UsageInOrder
BY UsageInvariance, UsageInvGives, PTL

\* No record vanishes: where the records of a sequence are after each operation.
LEMMA MembersAre ==
    ASSUME NEW T
    PROVE  /\ \A s \in Seq(T), x \in T : ToSet(Append(s, x)) = ToSet(s) \cup {x}
           /\ \A s \in Seq(T) : s # <<>> => ToSet(s) = {Head(s)} \cup ToSet(Tail(s))
<1>1. ASSUME NEW s \in Seq(T), NEW x \in T
      PROVE  ToSet(Append(s, x)) = ToSet(s) \cup {x}
  <2>1. /\ Len(s) \in Nat /\ DOMAIN s = 1..Len(s) /\ DOMAIN Append(s, x) = 1..(Len(s) + 1)
        /\ \A i \in 1..Len(s) : Append(s, x)[i] = s[i]
        /\ Append(s, x)[Len(s) + 1] = x
    OBVIOUS
  <2>2. 1..(Len(s) + 1) = 1..Len(s) \cup {Len(s) + 1}
    BY <2>1
  <2>. QED
    BY <2>1, <2>2 DEF ToSet
<1>2. ASSUME NEW s \in Seq(T), s # <<>>
      PROVE  ToSet(s) = {Head(s)} \cup ToSet(Tail(s))
  <2>1. /\ Len(s) \in Nat \ {0} /\ DOMAIN s = 1..Len(s) /\ DOMAIN Tail(s) = 1..(Len(s) - 1)
        /\ Head(s) = s[1] /\ \A i \in 1..(Len(s) - 1) : Tail(s)[i] = s[i + 1]
    BY <1>2
  <2>2. ASSUME NEW x \in ToSet(s) PROVE x \in {Head(s)} \cup ToSet(Tail(s))
    <3>1. PICK i \in 1..Len(s) : x = s[i]
      BY <2>1 DEF ToSet
    <3>2. CASE i = 1
      BY <2>1, <3>1, <3>2
    <3>3. CASE i # 1
      <4>1. i - 1 \in 1..(Len(s) - 1) /\ Tail(s)[i - 1] = x
        BY <2>1, <3>1, <3>3
      <4>. QED
        BY <2>1, <4>1 DEF ToSet
    <3>. QED
      BY <3>2, <3>3
  <2>3. ASSUME NEW x \in {Head(s)} \cup ToSet(Tail(s)) PROVE x \in ToSet(s)
    <3>1. CASE x = Head(s)
      <4>1. 1 \in 1..Len(s) /\ x = s[1]
        BY <2>1, <3>1
      <4>. QED
        BY <2>1, <4>1 DEF ToSet
    <3>2. CASE x \in ToSet(Tail(s))
      <4>1. PICK i \in 1..(Len(s) - 1) : x = Tail(s)[i]
        BY <2>1, <3>2 DEF ToSet
      <4>2. i + 1 \in 1..Len(s) /\ s[i + 1] = x
        BY <2>1, <4>1
      <4>. QED
        BY <2>1, <4>2 DEF ToSet
    <3>. QED
      BY <2>3, <3>1, <3>2
  <2>. QED
    BY <2>2, <2>3
<1>. QED
  BY <1>1, <1>2

\* What is pruned is what was dropped for its time and what is left; what is popped
\* and what stays is what was left; what comes back is in the queue.
LEMMA QueuedAre ==
    ASSUME items \in Seq(Kept), NEW n \in Nat
    PROVE  /\ ToSet(RecordsIn(items)) \subseteq PrunedRecords \cup ToSet(RecordsIn(Pruned))
           /\ ToSet(RecordsIn(Pruned)) \subseteq
                 ToSet(RecordsIn(Popped(n))) \cup ToSet(RecordsIn(Unpopped(n)))
<1>. DEFINE all == RecordsIn(items)
            rest == RecordsIn(Pruned)
            l == Len(Pruned)
<1>1. /\ items \in Seq(Kept) /\ Pruned \in Seq(Kept) /\ Len(items) \in Nat /\ l \in Nat
      /\ DOMAIN items = 1..Len(items) /\ DOMAIN Pruned = 1..l
  BY PrunedIs
<1>2. /\ all = [i \in 1..Len(items) |-> items[i].rec] /\ rest = [i \in 1..l |-> Pruned[i].rec]
  BY <1>1 DEF RecordsIn
<1>3. ToSet(all) \subseteq PrunedRecords \cup ToSet(rest)
  <2>1. Outdated \in 0..Len(items)
    <3>. DEFINE old == {i \in DOMAIN items : \A j \in 1..i : items[j].left = 0}
    <3>1. old \subseteq 1..Len(items)
      BY <1>1
    <3>. HIDE DEF old
    <3>2. IsFiniteSet(1..Len(items)) /\ Cardinality(1..Len(items)) = Len(items)
      <4>. DEFINE size == Len(items)
      <4>1. size \in Nat /\ 1 \in Int /\ size \in Int
        BY <1>1
      <4>. HIDE DEF size
      <4>2. IsFiniteSet(1..size) /\ Cardinality(1..size) = IF 1 > size THEN 0 ELSE size - 1 + 1
        BY <4>1, FS_Interval
      <4>3. IsFiniteSet(1..size) /\ Cardinality(1..size) = size
        BY <4>1, <4>2
      <4>. QED
        BY <4>3 DEF size
    <3>3. IsFiniteSet(old) /\ Cardinality(old) <= Len(items) /\ Cardinality(old) \in Nat
      BY <3>1, <3>2, FS_Subset, FS_CardinalityType
    <3>. QED
      BY <1>1, <3>3 DEF Outdated, old
  <2>. DEFINE k == Outdated
              m == Len(items)
  <2>2. k \in Nat /\ m \in k..Len(items)
    BY <1>1, <2>1
  <2>3. Pruned = SubSeq(items, k + 1, m)
    BY DEF Pruned
  <2>4. l = m - k /\ \A i \in 1..(m - k) : Pruned[i] = items[k + i]
    <3>. HIDE DEF k, m
    <3>1. /\ Len(SubSeq(items, k + 1, m)) = m - k
          /\ \A i \in 1..(m - k) : SubSeq(items, k + 1, m)[i] = items[k + i]
      BY <1>1, <2>2, SubSeqIs
    <3>. QED
      BY <2>3, <3>1
  <2>5. PrunedRecords = {items[i].rec : i \in 1..k}
    BY DEF PrunedRecords
  <2>. HIDE DEF k
  <2>6. ASSUME NEW i \in 1..m PROVE items[i].rec \in PrunedRecords \cup ToSet(rest)
    <3>1. CASE i <= k
      BY <2>2, <2>5, <3>1
    <3>2. CASE i > k
      <4>1. i - k \in 1..l /\ Pruned[i - k] = items[i]
        BY <2>2, <2>4, <3>2
      <4>. QED
        BY <1>2, <4>1 DEF ToSet
    <3>. QED
      BY <2>2, <3>1, <3>2
  <2>. QED
    BY <1>2, <2>6 DEF ToSet
<1>4. ToSet(rest) \subseteq ToSet(RecordsIn(Popped(n))) \cup ToSet(RecordsIn(Unpopped(n)))
  <2>. DEFINE j == IF n <= l THEN n ELSE l
              u == Unpopped(n)
              t == Popped(n)
  <2>1. u \in Seq(Kept) /\ t \in Seq(Kept)
    BY PoppedIs
  <2>2. Len(u) = l - j /\ \A i \in 1..(l - j) : u[i] = Pruned[j + i]
    <3>1. CASE n <= l
      <4>1. n \in Nat /\ l \in n..Len(Pruned) /\ j = n
        BY <1>1, <3>1
      <4>2. u = SubSeq(Pruned, n + 1, l)
        BY DEF Unpopped
      <4>. HIDE DEF l, u, j
      <4>3. Len(u) = l - n /\ \A i \in 1..(l - n) : u[i] = Pruned[n + i]
        BY <1>1, <4>1, <4>2, SubSeqIs
      <4>. QED
        BY <4>1, <4>3
    <3>2. CASE ~(n <= l)
      <4>1. u = <<>>
        BY <1>1, <3>2 DEF Unpopped
      <4>. QED
        BY <1>1, <3>2, <4>1
    <3>. QED
      BY <3>1, <3>2
  <2>3. j \in 0..l
    BY <1>1
  <2>4. Len(t) = j /\ \A i \in 1..j : t[i] = Pruned[i]
    <3>1. t = SubSeq(Pruned, 0 + 1, l - Len(u))
      BY DEF Popped
    <3>2. l - Len(u) = j
      <4>. HIDE DEF j, u
      <4>. QED
        BY <1>1, <2>2, <2>3
    <3>3. j \in 0..Len(Pruned) /\ 0 \in Nat
      BY <2>3
    <3>4. /\ Len(SubSeq(Pruned, 0 + 1, j)) = j - 0
          /\ \A i \in 1..(j - 0) : SubSeq(Pruned, 0 + 1, j)[i] = Pruned[0 + i]
      <4>. HIDE DEF j
      <4>. QED
        BY <1>1, <3>3, SubSeqIs
    <3>. HIDE DEF j, u, t
    <3>5. t = SubSeq(Pruned, 0 + 1, j)
      BY <3>1, <3>2
    <3>6. j - 0 = j /\ \A i \in 1..j : 0 + i = i
      BY <2>3
    <3>. QED
      BY <3>4, <3>5, <3>6
  <2>5. /\ DOMAIN RecordsIn(t) = 1..j /\ DOMAIN RecordsIn(u) = 1..(l - j)
        /\ \A i \in 1..j : RecordsIn(t)[i] = t[i].rec
        /\ \A i \in 1..(l - j) : RecordsIn(u)[i] = u[i].rec
    <3>1. DOMAIN t = 1..j /\ DOMAIN u = 1..(l - j)
      BY <2>1, <2>2, <2>4
    <3>. HIDE DEF t, u, j
    <3>. QED
      BY <3>1 DEF RecordsIn
  <2>. HIDE DEF j, u, t
  <2>6. ASSUME NEW i \in 1..l PROVE Pruned[i].rec \in ToSet(RecordsIn(t)) \cup ToSet(RecordsIn(u))
    <3>1. CASE i <= j
      <4>1. i \in 1..j
        BY <1>1, <2>3, <3>1
      <4>. QED
        BY <2>4, <2>5, <4>1 DEF ToSet
    <3>2. CASE i > j
      <4>1. i - j \in 1..(l - j) /\ j + (i - j) = i
        BY <1>1, <2>3, <3>2
      <4>. QED
        BY <2>2, <2>5, <4>1 DEF ToSet
    <3>. QED
      BY <1>1, <2>3, <3>1, <3>2
  <2>. QED
    BY <1>2, <2>6 DEF ToSet, t, u
<1>. QED
  BY <1>3, <1>4

LEMMA RequeuedHas ==
    ASSUME items \in Seq(Kept), NEW recs \in Seq(Records)
    PROVE  ToSet(RecordsIn(Pruned)) \cup ToSet(recs)
              \subseteq ToSet(RecordsIn(Pruned \o KeptNow(recs)))
<1>. DEFINE p == Pruned
            w == KeptNow(recs)
            v == p \o w
<1>1. p \in Seq(Kept) /\ w \in Seq(Kept) /\ Len(w) = Len(recs) /\ \A i \in 1..Len(recs) : w[i].rec = recs[i]
  BY PrunedIs, KeptNowIs
<1>. HIDE DEF p, w
<1>2. /\ v \in Seq(Kept) /\ Len(v) = Len(p) + Len(w)
      /\ \A i \in 1..(Len(p) + Len(w)) : v[i] = IF i <= Len(p) THEN p[i] ELSE w[i - Len(p)]
  <2>1. \A S : \A x, y \in Seq(S) :
            /\ x \o y \in Seq(S) /\ Len(x \o y) = Len(x) + Len(y)
            /\ \A i \in 1..(Len(x) + Len(y)) : (x \o y)[i] = IF i <= Len(x) THEN x[i] ELSE y[i - Len(x)]
    BY ConcatProperties
  <2>. HIDE DEF v
  <2>2. v = p \o w
    BY DEF v
  <2>3. p \in Seq(Kept) /\ w \in Seq(Kept)
    BY <1>1
  <2>. QED
    BY <2>1, <2>2, <2>3, Zenon
<1>3. Len(p) \in Nat /\ Len(w) \in Nat /\ DOMAIN p = 1..Len(p) /\ DOMAIN recs = 1..Len(recs)
  BY <1>1
<1>. HIDE DEF v
<1>4. DOMAIN v = 1..(Len(p) + Len(w))
  BY <1>2, <1>3
<1>5. \A i \in 1..Len(p) : p[i].rec \in ToSet(RecordsIn(v))
  <2>1. \A i \in 1..Len(p) : i \in DOMAIN v /\ v[i] = p[i]
    BY <1>2, <1>3, <1>4
  <2>. QED
    BY <2>1 DEF RecordsIn, ToSet
<1>6. \A i \in 1..Len(recs) : recs[i] \in ToSet(RecordsIn(v))
  <2>1. \A i \in 1..Len(recs) : Len(p) + i \in DOMAIN v /\ v[Len(p) + i].rec = recs[i]
    <3>. SUFFICES ASSUME NEW i \in 1..Len(recs)
                  PROVE  Len(p) + i \in DOMAIN v /\ v[Len(p) + i].rec = recs[i]
      OBVIOUS
    <3>1. Len(p) + i \in 1..(Len(p) + Len(w)) /\ ~(Len(p) + i <= Len(p)) /\ Len(p) + i - Len(p) = i
      BY <1>1, <1>3
    <3>. QED
      BY <1>1, <1>2, <1>4, <3>1
  <2>. QED
    BY <2>1 DEF RecordsIn, ToSet
<1>7. ToSet(RecordsIn(p)) = {p[i].rec : i \in 1..Len(p)}
  BY <1>3 DEF RecordsIn, ToSet
<1>. QED
  BY <1>3, <1>5, <1>6, <1>7 DEF ToSet, p, v, w

\* With a home server the queue is never switched off.
NoneLost == (home => enabled) /\ NoRecordVanishes

LEMMA HomeStays ==
    ASSUME [UsageNext]_usageVars
    PROVE  home' = home /\ ((home => enabled) => (home' => enabled'))
<1>1. CASE SetEnabled
  BY <1>1 DEF SetEnabled
<1>2. CASE UNCHANGED <<home, enabled>>
  BY <1>2
<1>3. SetEnabled \/ UNCHANGED <<home, enabled>>
  BY DEF UsageNext, DispatchUsage, TakeRecord, CheckEnabled, Offer, Keep, HandleFile, PublishUsage,
         Shutdown, NotifyRefresh, UsageTick, Subscribe, ReadSub, Unsubscribe, Pop, PopBatch, Push,
         PushFails, ForwarderEnds, WriteUsage, usageVars
<1>. QED
  BY <1>1, <1>2, <1>3

LEMMA FileKeeps ==
    ASSUME UsageInv, [UsageNext]_usageVars, NEW r \in 1..published, FileHas(r)
    PROVE  FileHas(r)'
<1>. DEFINE stages == {"check", "offer", "keep", "file"}
            done == outcome.unwritten
<1>1. UsageTypeOK
  BY DEF UsageInv
<1>2. /\ backlog \in Seq(Records) /\ writes \in Seq(Records) /\ outcome.written \in Seq(Records)
      /\ handing.at \in {"idle", "check", "offer", "keep", "file"} /\ outcome.unwritten \in SUBSET Records
      /\ handing.at # "idle" => handing.rec \in Records
  BY <1>1, UsageFields DEF UsageInv, BacklogInv
<1>3. \A place : [handing EXCEPT !.at = place].at = place /\ [handing EXCEPT !.at = place].rec = handing.rec
  BY <1>1 DEF UsageTypeOK
<1>4. FileHas(r) <=> \/ r \in ToSet(backlog) \/ (handing.at \in stages /\ handing.rec = r)
                     \/ r \in ToSet(writes) \/ r \in ToSet(outcome.written) \/ r \in outcome.unwritten
  BY DEF FileHas, Undispatched
<1>5. FileHas(r)' <=> \/ r \in ToSet(backlog') \/ (handing'.at \in stages /\ handing'.rec = r)
                      \/ r \in ToSet(writes') \/ r \in ToSet(outcome'.written) \/ r \in outcome'.unwritten
  BY DEF FileHas, Undispatched
<1>6. CASE PublishUsage
  <2>1. published' \in Records
    BY <1>1, <1>6, UsageAssumption DEF PublishUsage, Records, UsageTypeOK
  <2>2. /\ backlog' = Append(backlog, published') /\ UNCHANGED <<handing, writes, outcome>>
    BY <1>6 DEF PublishUsage
  <2>3. ToSet(backlog') = ToSet(backlog) \cup {published'}
    BY <1>2, <2>1, <2>2, MembersAre
  <2>. QED
    BY <1>4, <1>5, <2>2, <2>3
<1>7. CASE TakeRecord
  <2>1. /\ backlog # <<>> /\ backlog' = Tail(backlog) /\ handing' = [at |-> "check", rec |-> Head(backlog)]
        /\ handing.at = "idle" /\ UNCHANGED <<writes, outcome>>
    BY <1>7 DEF TakeRecord
  <2>2. ToSet(backlog) = {Head(backlog)} \cup ToSet(Tail(backlog))
    BY <1>2, <2>1, MembersAre
  <2>. QED
    BY <1>4, <1>5, <2>1, <2>2
<1>8. CASE CheckEnabled \/ Offer \/ Keep
  <2>1. /\ handing.at \in stages /\ handing'.at \in stages /\ handing'.rec = handing.rec
        /\ UNCHANGED <<backlog, writes>>
    BY <1>3, <1>8 DEF CheckEnabled, Offer, Keep, HandTo
  <2>2. outcome'.written = outcome.written /\ outcome'.unwritten = outcome.unwritten
    BY <1>1, <1>8 DEF CheckEnabled, Offer, Keep, UsageTypeOK
  <2>. QED
    BY <1>4, <1>5, <2>1, <2>2
<1>9. CASE HandleFile
  <2>1. handing.at = "file" /\ UNCHANGED backlog /\ handing.rec \in Records
    BY <1>2, <1>9 DEF HandleFile
  <2>2. CASE Len(writes) < WriteRoom
    <3>1. writes' = Append(writes, handing.rec) /\ outcome' = outcome
      BY <1>9, <2>2 DEF HandleFile
    <3>2. ToSet(writes') = ToSet(writes) \cup {handing.rec}
      BY <1>2, <2>1, <3>1, MembersAre
    <3>. QED
      BY <1>4, <1>5, <2>1, <3>1, <3>2
  <2>3. CASE ~(Len(writes) < WriteRoom)
    <3>1. /\ writes' = writes /\ outcome'.unwritten = outcome.unwritten \cup {handing.rec}
          /\ outcome'.written = outcome.written
      BY <1>1, <1>9, <2>3 DEF HandleFile, UsageTypeOK
    <3>. QED
      BY <1>4, <1>5, <2>1, <3>1
  <2>. QED
    BY <2>2, <2>3
<1>10. CASE WriteUsage
  <2>1. /\ writes # <<>> /\ writes' = Tail(writes) /\ UNCHANGED <<backlog, handing>>
        /\ \/ /\ outcome'.written = Append(outcome.written, Head(writes))
              /\ outcome'.unwritten = outcome.unwritten
           \/ /\ outcome'.written = outcome.written
              /\ outcome'.unwritten = outcome.unwritten \cup {Head(writes)}
    BY <1>1, <1>10 DEF WriteUsage, UsageTypeOK
  <2>2. ToSet(writes) = {Head(writes)} \cup ToSet(Tail(writes)) /\ Head(writes) \in Records
    BY <1>2, <2>1, MembersAre, HeadTail
  <2>3. ToSet(Append(outcome.written, Head(writes))) = ToSet(outcome.written) \cup {Head(writes)}
    BY <1>2, <2>2, MembersAre
  <2>. QED
    BY <1>4, <1>5, <2>1, <2>2, <2>3
<1>11. CASE (\E n \in 1..Len(items) : Pop(n)) \/ PopBatch \/ Push \/ PushFails
  <2>1. /\ UNCHANGED <<backlog, handing, writes>>
        /\ outcome'.written = outcome.written /\ outcome'.unwritten = outcome.unwritten
    BY <1>1, <1>11 DEF Pop, PopBatch, Push, PushFails, UsageTypeOK
  <2>. QED
    BY <1>4, <1>5, <2>1
<1>12. CASE UNCHANGED <<backlog, handing, writes, outcome>>
  BY <1>4, <1>5, <1>12
<1>. QED
  BY <1>6, <1>7, <1>8, <1>9, <1>10, <1>11, <1>12
  DEF UsageNext, DispatchUsage, Shutdown, SetEnabled, NotifyRefresh, UsageTick, Subscribe, ReadSub,
      Unsubscribe, ForwarderEnds, usageVars

LEMMA HomeKeeps ==
    ASSUME UsageInv, [UsageNext]_usageVars, home, enabled, NEW r \in 1..published, HomeHas(r)
    PROVE  HomeHas(r)'
<1>. DEFINE stages == {"check", "offer", "keep"}
<1>1. UsageTypeOK /\ ~Subscribed
  BY DEF UsageInv, QueueInv, Subscribed
<1>2. /\ backlog \in Seq(Records) /\ items \in Seq(Kept) /\ forward.batch \in Seq(Records)
      /\ handing.at \in {"idle", "check", "offer", "keep", "file"}
      /\ handing.at # "idle" => handing.rec \in Records
      /\ outcome.arrived \in SUBSET Records /\ outcome.expired \in SUBSET Records
  BY <1>1, UsageFields DEF UsageInv, BacklogInv
<1>3. \A place : [handing EXCEPT !.at = place].at = place /\ [handing EXCEPT !.at = place].rec = handing.rec
  BY <1>1 DEF UsageTypeOK
<1>4. HomeHas(r) <=> \/ r \in ToSet(backlog) \/ (handing.at \in stages /\ handing.rec = r)
                     \/ r \in ToSet(RecordsIn(items)) \/ r \in ToSet(forward.batch)
                     \/ r \in outcome.arrived \/ r \in outcome.expired
  BY DEF HomeHas, Undispatched
<1>5. HomeHas(r)' <=> \/ r \in ToSet(backlog') \/ (handing'.at \in stages /\ handing'.rec = r)
                      \/ r \in ToSet(RecordsIn(items')) \/ r \in ToSet(forward'.batch)
                      \/ r \in outcome'.arrived \/ r \in outcome'.expired
  BY DEF HomeHas, Undispatched, RecordsIn
<1>6. CASE PublishUsage
  <2>1. published' \in Records
    BY <1>1, <1>6, UsageAssumption DEF PublishUsage, Records, UsageTypeOK
  <2>2. /\ backlog' = Append(backlog, published') /\ UNCHANGED <<handing, items, forward, outcome>>
    BY <1>6 DEF PublishUsage
  <2>3. ToSet(backlog') = ToSet(backlog) \cup {published'}
    BY <1>2, <2>1, <2>2, MembersAre
  <2>. QED
    BY <1>4, <1>5, <2>2, <2>3
<1>7. CASE TakeRecord
  <2>1. /\ backlog # <<>> /\ backlog' = Tail(backlog) /\ handing' = [at |-> "check", rec |-> Head(backlog)]
        /\ handing.at = "idle" /\ UNCHANGED <<items, forward, outcome>>
    BY <1>7 DEF TakeRecord
  <2>2. ToSet(backlog) = {Head(backlog)} \cup ToSet(Tail(backlog))
    BY <1>2, <2>1, MembersAre
  <2>. QED
    BY <1>4, <1>5, <2>1, <2>2
<1>8. CASE CheckEnabled \/ Offer
  <2>1. /\ handing.at \in stages /\ handing'.at \in stages /\ handing'.rec = handing.rec
        /\ UNCHANGED <<backlog, items, forward, outcome>>
    BY <1>1, <1>3, <1>8 DEF CheckEnabled, Offer, HandTo
  <2>. QED
    BY <1>4, <1>5, <2>1
<1>9. CASE Keep
  <2>1. handing.at = "keep" /\ handing.rec \in Records /\ <<handing.rec>> \in Seq(Records)
        /\ ToSet(<<handing.rec>>) = {handing.rec}
    BY <1>2, <1>9 DEF Keep, ToSet
  <2>2. /\ items' = Pruned \o KeptNow(<<handing.rec>>) /\ UNCHANGED <<backlog, forward>>
        /\ outcome'.arrived = outcome.arrived /\ outcome'.expired = outcome.expired \cup PrunedRecords
    BY <1>1, <1>9 DEF Keep, UsageTypeOK
  <2>3. ToSet(RecordsIn(Pruned)) \cup {handing.rec} \subseteq ToSet(RecordsIn(items'))
    BY <1>2, <2>1, <2>2, RequeuedHas
  <2>4. ToSet(RecordsIn(items)) \subseteq PrunedRecords \cup ToSet(RecordsIn(Pruned))
    BY <1>2, QueuedAre, 0 \in Nat
  <2>. QED
    BY <1>4, <1>5, <2>2, <2>3, <2>4
<1>10. CASE HandleFile
  <2>1. /\ handing.at = "file" /\ UNCHANGED <<backlog, items, forward>>
        /\ outcome'.arrived = outcome.arrived /\ outcome'.expired = outcome.expired
    BY <1>1, <1>10 DEF HandleFile, UsageTypeOK
  <2>. QED
    BY <1>4, <1>5, <2>1
<1>11. CASE WriteUsage
  <2>1. /\ UNCHANGED <<backlog, handing, items, forward>>
        /\ outcome'.arrived = outcome.arrived /\ outcome'.expired = outcome.expired
    BY <1>1, <1>11 DEF WriteUsage, UsageTypeOK
  <2>. QED
    BY <1>4, <1>5, <2>1
<1>12. CASE UsageTick
  <2>1. RecordsIn(items') = RecordsIn(items) /\ UNCHANGED <<backlog, handing, forward, outcome>>
    BY <1>2, <1>12, TickIs DEF UsageTick
  <2>. QED
    BY <1>4, <1>5, <2>1
<1>13. CASE PopBatch
  <2>1. /\ items' = Unpopped(MaxBatch) /\ forward'.batch = RecordsIn(Popped(MaxBatch))
        /\ forward.batch = <<>> /\ UNCHANGED <<backlog, handing>>
        /\ outcome'.arrived = outcome.arrived /\ outcome'.expired = outcome.expired \cup PrunedRecords
    BY <1>1, <1>13 DEF PopBatch, UsageTypeOK
  <2>2. ToSet(forward.batch) = {}
    BY <2>1 DEF ToSet
  <2>3. /\ ToSet(RecordsIn(items)) \subseteq PrunedRecords \cup ToSet(RecordsIn(Pruned))
        /\ ToSet(RecordsIn(Pruned)) \subseteq ToSet(forward'.batch) \cup ToSet(RecordsIn(items'))
    BY <1>2, <2>1, QueuedAre, UsageAssumption
  <2>. QED
    BY <1>4, <1>5, <2>1, <2>2, <2>3
<1>14. CASE Push
  <2>1. /\ forward.batch # <<>> /\ forward'.batch = Tail(forward.batch)
        /\ outcome'.arrived = outcome.arrived \cup {Head(forward.batch)}
        /\ outcome'.expired = outcome.expired /\ UNCHANGED <<backlog, handing, items>>
    BY <1>1, <1>14 DEF Push, UsageTypeOK
  <2>2. ToSet(forward.batch) = {Head(forward.batch)} \cup ToSet(Tail(forward.batch))
    BY <1>2, <2>1, MembersAre
  <2>. QED
    BY <1>4, <1>5, <2>1, <2>2
<1>15. CASE PushFails
  <2>1. /\ items' = Pruned \o KeptNow(forward.batch) /\ UNCHANGED <<backlog, handing>>
        /\ outcome.arrived \subseteq outcome'.arrived
        /\ outcome'.expired = outcome.expired \cup PrunedRecords
    BY <1>1, <1>15 DEF PushFails, UsageTypeOK
  <2>2. ToSet(RecordsIn(Pruned)) \cup ToSet(forward.batch) \subseteq ToSet(RecordsIn(items'))
    BY <1>2, <2>1, RequeuedHas
  <2>3. ToSet(RecordsIn(items)) \subseteq PrunedRecords \cup ToSet(RecordsIn(Pruned))
    BY <1>2, QueuedAre, 0 \in Nat
  <2>. QED
    BY <1>4, <1>5, <2>1, <2>2, <2>3
<1>16. CASE Shutdown \/ ForwarderEnds
  <2>1. forward'.batch = forward.batch /\ UNCHANGED <<backlog, handing, items, outcome>>
    BY <1>1, <1>16 DEF Shutdown, ForwarderEnds, UsageTypeOK
  <2>. QED
    BY <1>4, <1>5, <2>1
<1>17. CASE UNCHANGED <<backlog, handing, items, forward, outcome>>
  BY <1>4, <1>5, <1>17
<1>. QED
  BY <1>6, <1>7, <1>8, <1>9, <1>10, <1>11, <1>12, <1>13, <1>14, <1>15, <1>16, <1>17
  DEF UsageNext, DispatchUsage, SetEnabled, NotifyRefresh, Subscribe, ReadSub, Unsubscribe, Pop,
      usageVars

LEMMA NoneLostStep == UsageInv /\ NoneLost /\ [UsageNext]_usageVars => NoneLost'
<1>. SUFFICES ASSUME UsageInv, NoneLost, [UsageNext]_usageVars PROVE NoneLost'
  OBVIOUS
<1>1. home' = home /\ (home' => enabled')
  BY HomeStays DEF NoneLost
<1>2. ASSUME NEW r \in 1..published PROVE FileHas(r)' /\ (home' => HomeHas(r)')
  BY <1>1, FileKeeps, HomeKeeps DEF NoneLost, NoRecordVanishes
<1>3. CASE published' = published
  <2>1. \A r \in 1..published' : FileHas(r)' /\ (home' => HomeHas(r)')
    BY <1>2, <1>3
  <2>. QED
    BY <1>1, <2>1 DEF NoneLost, NoRecordVanishes
<1>4. CASE PublishUsage
  <2>1. /\ backlog \in Seq(Records) /\ published \in Nat /\ published' = published + 1
        /\ published' \in Records /\ backlog' = Append(backlog, published')
    BY <1>4, UsageFields, UsageAssumption DEF UsageInv, UsageTypeOK, PublishUsage, Records
  <2>2. published' \in ToSet(backlog')
    BY <2>1, MembersAre
  <2>3. ASSUME NEW r \in 1..published' PROVE FileHas(r)' /\ (home' => HomeHas(r)')
    <3>1. r \in 1..published \/ r = published'
      BY <2>1
    <3>2. CASE r = published'
      BY <2>2, <3>2 DEF FileHas, HomeHas, Undispatched
    <3>. QED
      BY <1>2, <3>1, <3>2
  <2>. QED
    BY <1>1, <2>3 DEF NoneLost, NoRecordVanishes
<1>. QED
  BY <1>3, <1>4
  DEF UsageNext, DispatchUsage, TakeRecord, CheckEnabled, Offer, Keep, HandleFile,
      Shutdown, SetEnabled, NotifyRefresh, UsageTick, Subscribe, ReadSub, Unsubscribe, Pop, PopBatch,
      Push, PushFails, ForwarderEnds, WriteUsage, usageVars

\* For any number of records and subscribers, room and time, a record that was
\* published is at every moment in a hand or at one of its ends: the safety half of
\* UsageArrives.
THEOREM NoneVanishes == UsageSpec => []NoRecordVanishes
<1>1. UsageInit => NoneLost
  <2>. SUFFICES ASSUME UsageInit PROVE NoneLost
    OBVIOUS
  <2>1. published = 0 /\ enabled /\ 1..published = {}
    BY DEF UsageInit
  <2>. QED
    BY <2>1 DEF NoneLost, NoRecordVanishes
<1>2. NoneLost => NoRecordVanishes
  BY DEF NoneLost
<1>. QED
  BY <1>1, <1>2, NoneLostStep, UsageInvariance, PTL DEF UsageSpec

-----------------------------------------------------------------------------
(* RequestCounts: the file advances.                                       *)

\* What is about to be saved was counted, and read after all that is in the file,
\* unless the process is stopping; nobody saves without a store.
CountsInv ==
    /\ CountsTypeOK
    /\ run # "down" /\ stored => saved <= count
    /\ bg.pc # "idle" => run # "down" /\ stored
    /\ bg.pc = "save" => bg.hand <= count /\ (run = "up" => saved <= bg.hand)
    /\ flush.pc = "save" => run = "stopping" /\ stored /\ flush.hand <= count

LEMMA CountsStep ==
    ASSUME CountsInv, [CountsNext]_countVars
    PROVE  CountsInv' /\ (saved' < saved => run = "stopping")
<1>0. CASE CountsNext
  <2>1. dirty' \in BOOLEAN /\ stored' \in BOOLEAN /\ missed' \in BOOLEAN
    BY <1>0, Zenon DEF CountsInv, CountsTypeOK, CountsNext, CountResult, Wake, Read, Save, Stop,
       Flush, Exit, Start
  <2>. USE <2>1 DEF CountsInv, CountsTypeOK
  <2>2. CASE CountResult
    BY <2>2 DEF CountResult
  <2>3. CASE Wake
    BY <2>3 DEF Wake
  <2>4. CASE Read
    BY <2>4 DEF Read
  <2>5. CASE Save
    BY <2>5 DEF Save
  <2>6. CASE Stop
    BY <2>6 DEF Stop
  <2>7. CASE Flush
    BY <2>7 DEF Flush
  <2>8. CASE Exit
    BY <2>8 DEF Exit
  <2>9. CASE Start
    BY <2>9 DEF Start
  <2>. QED
    BY <1>0, <2>2, <2>3, <2>4, <2>5, <2>6, <2>7, <2>8, <2>9 DEF CountsNext
<1>1. CASE UNCHANGED countVars
  BY <1>1 DEF countVars, CountsInv, CountsTypeOK
<1>. QED
  BY <1>0, <1>1

\* In every state, what is about to be saved is no older than the file, unless the
\* process is stopping, and counts no more than there was.
THEOREM CountsInvariance == CountsSpec => []CountsInv
<1>1. CountsInit => CountsInv
  <2>1. CountsInit => dirty \in BOOLEAN /\ stored \in BOOLEAN /\ missed \in BOOLEAN
    BY Zenon DEF CountsInit
  <2>. QED
    BY <2>1 DEF CountsInit, CountsInv, CountsTypeOK
<1>. QED
  BY <1>1, CountsStep, PTL DEF CountsSpec

\* The file goes back only while the process is stopping (persistRequestCounts,
\* StopAutoRefresh, SetRequestCountStateStore), however many results there are.
THEOREM FileKeepsUp == CountsSpec => FileAdvances
<1>1. CountsInv /\ [CountsNext]_countVars
      => [saved' < saved => run = "stopping"]_countVars
  BY CountsStep
<1>. QED
  BY <1>1, CountsInvariance, PTL DEF CountsSpec, FileAdvances

-----------------------------------------------------------------------------
(* ReadyView: places on a ring.                                            *)

Rest(x, n) == x % n

LEMMA RestOf ==
    ASSUME NEW n \in Nat \ {0}, NEW x \in Nat
    PROVE  /\ Rest(x, n) \in 0..(n - 1)
           /\ x < n => Rest(x, n) = x
           /\ n <= x /\ x < n + n => Rest(x, n) = x - n
BY DEF Rest

\* The places from c to x on a ring of n.
Ahead(x, n, c) == Rest(x + n - Rest(c, n), n)

LEMMA AheadIs ==
    ASSUME NEW n \in Nat \ {0}, NEW x \in 0..(n - 1), NEW c \in Nat
    PROVE  /\ Rest(c, n) \in 0..(n - 1)
           /\ Ahead(x, n, c) = IF x >= Rest(c, n) THEN x - Rest(c, n) ELSE x + n - Rest(c, n)
           /\ Ahead(x, n, c) \in 0..(n - 1)
<1>1. Rest(c, n) \in 0..(n - 1)
  BY RestOf
<1>. DEFINE y == x + n - Rest(c, n)
<1>2. y \in Nat /\ y < n + n
  BY <1>1
<1>3. Rest(y, n) = IF n <= y THEN y - n ELSE y
  BY <1>2, RestOf
<1>. QED
  BY <1>1, <1>2, <1>3 DEF Ahead

\* When the cursor moves behind x, what is further ahead than x comes nearer.
LEMMA AheadMoves ==
    ASSUME NEW n \in Nat \ {0}, NEW x \in 0..(n - 1), NEW y \in 0..(n - 1), NEW c \in Nat,
           x # y, Ahead(x, n, c) <= Ahead(y, n, c)
    PROVE  Ahead(y, n, x + 1) < Ahead(y, n, c)
<1>1. Rest(x + 1, n) = IF x + 1 < n THEN x + 1 ELSE 0
  <2>1. x + 1 \in Nat /\ x + 1 <= n /\ n < n + n
    OBVIOUS
  <2>. QED
    BY <2>1, RestOf
<1>2. Ahead(y, n, x + 1) = IF y >= Rest(x + 1, n) THEN y - Rest(x + 1, n) ELSE y + n - Rest(x + 1, n)
  <2>1. x + 1 \in Nat
    OBVIOUS
  <2>. QED
    BY <2>1, AheadIs
<1>. DEFINE k == Rest(c, n)
<1>3. /\ k \in 0..(n - 1)
      /\ Ahead(x, n, c) = IF x >= k THEN x - k ELSE x + n - k
      /\ Ahead(y, n, c) = IF y >= k THEN y - k ELSE y + n - k
  BY AheadIs
<1>. HIDE DEF k
<1>. QED
  BY <1>1, <1>2, <1>3

-----------------------------------------------------------------------------
(* ReadyView: whoever is passed over comes nearer.                         *)

ViewInv ==
    /\ flat \subseteq Ids /\ cursor \in Nat /\ passed \in [Ids -> Nat]
    /\ \A i \in flat : passed[i] + Distance(i) < Size

\* Every auth of a view v has a place of its own.
Rank(i, v) == Cardinality({j \in v : j < i})

LEMMA RankIs ==
    ASSUME NEW v \in SUBSET Ids
    PROVE  LET n == Cardinality(v) IN
           /\ n \in Nat /\ (v # {} => n > 0)
           /\ \A i \in v : Rank(i, v) \in 0..(n - 1)
           /\ \A i, j \in v : i # j => Rank(i, v) # Rank(j, v)
<1>. DEFINE n == Cardinality(v)
<1>1. IsFiniteSet(v) /\ \A i \in v : i \in Nat
  BY ViewAssumption, FS_Subset
<1>2. n \in Nat /\ (v # {} => n > 0)
  <2>1. n \in Nat /\ (n = 0 <=> v = {})
    BY <1>1, FS_CardinalityType, FS_EmptySet
  <2>. QED
    BY <2>1
<1>3. ASSUME NEW i \in v PROVE Rank(i, v) \in 0..(n - 1)
  <2>. DEFINE S == {j \in v : j < i}
  <2>1. S \subseteq v \ {i}
    BY <1>1
  <2>2. IsFiniteSet(v \ {i}) /\ Cardinality(v \ {i}) = n - 1
    BY <1>1, FS_RemoveElement
  <2>3. IsFiniteSet(S) /\ Cardinality(S) \in Nat /\ Cardinality(S) <= Cardinality(v \ {i})
    BY <2>1, <2>2, FS_Subset, FS_CardinalityType
  <2>. QED
    BY <1>2, <2>2, <2>3 DEF Rank
<1>4. ASSUME NEW i \in v, NEW j \in v, i < j PROVE Rank(i, v) < Rank(j, v)
  <2>. DEFINE S == {k \in v : k < i}
              T == {k \in v : k < j}
  <2>1. S \cup {i} \subseteq T /\ i \notin S /\ S \subseteq v /\ T \subseteq v
    BY <1>1, <1>4
  <2>2. IsFiniteSet(S) /\ IsFiniteSet(T) /\ Cardinality(S) \in Nat /\ Cardinality(T) \in Nat
    BY <1>1, <2>1, FS_Subset, FS_CardinalityType
  <2>3. Cardinality(S \cup {i}) = Cardinality(S) + 1
    BY <2>1, <2>2, FS_AddElement
  <2>4. Cardinality(S \cup {i}) <= Cardinality(T)
    BY <2>1, <2>2, FS_Subset
  <2>. QED
    BY <2>2, <2>3, <2>4 DEF Rank
<1>5. ASSUME NEW i \in v, NEW j \in v, i # j PROVE Rank(i, v) # Rank(j, v)
  <2>1. i < j \/ j < i
    BY <1>1, <1>5
  <2>2. Rank(i, v) \in Nat /\ Rank(j, v) \in Nat
    BY <1>2, <1>3
  <2>. QED
    BY <1>4, <2>1, <2>2
<1>. QED
  BY <1>2, <1>3, <1>5

LEMMA RebuildKeepsView ==
    ASSUME ViewInv, NEW ready \in SUBSET Ids, Rebuild(ready)
    PROVE  ViewInv'
<1>1. flat' = ready /\ flat' \subseteq Ids /\ passed' = [i \in Ids |-> 0]
  BY DEF Rebuild
<1>2. /\ Size' \in Nat /\ (flat' # {} => Size' > 0)
      /\ \A i \in flat' : Index(i)' \in 0..(Size' - 1)
  BY <1>1, RankIs DEF Rank, Size, Index
<1>3. cursor' \in Nat
  <2>1. CASE ready = {}
    BY <2>1 DEF Rebuild
  <2>2. CASE ready # {}
    <3>1. Cardinality(ready) = Size' /\ Size' \in Nat \ {0}
      BY <1>1, <1>2, <2>2 DEF Size
    <3>2. cursor' = Rest(cursor, Size') /\ cursor \in Nat
      BY <2>2, <3>1 DEF Rebuild, ViewInv, Rest
    <3>. QED
      BY <3>1, <3>2, RestOf
  <2>. QED
    BY <2>1, <2>2
<1>4. ASSUME NEW i \in flat' PROVE passed'[i] + Distance(i)' < Size'
  <2>1. Size' \in Nat \ {0} /\ Index(i)' \in 0..(Size' - 1)
    BY <1>2, <1>4
  <2>2. Ahead(Index(i)', Size', cursor') \in 0..(Size' - 1)
    BY <1>3, <2>1, AheadIs
  <2>3. Distance(i)' = Ahead(Index(i)', Size', cursor') /\ passed'[i] = 0
    BY <1>1, <1>4 DEF Distance, Ahead, Rest
  <2>. QED
    BY <2>1, <2>2, <2>3
<1>5. passed' \in [Ids -> Nat]
  BY <1>1
<1>. QED
  BY <1>1, <1>3, <1>4, <1>5 DEF ViewInv

LEMMA RotateKeepsView ==
    ASSUME ViewInv, NEW eligible \in SUBSET flat \ {{}}, Rotate(eligible)
    PROVE  ViewInv'
<1>0. /\ flat \subseteq Ids /\ cursor \in Nat /\ passed \in [Ids -> Nat]
      /\ \A i \in flat : passed[i] + Distance(i) < Size
  BY DEF ViewInv
<1>1. PICK p \in eligible :
          /\ \A j \in eligible : Distance(p) <= Distance(j)
          /\ cursor' = Index(p) + 1 /\ passed' = Passing(eligible, p) /\ flat' = flat
  BY DEF Rotate
<1>2. /\ Size \in Nat \ {0} /\ p \in flat
      /\ \A i \in flat : Index(i) \in 0..(Size - 1)
      /\ \A i, j \in flat : i # j => Index(i) # Index(j)
  BY <1>0, <1>1, RankIs DEF Rank, Size, Index
<1>3. Size' = Size /\ \A i \in flat : Index(i)' = Index(i)
  BY <1>1 DEF Size, Index
<1>4. cursor' \in Nat /\ passed' \in [Ids -> Nat]
  BY <1>0, <1>1, <1>2 DEF Passing
<1>5. ASSUME NEW i \in flat PROVE passed'[i] + Distance(i)' < Size
  <2>1. Distance(i)' = Ahead(Index(i), Size, cursor')
    BY <1>3, <1>5 DEF Distance, Ahead, Rest
  <2>2. Ahead(Index(i), Size, cursor') \in 0..(Size - 1)
    BY <1>2, <1>4, <1>5, AheadIs
  <2>3. CASE i \in eligible \ {p}
    <3>1. passed'[i] = passed[i] + 1 /\ passed[i] \in Nat
      BY <1>0, <1>1, <1>5, <2>3 DEF Passing
    <3>2. Ahead(Index(p), Size, cursor) <= Ahead(Index(i), Size, cursor)
      BY <1>1, <2>3 DEF Distance, Ahead, Rest
    <3>3. Ahead(Index(i), Size, Index(p) + 1) < Ahead(Index(i), Size, cursor)
      BY <1>0, <1>2, <1>5, <2>3, <3>2, AheadMoves
    <3>4. passed[i] + Ahead(Index(i), Size, cursor) < Size
      BY <1>0, <1>5 DEF Distance, Ahead, Rest
    <3>5. Ahead(Index(i), Size, cursor) \in 0..(Size - 1)
      BY <1>0, <1>2, <1>5, AheadIs
    <3>. QED
      BY <1>1, <1>2, <2>1, <2>2, <3>1, <3>3, <3>4, <3>5
  <2>4. CASE i \notin eligible \ {p}
    <3>1. passed'[i] = 0
      BY <1>0, <1>1, <1>5, <2>4 DEF Passing
    <3>. QED
      BY <1>2, <2>1, <2>2, <3>1
  <2>. QED
    BY <2>3, <2>4
<1>. QED
  BY <1>0, <1>1, <1>3, <1>4, <1>5 DEF ViewInv

\* Of the auths of the view each has been passed over less often than there are
\* places it came nearer to the cursor by.
THEOREM ViewInvariance == ViewSpec => []ViewInv
<1>1. ViewInit => ViewInv
  BY DEF ViewInit, ViewInv
<1>2. ASSUME ViewInv, [ViewNext]_viewVars PROVE ViewInv'
  <2>1. CASE \E ready \in SUBSET Ids : ready # flat /\ Rebuild(ready)
    BY <1>2, <2>1, RebuildKeepsView
  <2>2. CASE \E eligible \in SUBSET flat \ {{}} : Rotate(eligible)
    BY <1>2, <2>2, RotateKeepsView
  <2>3. CASE PickSmooth \/ UNCHANGED viewVars
    <3>1. UNCHANGED <<flat, cursor, passed>>
      BY <2>3 DEF PickSmooth, Smooth, viewVars
    <3>. QED
      BY <1>2, <3>1 DEF ViewInv, Distance, Index, Size
  <2>. QED
    BY <1>2, <2>1, <2>2, <2>3 DEF ViewNext
<1>. QED
  BY <1>1, <1>2, PTL DEF ViewSpec

\* While the view is not rebuilt, no auth that could have been taken is passed over
\* more often than there are others (pickRoundRobin, rebuildIndexesLocked), for any
\* auths and whomever the requests leave out.
THEOREM NobodyIsPassedOver == ViewSpec => []FewPass
<1>1. ViewInv => FewPass
  <2>. SUFFICES ASSUME ViewInv, NEW i \in flat PROVE passed[i] < Size
    BY DEF FewPass
  <2>1. /\ Size \in Nat \ {0} /\ Index(i) \in 0..(Size - 1) /\ cursor \in Nat
        /\ passed[i] \in Nat /\ passed[i] + Ahead(Index(i), Size, cursor) < Size
    BY RankIs DEF Rank, Size, Index, ViewInv, Distance, Ahead, Rest
  <2>2. Ahead(Index(i), Size, cursor) \in 0..(Size - 1)
    BY <2>1, AheadIs
  <2>. QED
    BY <2>1, <2>2
<1>. QED
  BY <1>1, ViewInvariance, PTL
==============================================================================
