------------------------ MODULE AuthAvailabilityProofs ------------------------
(***************************************************************************)
(* Proofs about AuthAvailability, for any models, families, durations,     *)
(* backoff levels and editors.                                             *)
(***************************************************************************)
EXTENDS AuthAvailability, WellFoundedInduction, TLAPS

-----------------------------------------------------------------------------
(* The earliest and the highest of a set exist and have its type.          *)

LEMMA LeastOfNat ==
    ASSUME NEW T \in SUBSET Nat, T # {} PROVE \E t \in T : \A u \in T : t =< u
<1>1. PICK t \in T : \A u \in T : <<u, t>> \notin OpToRel(<, Nat)
  BY NatLessThanWellFounded, WFMin, Zenon
<1>2. \A u \in T : ~(u < t)
  BY <1>1 DEF OpToRel
<1>. QED
  BY <1>2

LEMMA EarliestType == ASSUME NEW T \in SUBSET Nat PROVE Earliest(T) \in Time
<1>1. CASE T = {}
  BY <1>1 DEF Earliest, Time, NoTime
<1>2. CASE T # {}
  <2>1. \E t \in T : \A u \in T : t =< u
    BY <1>2, LeastOfNat
  <2>2. (CHOOSE t \in T : \A u \in T : t =< u) \in T
    BY <2>1
  <2>. QED
    BY <1>2, <2>2 DEF Earliest, Time
<1>. QED
  BY <1>1, <1>2

LEMMA HighestType ==
    ASSUME NEW L \in SUBSET (0..MaxLevel) PROVE Highest(L) \in 0..MaxLevel
<1>0. MaxLevel \in Nat
  BY StateAssumption
<1>1. CASE L = {}
  BY <1>0, <1>1 DEF Highest
<1>2. CASE L # {}
  <2>. DEFINE D == {MaxLevel - l : l \in L}
  <2>0. ASSUME NEW l \in L PROVE MaxLevel - l \in Nat
    <3>1. MaxLevel \in Nat /\ l \in 0..MaxLevel
      BY <1>0
    <3>. QED
      BY <3>1, SMT
  <2>1. D \in SUBSET Nat
    BY <2>0
  <2>6. D # {}
    <3>1. PICK l \in L : TRUE
      BY <1>2
    <3>2. MaxLevel - l \in D
      BY Zenon
    <3>. HIDE DEF D
    <3>. QED
      BY <3>2
  <2>2. PICK d \in D : \A e \in D : d =< e
    BY <2>1, <2>6, LeastOfNat, Zenon
  <2>3. PICK l \in L : d = MaxLevel - l
    BY Zenon
  <2>4. ASSUME NEW n \in L PROVE n =< l
    <3>1. MaxLevel - n \in D
      BY Zenon
    <3>2. d =< MaxLevel - n
      BY <2>2, <3>1, Zenon
    <3>3. l \in 0..MaxLevel /\ n \in 0..MaxLevel
      OBVIOUS
    <3>. QED
      BY <1>0, <2>3, <3>2, <3>3, SMT
  <2>5. (CHOOSE k \in L : \A n \in L : n =< k) \in L
    BY <2>4
  <2>. QED
    BY <1>2, <2>5 DEF Highest
<1>. QED
  BY <1>1, <1>2

-----------------------------------------------------------------------------
(* The operators on one model state.                                       *)

LEMMA QuotaType ==
    /\ NoQuota \in Quota
    /\ \A t \in Time, l \in 0..MaxLevel : Limited(t, l) \in Quota
BY StateAssumption DEF NoQuota, Limited, Quota, Time, NoTime

LEMMA FreshType == Fresh \in State /\ Missing \in State /\ Sound(Fresh) /\ Sound(Missing)
<1>1. NoTime \in Time /\ ~(NoTime > 0)
  BY DEF NoTime, Time
<1>. QED
  BY QuotaType, <1>1 DEF Fresh, Missing, State, Sound, NoQuota

LEMMA SettledType ==
    ASSUME NEW s \in State
    PROVE  Settled(s) \in State /\ (Sound(s) => Sound(Settled(s)))
<1>1. NoTime \in Time
  BY DEF NoTime, Time
<1>2. Settled(s) \in State
  BY <1>1 DEF Settled, State
<1>3. ASSUME Sound(s) PROVE Sound(Settled(s))
  <2>1. CASE ~Expired(s)
    BY <1>3, <2>1 DEF Settled
  <2>2. CASE Expired(s)
    <3>1. s.nextRetry = 0 /\ s.quota.recover \in Time
      BY <2>2 DEF Expired, State, Quota
    <3>2. ~(s.quota.recover > 0)
      BY <1>3, <3>1 DEF Sound, Time, NoTime
    <3>3. Settled(s).quota = s.quota
      BY <2>2 DEF Settled, State
    <3>. QED
      BY <3>2, <3>3 DEF Sound
  <2>. QED
    BY <2>1, <2>2
<1>. QED
  BY <1>2, <1>3

LEMMA FailedType ==
    ASSUME NEW s \in State, NEW t \in Time
    PROVE  /\ Failed(s, t) \in State
           /\ Uncooled(s) \in State /\ Sound(Uncooled(s))
           /\ Invalid(s) \in State /\ Sound(Invalid(s))
<1>1. NoTime \in Time /\ ~(NoTime > 0)
  BY DEF NoTime, Time
<1>2. \A u \in Time : Failed(s, u) \in State
  BY DEF Failed, State
<1>3. Uncooled(s) \in State /\ Invalid(s) \in State
  BY <1>1, <1>2, QuotaType DEF Uncooled, Invalid, State
<1>4. Uncooled(s).quota = NoQuota /\ Invalid(s).quota = NoQuota
  BY <1>1, <1>2 DEF Uncooled, Invalid, State
<1>. QED
  BY <1>1, <1>2, <1>3, <1>4 DEF Sound, NoQuota

LEMMA RateLimitedType ==
    ASSUME NEW s \in State, NEW t \in Nat, NEW l \in 0..MaxLevel
    PROVE  RateLimited(s, t, l) \in State /\ Sound(RateLimited(s, t, l))
<1>1. t \in Time
  BY DEF Time
<1>2. Failed(s, t) \in State /\ Failed(s, t).unavailable /\ Failed(s, t).nextRetry = t
  BY <1>1 DEF Failed, State
<1>3. RateLimited(s, t, l) \in State
  BY <1>1, <1>2, QuotaType DEF RateLimited, State
<1>4. /\ RateLimited(s, t, l).quota = Limited(t, l)
      /\ RateLimited(s, t, l).unavailable
      /\ RateLimited(s, t, l).nextRetry = t
  BY <1>2 DEF RateLimited, State
<1>. QED
  BY <1>3, <1>4 DEF Sound, Limited

LEMMA LevelType ==
    ASSUME NEW l \in 0..MaxLevel
    PROVE  /\ NextLevel(l) \in 0..MaxLevel
           /\ Longer(ChallengeMin, QuotaCooldown[l]) \in Nat
           /\ \A r \in Nat : RateLimit(l, r) \in Nat
<1>1. MaxLevel \in Nat /\ QuotaCooldown[l] \in Nat /\ ChallengeMin \in Nat /\ RateLimitMin \in Nat
  BY StateAssumption
<1>2. l \in Nat /\ l =< MaxLevel
  BY <1>1
<1>. QED
  BY <1>1, <1>2, SMT DEF NextLevel, Longer, RateLimit

LEMMA ChallengedType ==
    ASSUME NEW s \in State, NEW o \in BOOLEAN PROVE Challenged(s, o) \in State
<1>. DEFINE t == IF o THEN NoTime ELSE Longer(ChallengeMin, QuotaCooldown[s.quota.level])
            l == IF o THEN s.quota.level ELSE NextLevel(s.quota.level)
<1>1. s.quota.level \in 0..MaxLevel
  BY DEF State, Quota
<1>2. t \in Time /\ l \in 0..MaxLevel
  BY <1>1, LevelType DEF Time, NoTime
<1>3. Failed(s, t) \in State /\ Limited(t, l) \in Quota
  BY <1>2, FailedType, QuotaType
<1>. HIDE DEF t, l
<1>4. [Failed(s, t) EXCEPT !.quota = Limited(t, l)] \in State
  BY <1>3 DEF State
<1>. QED
  BY <1>4 DEF Challenged, t, l

LEMMA UncoolType ==
    ASSUME NEW s \in State PROVE Uncool(s) \in State /\ Sound(Uncool(s))
<1>1. NoTime \in Time /\ ~(NoTime > 0)
  BY DEF NoTime, Time
<1>2. CASE Cooling(s)
  <2>1. Uncool(s) = [s EXCEPT !.unavailable = FALSE, !.nextRetry = NoTime, !.quota = NoQuota]
    BY <1>2 DEF Uncool
  <2>2. Uncool(s) \in State /\ Uncool(s).quota = NoQuota
    BY <1>1, <2>1, QuotaType DEF State
  <2>3. NoQuota.recover = NoTime
    BY DEF NoQuota
  <2>. QED
    BY <1>1, <2>2, <2>3 DEF Sound
<1>3. CASE ~Cooling(s)
  <2>1. Uncool(s) = s /\ s.quota.recover = NoTime
    BY <1>3 DEF Uncool, Cooling
  <2>. QED
    BY <1>1, <2>1 DEF Sound
<1>. QED
  BY <1>2, <1>3

LEMMA ElapseType ==
    \A t \in Time : /\ Elapse(t) \in Time
                    /\ \A u \in Time : u >= t => Elapse(u) >= Elapse(t)
                    /\ Elapse(t) > 0 => t > 0
BY DEF Elapse, Time, NoTime

LEMMA LaterType ==
    ASSUME NEW s \in State
    PROVE  Later(s) \in State /\ (Sound(s) => Sound(Later(s)))
<1>1. s.nextRetry \in Time /\ s.quota \in Quota /\ s.quota.recover \in Time
  BY DEF State, Quota
<1>2. [s.quota EXCEPT !.recover = Elapse(s.quota.recover)] \in Quota
  BY <1>1, ElapseType DEF Quota
<1>3. Later(s) \in State
  BY <1>1, <1>2, ElapseType DEF Later, State
<1>4. /\ Later(s).nextRetry = Elapse(s.nextRetry)
      /\ Later(s).unavailable = s.unavailable
      /\ Later(s).quota.recover = Elapse(s.quota.recover)
  BY <1>1 DEF Later, State, Quota
<1>5. ASSUME Sound(s), Later(s).quota.recover > 0
      PROVE  Later(s).unavailable /\ Later(s).nextRetry >= Later(s).quota.recover
  <2>1. s.quota.recover > 0
    BY <1>1, <1>4, <1>5, ElapseType
  <2>2. s.unavailable /\ s.nextRetry >= s.quota.recover
    BY <1>5, <2>1 DEF Sound
  <2>. QED
    BY <1>1, <1>4, <2>2, ElapseType
<1>. QED
  BY <1>3, <1>5 DEF Sound

-----------------------------------------------------------------------------
(* The operators on an auth.                                               *)

States == [Keys -> State]
Good(a) == a \in Auth /\ FamiliesSound(a)
GoodStates(S) == S \in States /\ \A f \in Families : Sound(S[f])

LEMMA Replaced ==
    ASSUME NEW a \in Auth, NEW S, GoodStates(S)
    PROVE  Good([a EXCEPT !.states = S])
BY DEF GoodStates, Good, States, Auth, FamiliesSound

LEMMA StatesOfGood == \A a : Good(a) => a \in Auth /\ GoodStates(a.states)
BY DEF Good, GoodStates, States, Auth, FamiliesSound

\* Good speaks of the states only: the other fields may change within their types.
LEMMA GoodByStates ==
    ASSUME NEW a, NEW b \in Auth, Good(a), b.states = a.states PROVE Good(b)
BY DEF Good, FamiliesSound

LEMMA AggregatedGood == ASSUME NEW a, Good(a) PROVE Good(Aggregated(a))
<1>. DEFINE S == [k \in Keys |-> Settled(a.states[k])]
            known == Known(a)
            down == {k \in known : StateBlocked(S[k])}
            limited == {k \in known : S[k].quota.exceeded}
            retries == {S[k].nextRetry : k \in {j \in down : S[j].status # "invalid"}}
            recovers == {S[k].quota.recover : k \in limited} \ {NoTime}
            levels == {S[k].quota.level : k \in limited}
            q == IF limited = {} THEN NoQuota
                 ELSE [exceeded |-> TRUE, recover |-> Earliest(recovers), level |-> Highest(levels)]
            u == known # {} /\ down = known
            t == IF u THEN Earliest(retries) ELSE NoTime
<1>1. a \in Auth /\ GoodStates(a.states)
  BY StatesOfGood
<1>2. \A k \in Keys : a.states[k] \in State
  BY <1>1 DEF GoodStates, States
<1>3. GoodStates(S)
  <2>1. \A k \in Keys : S[k] \in State
    BY <1>2, SettledType
  <2>2. \A f \in Families : f \in Keys /\ Sound(a.states[f])
    BY <1>1 DEF GoodStates, Keys
  <2>3. \A f \in Families : Sound(S[f])
    BY <1>2, <2>2, SettledType
  <2>. QED
    BY <2>1, <2>3 DEF GoodStates, States
<1>4. \A k \in Keys : S[k] \in State
  BY <1>3 DEF GoodStates, States
<1>5. known \subseteq Keys /\ limited \subseteq Keys /\ down \subseteq Keys
  BY DEF Known
<1>. HIDE DEF S
<1>6. retries \in SUBSET Nat
  <2>1. ASSUME NEW k \in down, S[k].status # "invalid" PROVE S[k].nextRetry \in Nat
    BY <1>4, <1>5, <2>1 DEF StateBlocked, State, Time, NoTime
  <2>. QED
    BY <2>1
<1>7. recovers \in SUBSET Nat /\ levels \in SUBSET (0..MaxLevel)
  <2>1. \A k \in limited : S[k].quota.recover \in Time /\ S[k].quota.level \in 0..MaxLevel
    BY <1>4, <1>5 DEF State, Quota
  <2>. QED
    BY <2>1 DEF Time
<1>. HIDE DEF retries, recovers, levels, limited, down, known
<1>8. q \in Quota
  BY <1>7, EarliestType, HighestType, QuotaType DEF Quota
<1>9. u \in BOOLEAN /\ t \in Time
  <2>1. NoTime \in Time
    BY DEF Time
  <2>. QED
    BY <1>6, <2>1, EarliestType
<1>10. Aggregated(a) = [[[[a EXCEPT !.states = S] EXCEPT !.unavailable = u]
                            EXCEPT !.nextRetry = t] EXCEPT !.quota = q]
  BY DEF Aggregated, S, u, t, q, known, down, limited, retries, recovers, levels
<1>. HIDE DEF q, u, t
<1>11. Good([a EXCEPT !.states = S])
  BY <1>1, <1>3, Replaced
<1>12. Aggregated(a) \in Auth /\ Aggregated(a).states = S
  BY <1>8, <1>9, <1>10, <1>11 DEF Good, Auth
<1>13. [a EXCEPT !.states = S].states = S
  BY <1>1 DEF Auth
<1>. QED
  BY <1>11, <1>12, <1>13, GoodByStates

LEMMA RecoveredGood == ASSUME NEW a, Good(a) PROVE Good(Recovered(a))
<1>1. Recovered(a) \in Auth /\ Recovered(a).states = a.states
  BY DEF Good, Auth, Recovered
<1>. QED
  BY <1>1, GoodByStates

LEMMA FromFileGood == \A x \in BOOLEAN : Good(FromFile(x))
<1>1. \A x \in BOOLEAN : FromFile(x) \in Auth
  BY FreshType, QuotaType DEF FromFile, Auth, Time
<1>2. \A x \in BOOLEAN, f \in Families : FromFile(x).states[f] = Missing
  BY DEF FromFile, Keys
<1>. QED
  BY <1>1, <1>2, FreshType DEF Good, FamiliesSound

LEMMA AfterSuccessGood ==
    ASSUME NEW a, Good(a), NEW m \in Models PROVE Good(AfterSuccess(a, m))
<1>. DEFINE reset == {k \in Concerned(m) : k = m \/ a.states[k].status # "invalid"}
            S == [k \in Keys |-> IF k \in reset THEN Fresh ELSE a.states[k]]
<1>1. a \in Auth /\ GoodStates(a.states)
  BY StatesOfGood
<1>2. GoodStates(S)
  BY <1>1, FreshType DEF GoodStates, States, Keys
<1>3. Good(Recovered(Aggregated([a EXCEPT !.states = S])))
  BY <1>1, <1>2, Replaced, AggregatedGood, RecoveredGood
<1>. QED
  BY <1>3 DEF AfterSuccess

LEMMA CooldownType == \A kind, o : Cooldown(kind, o) \in Time
<1>1. {Short, Long, Transient, NoTime} \subseteq Time
  BY StateAssumption DEF Time, NoTime
<1>. QED
  BY <1>1 DEF Cooldown

\* A failure writes the family's state with one time for retry and recovery, or
\* resets it; the model's own state may get any.
LEMMA FailedStatesGood ==
    ASSUME NEW a, Good(a), NEW m \in Models, NEW kind \in Failures, NEW r \in Nat,
           NEW o \in BOOLEAN
    PROVE  GoodStates(FailedStates(a, m, kind, r, o))
<1>. DEFINE s == a.states[m]
            l == s.quota.level
<1>1. a \in Auth /\ GoodStates(a.states)
  BY StatesOfGood
<1>2. m \in Keys /\ s \in State /\ m \notin Families
  BY <1>1, StateAssumption DEF GoodStates, States, Keys
<1>3. l \in 0..MaxLevel
  BY <1>2 DEF State, Quota
<1>4. RateLimit(l, r) \in Nat /\ NextLevel(l) \in 0..MaxLevel
  BY <1>3, LevelType
<1>5. Families \subseteq Keys /\ \A k \in Keys : a.states[k] \in State
  BY <1>1 DEF GoodStates, States, Keys
<1>6. \A x \in State : GoodStates([a.states EXCEPT ![m] = x])
  BY <1>1, <1>2 DEF GoodStates, States, Keys
<1>. HIDE DEF s, l
<1>7. CASE kind = "challenge"
  <2>1. FailedStates(a, m, kind, r, o) = [a.states EXCEPT ![m] = Challenged(s, o)]
    BY <1>7 DEF FailedStates, Lifts, s
  <2>. QED
    BY <1>2, <1>6, <2>1, ChallengedType
<1>8. CASE Lifts(kind, o)
  <2>1. FailedStates(a, m, kind, r, o) =
            [k \in Keys |-> IF k = m THEN Uncooled(s)
                            ELSE IF k \in Concerned(m) THEN Missing ELSE a.states[k]]
    BY <1>8 DEF FailedStates, Lifts, s
  <2>2. Uncooled(s) \in State
    BY <1>2, FailedType DEF Time
  <2>. QED
    BY <1>1, <1>2, <1>5, <2>1, <2>2, FreshType DEF GoodStates, States
<1>9. CASE kind = "rateLimit" /\ ~Lifts(kind, o)
  <2>1. FailedStates(a, m, kind, r, o) =
            [k \in Keys |-> IF k \in Concerned(m)
                            THEN RateLimited(a.states[k], RateLimit(l, r), NextLevel(l))
                            ELSE a.states[k]]
    BY <1>9 DEF FailedStates, s, l
  <2>2. \A k \in Keys : LET x == RateLimited(a.states[k], RateLimit(l, r), NextLevel(l))
                        IN  x \in State /\ Sound(x)
    BY <1>4, <1>5, RateLimitedType
  <2>. QED
    BY <1>1, <1>5, <2>1, <2>2 DEF GoodStates, States
<1>10. CASE kind = "forbidden" /\ ~Lifts(kind, o) /\ FamilyOf[m] # NoFamily
  <2>1. FailedStates(a, m, kind, r, o) =
            [k \in Keys |-> IF k \in Concerned(m) THEN Invalid(a.states[k]) ELSE a.states[k]]
    BY <1>10 DEF FailedStates
  <2>2. \A k \in Keys : Invalid(a.states[k]) \in State /\ Sound(Invalid(a.states[k]))
    BY <1>5, FailedType DEF Time
  <2>. QED
    BY <1>1, <1>5, <2>1, <2>2 DEF GoodStates, States
<1>11. CASE /\ kind # "challenge" /\ ~Lifts(kind, o) /\ kind # "rateLimit"
            /\ ~(kind = "forbidden" /\ FamilyOf[m] # NoFamily)
  <2>1. FailedStates(a, m, kind, r, o) = [a.states EXCEPT ![m] = Failed(s, Cooldown(kind, o))]
    BY <1>11 DEF FailedStates, s
  <2>. QED
    BY <1>2, <1>6, <2>1, CooldownType, FailedType
<1>. QED
  BY <1>7, <1>8, <1>9, <1>10, <1>11

LEMMA AfterFailureGood ==
    ASSUME NEW a, Good(a), NEW m \in Models, NEW kind \in Failures, NEW r \in Nat,
           NEW o \in BOOLEAN
    PROVE  Good(AfterFailure(a, m, kind, r, o))
<1>. DEFINE S == FailedStates(a, m, kind, r, o)
            b == [a EXCEPT !.states = S]
            c == [a EXCEPT !.states = S, !.err = ErrorOf(kind), !.status = "error"]
<1>1. a \in Auth /\ Good(b)
  BY FailedStatesGood, Replaced DEF Good
<1>. HIDE DEF S
<1>2. c \in Auth /\ c.states = b.states
  BY <1>1 DEF Good, Auth, ErrorOf
<1>3. Good(c)
  BY <1>1, <1>2, GoodByStates
<1>4. Good(Aggregated(c))
  BY <1>3, AggregatedGood
<1>. QED
  BY <1>4 DEF AfterFailure, S

LEMMA AfterAuthSuccessGood == ASSUME NEW a, Good(a) PROVE Good(AfterAuthSuccess(a))
<1>1. AfterAuthSuccess(a) \in Auth /\ AfterAuthSuccess(a).states = a.states
  BY QuotaType DEF Good, Auth, AfterAuthSuccess, Time
<1>. QED
  BY <1>1, GoodByStates

LEMMA AfterAuthFailureGood ==
    ASSUME NEW a, Good(a), NEW kind \in Failures, NEW r \in Nat, NEW o \in BOOLEAN
    PROVE  Good(AfterAuthFailure(a, kind, r, o))
<1>. DEFINE l == a.quota.level
            b == [a EXCEPT !.unavailable = TRUE, !.status = "error", !.err = ErrorOf(kind)]
            t == IF kind = "rateLimit" THEN RateLimit(l, r)
                 ELSE Longer(ChallengeMin, QuotaCooldown[l])
            d == AfterAuthFailure(a, kind, r, o)
<1>1. a \in Auth /\ l \in 0..MaxLevel
  BY DEF Good, Auth, Quota
<1>2. t \in Time /\ NoTime \in Time /\ Limited(t, NextLevel(l)) \in Quota
  BY <1>1, LevelType, QuotaType DEF Time
<1>3. b \in Auth /\ b.states = a.states
  BY <1>1 DEF Auth, ErrorOf
<1>. HIDE DEF t, l, b
<1>4. d \in Auth /\ d.states = a.states
  <2>1. CASE kind = "scoped"
    BY <1>1, <2>1 DEF AfterAuthFailure
  <2>2. CASE kind # "scoped" /\ o
    <3>1. d = [b EXCEPT !.unavailable = FALSE, !.nextRetry = NoTime, !.quota = NoQuota]
      BY <2>2 DEF AfterAuthFailure, b
    <3>. QED
      BY <1>2, <1>3, <3>1, QuotaType DEF Auth
  <2>3. CASE kind \in {"rateLimit", "challenge"} /\ ~o
    <3>1. d = [b EXCEPT !.nextRetry = t, !.quota = Limited(t, NextLevel(l))]
      BY <2>3 DEF AfterAuthFailure, b, t, l
    <3>. QED
      BY <1>2, <1>3, <3>1 DEF Auth
  <2>4. CASE kind = "forbidden" /\ ~o
    <3>1. d = [b EXCEPT !.status = "invalid", !.nextRetry = NoTime, !.quota = NoQuota]
      BY <2>4 DEF AfterAuthFailure, b
    <3>. QED
      BY <1>2, <1>3, <3>1, QuotaType DEF Auth
  <2>5. CASE kind \in {"unsupported", "other"} /\ ~o
    <3>1. d = b
      BY <2>5 DEF AfterAuthFailure, b
    <3>. QED
      BY <1>3, <3>1
  <2>6. CASE /\ ~o
             /\ kind \notin {"scoped", "rateLimit", "challenge", "forbidden", "unsupported", "other"}
    <3>1. d = [b EXCEPT !.nextRetry = Cooldown(kind, o)]
      BY <2>6 DEF AfterAuthFailure, b
    <3>. QED
      BY <1>3, <3>1, CooldownType DEF Auth
  <2>. QED
    BY <2>1, <2>2, <2>3, <2>4, <2>5, <2>6
<1>. QED
  BY <1>4, GoodByStates

LEMMA ClearCooldownGood == ASSUME NEW a, Good(a) PROVE Good(ClearCooldown(a))
<1>. DEFINE S == [k \in Keys |-> Uncool(a.states[k])]
            b == [Uncool(a) EXCEPT !.states = S]
            c == [a EXCEPT !.states = S]
<1>1. a \in Auth /\ GoodStates(a.states)
  BY StatesOfGood
<1>2. GoodStates(S)
  <2>1. \A k \in Keys : S[k] \in State /\ Sound(S[k])
    BY <1>1, UncoolType DEF GoodStates, States
  <2>2. Families \subseteq Keys
    BY DEF Keys
  <2>. QED
    BY <2>1, <2>2 DEF GoodStates, States
<1>. HIDE DEF S
<1>3. Good(c)
  BY <1>1, <1>2, Replaced
<1>4. Uncool(a) \in Auth
  BY <1>1, QuotaType DEF Uncool, Auth, Time
<1>5. b \in Auth /\ b.states = c.states
  BY <1>1, <1>3, <1>4 DEF Good, Auth
<1>6. Good(b) /\ Good(Aggregated(b))
  BY <1>3, <1>5, GoodByStates, AggregatedGood
<1>. QED
  BY <1>6 DEF ClearCooldown, S

LEMMA ResetGood == ASSUME NEW a, Good(a) PROVE Good(Reset(a))
<1>. DEFINE S == [k \in Keys |-> IF a.states[k].known THEN Fresh ELSE Missing]
            b == ClearCooldown([a EXCEPT !.states = S])
<1>1. GoodStates(S)
  BY FreshType DEF GoodStates, States, Keys
<1>2. Good([a EXCEPT !.states = S])
  BY <1>1, Replaced DEF Good
<1>3. Good(b) /\ Good(Recovered(b))
  BY <1>2, ClearCooldownGood, RecoveredGood
<1>. QED
  BY <1>3 DEF Reset

LEMMA ReconciledGood ==
    ASSUME NEW a, Good(a), NEW supported PROVE Good(Reconciled(a, supported))
<1>. DEFINE S == [k \in Keys |-> IF k \in supported /\ a.states[k].known THEN Fresh ELSE Missing]
<1>1. GoodStates(S)
  BY FreshType DEF GoodStates, States, Keys
<1>2. Good([a EXCEPT !.states = S])
  BY <1>1, Replaced DEF Good
<1>3. Good(Recovered(Aggregated([a EXCEPT !.states = S])))
  BY <1>2, AggregatedGood, RecoveredGood
<1>. QED
  BY <1>3 DEF Reconciled

LEMMA UpdatedGood ==
    ASSUME NEW a, Good(a), NEW b, Good(b), NEW o PROVE Good(Updated(a, b, o))
<1>. DEFINE S == IF Enabled(a) /\ Enabled(b) /\ Known(b) = {} THEN a.states ELSE b.states
            c == [b EXCEPT !.states = S]
<1>1. GoodStates(S) /\ b \in Auth
  BY StatesOfGood
<1>2. Good(c) /\ Good(ClearCooldown(c))
  BY <1>1, Replaced, ClearCooldownGood
<1>. QED
  BY <1>2 DEF Updated

LEMMA RefreshFailureGood ==
    ASSUME NEW a, Good(a), NEW u \in BOOLEAN PROVE Good(RefreshFailure(a, u))
<1>1. RefreshFailure(a, u) \in Auth /\ RefreshFailure(a, u).states = a.states
  BY DEF Good, Auth, RefreshFailure
<1>. QED
  BY <1>1, GoodByStates

LEMMA TickedGood == ASSUME NEW a, Good(a) PROVE Good(Ticked(a))
<1>. DEFINE S == [k \in Keys |-> Later(a.states[k])]
            c == [a EXCEPT !.states = S]
<1>1. a \in Auth /\ GoodStates(a.states)
  BY StatesOfGood
<1>2. GoodStates(S)
  <2>1. \A k \in Keys : S[k] \in State /\ (Sound(a.states[k]) => Sound(S[k]))
    BY <1>1, LaterType DEF GoodStates, States
  <2>2. Families \subseteq Keys
    BY DEF Keys
  <2>. QED
    BY <1>1, <2>1, <2>2 DEF GoodStates, States
<1>. HIDE DEF S
<1>3. Good(c)
  BY <1>1, <1>2, Replaced
<1>4. [a.quota EXCEPT !.recover = Elapse(a.quota.recover)] \in Quota /\ Elapse(a.nextRetry) \in Time
  BY <1>1, ElapseType DEF Auth, Quota
<1>5. Later(a) \in Auth
  BY <1>1, <1>4 DEF Later, Auth
<1>6. Ticked(a) = [Later(a) EXCEPT !.states = S]
  BY DEF Ticked, S
<1>7. Ticked(a) \in Auth /\ Ticked(a).states = c.states
  BY <1>1, <1>3, <1>5, <1>6 DEF Good, Auth
<1>. QED
  BY <1>3, <1>7, GoodByStates

-----------------------------------------------------------------------------
(* The invariant.                                                          *)

LEMMA WrittenGood ==
    ASSUME NEW edit \in Edit, FamiliesSound(edit.read) PROVE Good(Written(edit))
<1>. DEFINE a == edit.read
            file == FromFile(edit.disable)
<1>1. Good(a) /\ edit.disable \in BOOLEAN
  BY DEF Edit, Good
<1>2. CASE edit.kind = "refresh"
  <2>1. Written(edit) = [a EXCEPT !.err = "none"]
    BY <1>2 DEF Written
  <2>2. Written(edit) \in Auth /\ Written(edit).states = a.states
    BY <1>1, <2>1 DEF Good, Auth
  <2>. QED
    BY <1>1, <2>2, GoodByStates
<1>3. CASE edit.kind = "status"
  <2>1. Written(edit) = [a EXCEPT !.disabled = edit.disable,
                                  !.status = IF edit.disable THEN "disabled" ELSE "active"]
    BY <1>3 DEF Written
  <2>2. Written(edit) \in Auth /\ Written(edit).states = a.states
    BY <1>1, <2>1 DEF Good, Auth
  <2>. QED
    BY <1>1, <2>2, GoodByStates
<1>4. CASE edit.kind \notin {"refresh", "status"}
  <2>1. Good(file) /\ file \in Auth /\ GoodStates(a.states)
    BY <1>1, FromFileGood, StatesOfGood
  <2>2. Good([file EXCEPT !.states = a.states])
    BY <2>1, Replaced
  <2>. QED
    BY <1>4, <2>1, <2>2 DEF Written
<1>. QED
  BY <1>2, <1>3, <1>4

LEMMA GoodInv ==
    IInv <=> /\ Good(auth) /\ off \in BOOLEAN /\ clearing \in BOOLEAN
             /\ held \in [Editors -> Edit \cup {NoEdit}]
             /\ \A e \in Editors : held[e] # NoEdit => FamiliesSound(held[e].read)
BY DEF IInv, TypeOK, Good

LEMMA InvInit == Init => IInv
BY FromFileGood, GoodInv DEF Init

LEMMA InvNext == IInv /\ [Next]_vars => IInv'
<1>. SUFFICES ASSUME IInv, [Next]_vars PROVE IInv'
  OBVIOUS
<1>1. /\ Good(auth) /\ off \in BOOLEAN /\ clearing \in BOOLEAN
      /\ held \in [Editors -> Edit \cup {NoEdit}]
      /\ \A e \in Editors : held[e] # NoEdit => FamiliesSound(held[e].read)
  BY GoodInv
<1>2. SUFFICES /\ Good(auth') /\ off' \in BOOLEAN /\ clearing' \in BOOLEAN
               /\ held' \in [Editors -> Edit \cup {NoEdit}]
               /\ \A e \in Editors : held'[e] # NoEdit => FamiliesSound(held'[e].read)
  BY DEF IInv, TypeOK, Good, FamiliesSound
<1>3. \A kind \in Failures : Waits(kind) \subseteq Nat
  BY StateAssumption DEF Waits
<1>4. ASSUME NEW m \in Models, Succeed(m) PROVE Good(auth')
  BY <1>1, <1>4, AfterSuccessGood DEF Succeed
<1>5. ASSUME NEW m \in Models, Fail(m) PROVE Good(auth')
  BY <1>1, <1>3, <1>5, AfterFailureGood DEF Fail
<1>6. CASE SucceedAuth
  BY <1>1, <1>6, AfterAuthSuccessGood DEF SucceedAuth
<1>7. ASSUME FailAuth PROVE Good(auth')
  BY <1>1, <1>3, <1>7, AfterAuthFailureGood DEF FailAuth
<1>8. CASE StoreConfig
  BY <1>1, <1>8 DEF StoreConfig
<1>9. CASE ClearDisabled
  BY <1>1, <1>9, ClearCooldownGood DEF ClearDisabled
<1>10. CASE ResetQuota
  BY <1>1, <1>10, ResetGood DEF ResetQuota
<1>11. CASE Reconcile
  BY <1>1, <1>11, ReconciledGood DEF Reconcile
<1>12. ASSUME NEW e \in Editors, BeginEdit(e)
       PROVE  /\ auth' = auth
              /\ held' \in [Editors -> Edit \cup {NoEdit}]
              /\ \A d \in Editors : held'[d] # NoEdit => FamiliesSound(held'[d].read)
  <2>1. PICK kind \in {"refresh", "status", "file"}, x \in BOOLEAN :
            held' = [held EXCEPT ![e] = [kind |-> kind, disable |-> x, read |-> auth]]
    BY <1>12 DEF BeginEdit
  <2>2. [kind |-> kind, disable |-> x, read |-> auth] \in Edit /\ FamiliesSound(auth)
    BY <1>1 DEF Edit, Good
  <2>. QED
    BY <1>1, <1>12, <2>1, <2>2 DEF BeginEdit
<1>13. ASSUME NEW e \in Editors, EndEdit(e) PROVE Good(auth')
  <2>1. held[e] \in Edit /\ FamiliesSound(held[e].read)
    BY <1>1, <1>13 DEF EndEdit
  <2>2. Good(Written(held[e]))
    BY <2>1, WrittenGood
  <2>. QED
    BY <1>1, <1>13, <2>2, UpdatedGood DEF EndEdit
<1>14. ASSUME NEW e \in Editors, RefreshFailed(e) PROVE Good(auth')
  BY <1>1, <1>14, RefreshFailureGood DEF RefreshFailed
<1>15. ASSUME NEW e \in Editors, held' = [held EXCEPT ![e] = NoEdit]
       PROVE  /\ held' \in [Editors -> Edit \cup {NoEdit}]
              /\ \A d \in Editors : held'[d] # NoEdit => FamiliesSound(held'[d].read)
  BY <1>1, <1>15
<1>16. CASE Tick
  <2>1. Good(auth')
    BY <1>1, <1>16, TickedGood DEF Tick
  <2>2. held' = [e \in Editors |-> AgedEdit(held[e])]
    BY <1>16 DEF Tick
  <2>3. ASSUME NEW e \in Editors, held[e] # NoEdit
        PROVE  AgedEdit(held[e]) \in Edit /\ FamiliesSound(AgedEdit(held[e]).read)
    <3>1. held[e] \in Edit /\ Good(held[e].read)
      BY <1>1, <2>3 DEF Edit, Good
    <3>2. Good(Ticked(held[e].read))
      BY <3>1, TickedGood
    <3>3. AgedEdit(held[e]) = [held[e] EXCEPT !.read = Ticked(held[e].read)]
      BY <2>3 DEF AgedEdit
    <3>. QED
      BY <3>1, <3>2, <3>3 DEF Edit, Good
  <2>4. \A e \in Editors : held[e] = NoEdit => AgedEdit(held[e]) = NoEdit
    BY DEF AgedEdit
  <2>. QED
    BY <1>1, <1>16, <2>1, <2>2, <2>3, <2>4 DEF Tick
<1>17. CASE UNCHANGED vars
  BY <1>1, <1>17 DEF vars
<1>18. ASSUME NEW m \in Models, Succeed(m) \/ Fail(m) PROVE UNCHANGED <<off, clearing, held>>
  BY <1>18 DEF Succeed, Fail
<1>19. CASE FailAuth
  BY <1>1, <1>7, <1>19 DEF FailAuth
<1>20. CASE \E m \in Models : Succeed(m) \/ Fail(m)
  BY <1>1, <1>4, <1>5, <1>18, <1>20
<1>21. CASE \E e \in Editors : BeginEdit(e) \/ EndEdit(e) \/ RefreshFailed(e)
  <2>1. PICK e \in Editors : BeginEdit(e) \/ EndEdit(e) \/ RefreshFailed(e)
    BY <1>21
  <2>2. CASE BeginEdit(e)
    BY <1>1, <1>12, <2>2 DEF BeginEdit
  <2>3. CASE EndEdit(e)
    BY <1>1, <1>13, <1>15, <2>3 DEF EndEdit
  <2>4. CASE RefreshFailed(e)
    BY <1>1, <1>14, <1>15, <2>4 DEF RefreshFailed
  <2>. QED
    BY <2>1, <2>2, <2>3, <2>4
<1>. QED
  BY <1>6, <1>8, <1>9, <1>10, <1>11, <1>16, <1>17, <1>19, <1>20, <1>21 DEF Next

-----------------------------------------------------------------------------
(* Theorems.                                                               *)

\* The types and the coupled times of every family state, in the manager's auth
\* and in what editors will write back, hold in every reachable state.
THEOREM AvailabilityInvariance == Spec => []IInv
BY InvInit, InvNext, PTL DEF Spec

\* Results, edits, configuration changes and time keep the record of an auth in
\* its type; in particular no backoff level leaves its range.
THEOREM AvailabilityTypes == Spec => []TypeOK
<1>1. IInv => TypeOK
  BY DEF IInv
<1>. QED
  BY <1>1, AvailabilityInvariance, PTL

\* A family that hit its quota is blocked until the recovery time, whatever its
\* models report and whoever writes the auth back in between.
THEOREM FamilyQuota == Spec => []FamilyQuotaRespected
<1>1. IInv => FamilyQuotaRespected
  <2>. SUFFICES ASSUME IInv, NEW m \in Models, Family(m),
                       auth.states[FamilyOf[m]].quota.recover > 0
                PROVE  Blocked(auth, m)
    BY DEF FamilyQuotaRespected
  <2>. DEFINE f == FamilyOf[m]
  <2>1. f \in Families /\ f \in Keys /\ f \in Concerned(m)
    BY StateAssumption DEF Family, Keys, Concerned
  <2>2. auth.states[f] \in State /\ Sound(auth.states[f])
    BY <2>1 DEF IInv, TypeOK, Auth, FamiliesSound
  <2>3. auth.states[f].unavailable /\ auth.states[f].nextRetry > 0
    BY <2>2 DEF Sound, State, Quota, Time, NoTime
  <2>. QED
    BY <2>1, <2>3 DEF Blocked, StateBlocked
<1>. QED
  BY <1>1, AvailabilityInvariance, PTL

-----------------------------------------------------------------------------
(* What the results of requests do to a family that is set aside.          *)

\* Summing the states up lets no state through that is set aside.
LEMMA SummedStates ==
    ASSUME NEW a \in Auth, NEW S \in States, NEW b \in Auth, b.states = S, NEW f \in Families,
           StateBlocked(S[f])
    PROVE  /\ StateBlocked(Aggregated(b).states[f])
           /\ StateBlocked(Recovered(Aggregated(b)).states[f])
<1>1. f \in Keys
  BY DEF Keys
<1>2. Aggregated(b).states = [k \in Keys |-> Settled(S[k])]
  BY DEF Aggregated, Auth
<1>3. Settled(S[f]) = S[f]
  BY DEF Settled, Expired, StateBlocked
<1>4. Recovered(Aggregated(b)).states = Aggregated(b).states
  <2>. DEFINE c == Aggregated(b)
  <2>1. c = [b EXCEPT !.states = c.states, !.unavailable = c.unavailable,
                      !.nextRetry = c.nextRetry, !.quota = c.quota]
    BY DEF Aggregated, Auth
  <2>. HIDE DEF c
  <2>2. [c EXCEPT !.err = "none", !.status = "active"].states = c.states
    BY <2>1 DEF Auth
  <2>. QED
    BY <2>2 DEF Recovered, c
<1>. QED
  BY <1>1, <1>2, <1>3, <1>4

LEMMA BlockedByFamily ==
    ASSUME NEW a, NEW n \in Models, Family(n), StateBlocked(a.states[FamilyOf[n]])
    PROVE  Blocked(a, n)
<1>1. FamilyOf[n] \in Concerned(n)
  BY StateAssumption DEF Family, Concerned, Keys
<1>. QED
  BY <1>1 DEF Blocked

\* A late success lets no model of an invalid family through.
THEOREM IsolationSurvivesSuccess == Spec => SuccessKeepsIsolation
<1>1. ASSUME IInv, NEW m \in Models, NEW n \in Models, Succeed(m), Family(n),
             auth.states[FamilyOf[n]].status = "invalid"
      PROVE  Blocked(auth', n)
  <2>. DEFINE f == FamilyOf[n]
              reset == {k \in Concerned(m) : k = m \/ auth.states[k].status # "invalid"}
              S == [k \in Keys |-> IF k \in reset THEN Fresh ELSE auth.states[k]]
              b == [auth EXCEPT !.states = S]
  <2>1. auth \in Auth /\ f \in Families /\ f \in Keys /\ f # m
    BY <1>1, StateAssumption DEF IInv, TypeOK, Family, Keys
  <2>2. S \in States
    BY <2>1, FreshType DEF States, Auth
  <2>3. StateBlocked(S[f])
    BY <1>1, <2>1 DEF StateBlocked
  <2>. HIDE DEF S
  <2>4. b \in Auth /\ b.states = S
    BY <2>1, <2>2 DEF Auth, States
  <2>5. StateBlocked(Recovered(Aggregated(b)).states[f])
    BY <2>1, <2>2, <2>3, <2>4, SummedStates
  <2>6. auth' = Recovered(Aggregated(b))
    BY <1>1 DEF Succeed, AfterSuccess, S
  <2>. QED
    BY <1>1, <2>5, <2>6, BlockedByFamily
<1>2. IInv /\ [Next]_vars =>
        [\A n \in Models :
            Family(n) /\ auth.states[FamilyOf[n]].status = "invalid" /\ ~Blocked(auth', n)
                => ~\E m \in Models : Succeed(m)]_vars
  BY <1>1
<1>. QED
  BY <1>2, AvailabilityInvariance, PTL DEF Spec, SuccessKeepsIsolation

\* While cooling is on, the failure of a model lets no family through that was
\* set aside, whichever failure it is and however late.
THEOREM FamilySurvivesFailure == Spec => FailureKeepsFamilyAside
<1>1. ASSUME IInv, NEW m \in Models, NEW n \in Models, Fail(m), ~off, Family(n),
             StateBlocked(auth.states[FamilyOf[n]])
      PROVE  Blocked(auth', n)
  <2>. DEFINE f == FamilyOf[n]
  <2>1. auth \in Auth /\ f \in Families /\ f \in Keys /\ f # m /\ m \in Keys /\ Good(auth)
    BY <1>1, StateAssumption, GoodInv DEF IInv, TypeOK, Family, Keys
  <2>2. PICK kind \in Failures, r \in Nat : auth' = AfterFailure(auth, m, kind, r, off)
    BY <1>1, StateAssumption DEF Fail, Waits
  <2>3. CASE kind = "scoped"
    BY <1>1, <2>2, <2>3, BlockedByFamily DEF AfterFailure
  <2>4. CASE kind # "scoped"
    <3>. DEFINE S == FailedStates(auth, m, kind, r, off)
                b == [auth EXCEPT !.states = S, !.err = ErrorOf(kind), !.status = "error"]
    <3>1. S \in States
      BY <1>1, <2>1, FailedStatesGood DEF GoodStates, IInv, TypeOK
    <3>2. auth.states[m] \in State /\ auth.states[f] \in State
      BY <2>1 DEF Auth
    <3>3. RateLimit(auth.states[m].quota.level, r) > 0
      <4>. DEFINE l == auth.states[m].quota.level
      <4>1. QuotaCooldown[l] \in Nat \ {0} /\ RateLimitMin \in Nat \ {0}
        BY <3>2, StateAssumption DEF State, Quota
      <4>. HIDE DEF l
      <4>2. RateLimit(l, r) > 0
        BY <4>1 DEF RateLimit, Longer
      <4>. QED
        BY <4>2 DEF l
    <3>4. \A t, l : t > 0 => StateBlocked(RateLimited(auth.states[f], t, l))
      BY <3>2 DEF StateBlocked, RateLimited, Failed, State
    <3>5. StateBlocked(Invalid(auth.states[f]))
      BY <3>2 DEF StateBlocked, Invalid, Failed, State
    <3>6. ~Lifts(kind, off)
      BY <1>1 DEF Lifts
    <3>7. StateBlocked(S[f])
      <4>1. CASE kind = "rateLimit"
        BY <1>1, <2>1, <3>3, <3>4, <3>6, <4>1 DEF FailedStates
      <4>2. CASE kind = "forbidden" /\ FamilyOf[m] # NoFamily
        BY <1>1, <2>1, <3>5, <3>6, <4>2 DEF FailedStates
      <4>3. CASE kind # "rateLimit" /\ ~(kind = "forbidden" /\ FamilyOf[m] # NoFamily)
        <5>1. S[f] = auth.states[f]
          <6>1. CASE kind = "challenge"
            BY <2>1, <3>6, <6>1 DEF FailedStates, Auth
          <6>2. CASE kind # "challenge"
            BY <2>1, <3>6, <4>3, <6>2 DEF FailedStates, Auth
          <6>. QED
            BY <6>1, <6>2
        <5>. QED
          BY <1>1, <5>1
      <4>. QED
        BY <4>1, <4>2, <4>3
    <3>. HIDE DEF S
    <3>8. b \in Auth /\ b.states = S
      BY <2>1, <3>1 DEF Auth, States, ErrorOf
    <3>9. StateBlocked(Aggregated(b).states[f])
      BY <2>1, <3>1, <3>7, <3>8, SummedStates
    <3>10. auth' = Aggregated(b)
      BY <2>2, <2>4 DEF AfterFailure, S
    <3>. QED
      BY <1>1, <3>9, <3>10, BlockedByFamily
  <2>. QED
    BY <2>3, <2>4
<1>2. IInv /\ [Next]_vars =>
        [\A n \in Models :
            Family(n) /\ StateBlocked(auth.states[FamilyOf[n]]) /\ ~Blocked(auth', n) /\ ~off
                => ~\E m \in Models : Fail(m)]_vars
  BY <1>1
<1>. QED
  BY <1>2, AvailabilityInvariance, PTL DEF Spec, FailureKeepsFamilyAside

-----------------------------------------------------------------------------
(* Cooling disabled: no quota wait.                                        *)

Unwaited(S) == \A k \in Keys : S[k].quota.recover = NoTime
NoWait(a) == a.quota.recover = NoTime /\ Unwaited(a.states)

LEMMA NoQuotaRecover == NoQuota.recover = NoTime /\ Fresh.quota = NoQuota /\ Missing.quota = NoQuota
BY DEF NoQuota, Fresh, Missing

\* The auth's own quota is the sum of its states' quotas.
LEMMA AggregatedUnwaited ==
    ASSUME NEW a \in Auth, NEW S \in States, Unwaited(S), NEW b \in Auth, b.states = S
    PROVE  NoWait(Aggregated(b)) /\ NoWait(Recovered(Aggregated(b)))
<1>. DEFINE T == [k \in Keys |-> Settled(b.states[k])]
            limited == {k \in Known(b) : T[k].quota.exceeded}
            c == Aggregated(b)
<1>1. \A k \in Keys : T[k].quota = S[k].quota
  BY DEF Settled, States, State
<1>2. Unwaited(T)
  BY <1>1 DEF Unwaited
<1>3. {T[k].quota.recover : k \in limited} \ {NoTime} = {}
  BY <1>2 DEF Known, Unwaited
<1>4. c.states = T
  BY DEF Aggregated, Auth
<1>5. c.quota = IF limited = {} THEN NoQuota
                ELSE [exceeded |-> TRUE,
                      recover |-> Earliest({T[k].quota.recover : k \in limited} \ {NoTime}),
                      level |-> Highest({T[k].quota.level : k \in limited})]
  BY DEF Aggregated, Auth
<1>. HIDE DEF T, limited
<1>6. c.quota.recover = NoTime
  BY <1>3, <1>5, NoQuotaRecover DEF Earliest
<1>7. NoWait(c)
  BY <1>2, <1>4, <1>6 DEF NoWait
<1>8. Recovered(c).states = c.states /\ Recovered(c).quota = c.quota
  BY DEF Recovered, Aggregated, Auth
<1>. QED
  BY <1>7, <1>8 DEF NoWait

LEMMA UnwaitedReplaced ==
    ASSUME NEW a \in Auth, NEW S \in States, Unwaited(S)
    PROVE  /\ NoWait(Aggregated([a EXCEPT !.states = S]))
           /\ NoWait(Recovered(Aggregated([a EXCEPT !.states = S])))
<1>1. [a EXCEPT !.states = S] \in Auth /\ [a EXCEPT !.states = S].states = S
  BY DEF Auth, States
<1>. QED
  BY <1>1, AggregatedUnwaited

LEMMA AuthSuccessUnwaited ==
    ASSUME NEW a \in Auth, NoWait(a) PROVE NoWait(AfterAuthSuccess(a))
BY NoQuotaRecover DEF AfterAuthSuccess, NoWait, Auth

LEMMA SuccessUnwaited ==
    ASSUME NEW a \in Auth, NoWait(a), NEW m \in Models PROVE NoWait(AfterSuccess(a, m))
<1>. DEFINE reset == {k \in Concerned(m) : k = m \/ a.states[k].status # "invalid"}
            S == [k \in Keys |-> IF k \in reset THEN Fresh ELSE a.states[k]]
<1>1. S \in States
  BY FreshType DEF Auth, States
<1>2. Unwaited(S)
  BY NoQuotaRecover DEF NoWait, Unwaited
<1>. HIDE DEF S
<1>. QED
  BY <1>1, <1>2, UnwaitedReplaced DEF AfterSuccess, S

\* With cooling disabled no failure sets a recovery time.
LEMMA FailedStatesUnwaited ==
    ASSUME NEW a \in Auth, NoWait(a), NEW m \in Models, NEW kind \in Failures, NEW r
    PROVE  Unwaited(FailedStates(a, m, kind, r, TRUE))
<1>. DEFINE s == a.states[m]
<1>1. m \in Keys /\ s \in State /\ s.quota.recover = NoTime
  BY DEF Auth, Keys, NoWait, Unwaited
<1>2. \A x : x.quota.recover = NoTime => Unwaited([a.states EXCEPT ![m] = x])
  BY <1>1 DEF NoWait, Unwaited, Auth
<1>. HIDE DEF s
<1>3. CASE kind = "challenge"
  <2>1. FailedStates(a, m, kind, r, TRUE) = [a.states EXCEPT ![m] = Challenged(s, TRUE)]
    BY <1>3 DEF FailedStates, Lifts, s
  <2>2. Challenged(s, TRUE).quota = Limited(NoTime, s.quota.level)
    <3>1. Challenged(s, TRUE) = [Failed(s, NoTime) EXCEPT !.quota = Limited(NoTime, s.quota.level)]
      BY DEF Challenged
    <3>2. Failed(s, NoTime) \in State
      BY <1>1, FailedType DEF Time
    <3>. QED
      BY <3>1, <3>2 DEF State
  <2>3. Challenged(s, TRUE).quota.recover = NoTime
    <3>1. \A l : Limited(NoTime, l).recover = NoTime
      BY DEF Limited
    <3>. QED
      BY <2>2, <3>1, Zenon
  <2>. QED
    BY <1>2, <2>1, <2>3
<1>4. CASE kind \in {"rateLimit", "forbidden"}
  <2>1. FailedStates(a, m, kind, r, TRUE) =
            [k \in Keys |-> IF k = m THEN Uncooled(s)
                            ELSE IF k \in Concerned(m) THEN Missing ELSE a.states[k]]
    BY <1>4 DEF FailedStates, Lifts, s
  <2>2. Uncooled(s).quota = NoQuota
    BY <1>1 DEF Uncooled, Failed, State
  <2>. QED
    BY <2>1, <2>2, NoQuotaRecover DEF Unwaited, NoWait
<1>5. CASE kind \notin {"challenge", "rateLimit", "forbidden"}
  <2>1. FailedStates(a, m, kind, r, TRUE) =
            [a.states EXCEPT ![m] = Failed(s, Cooldown(kind, TRUE))]
    BY <1>5 DEF FailedStates, Lifts, s
  <2>2. Failed(s, Cooldown(kind, TRUE)).quota = s.quota
    BY <1>1 DEF Failed, State
  <2>. QED
    BY <1>1, <1>2, <2>1, <2>2
<1>. QED
  BY <1>3, <1>4, <1>5

LEMMA FailureUnwaited ==
    ASSUME NEW a, Good(a), NoWait(a), NEW m \in Models, NEW kind \in Failures, NEW r \in Nat
    PROVE  NoWait(AfterFailure(a, m, kind, r, TRUE))
<1>. DEFINE S == FailedStates(a, m, kind, r, TRUE)
            b == [a EXCEPT !.states = S]
            c == [a EXCEPT !.states = S, !.err = ErrorOf(kind), !.status = "error"]
<1>1. a \in Auth /\ S \in States /\ Unwaited(S)
  BY FailedStatesGood, FailedStatesUnwaited DEF Good, GoodStates
<1>. HIDE DEF S
<1>2. c \in Auth /\ c.states = S
  BY <1>1 DEF Auth, States, ErrorOf
<1>3. NoWait(Aggregated(c))
  BY <1>1, <1>2, AggregatedUnwaited
<1>. QED
  BY <1>3 DEF AfterFailure, S

LEMMA AuthFailureUnwaited ==
    ASSUME NEW a \in Auth, NoWait(a), NEW kind \in Failures, NEW r
    PROVE  NoWait(AfterAuthFailure(a, kind, r, TRUE))
<1>. DEFINE b == [a EXCEPT !.unavailable = TRUE, !.status = "error", !.err = ErrorOf(kind)]
<1>1. CASE kind = "scoped"
  BY <1>1 DEF AfterAuthFailure
<1>2. CASE kind # "scoped"
  <2>1. AfterAuthFailure(a, kind, r, TRUE) =
            [b EXCEPT !.unavailable = FALSE, !.nextRetry = NoTime, !.quota = NoQuota]
    BY <1>2 DEF AfterAuthFailure
  <2>. QED
    BY <2>1, NoQuotaRecover DEF NoWait, Auth
<1>. QED
  BY <1>1, <1>2

\* Clearing leaves no recovery time, whatever was there.
LEMMA ClearedUnwaited == ASSUME NEW a \in Auth PROVE NoWait(ClearCooldown(a))
<1>. DEFINE S == [k \in Keys |-> Uncool(a.states[k])]
            b == [Uncool(a) EXCEPT !.states = S]
<1>1. ASSUME NEW k \in Keys PROVE S[k] \in State /\ S[k].quota.recover = NoTime
  <2>1. a.states[k] \in State
    BY DEF Auth
  <2>2. Uncool(a.states[k]).quota.recover = NoTime
    BY <2>1, NoQuotaRecover DEF Uncool, Cooling, State
  <2>. QED
    BY <2>1, <2>2, UncoolType
<1>2. S \in States /\ Unwaited(S)
  BY <1>1 DEF States, Unwaited
<1>. HIDE DEF S
<1>3. Uncool(a) \in Auth /\ Uncool(a).quota.recover = NoTime
  BY QuotaType, NoQuotaRecover DEF Uncool, Cooling, Auth, Time
<1>4. b \in Auth /\ b.states = S /\ b.quota = Uncool(a).quota
  BY <1>2, <1>3 DEF Auth, States
<1>5. NoWait(b) /\ NoWait(Aggregated(b))
  BY <1>2, <1>3, <1>4, AggregatedUnwaited DEF NoWait
<1>. QED
  BY <1>5 DEF ClearCooldown, S

LEMMA ResetUnwaited == ASSUME NEW a, Good(a) PROVE NoWait(Reset(a))
<1>. DEFINE S == [k \in Keys |-> IF a.states[k].known THEN Fresh ELSE Missing]
            b == ClearCooldown([a EXCEPT !.states = S])
<1>1. GoodStates(S)
  BY FreshType DEF GoodStates, States, Keys
<1>. HIDE DEF S
<1>2. Good([a EXCEPT !.states = S])
  BY <1>1, Replaced DEF Good
<1>3. NoWait(b)
  BY <1>2, ClearedUnwaited DEF Good
<1>4. b \in Auth
  BY <1>2, ClearCooldownGood DEF Good
<1>. HIDE DEF b
<1>5. NoWait(Recovered(b))
  BY <1>3, <1>4 DEF Recovered, NoWait, Auth
<1>. QED
  BY <1>3, <1>5 DEF Reset, b, S

LEMMA ReconciledUnwaited ==
    ASSUME NEW a \in Auth, NoWait(a), NEW supported PROVE NoWait(Reconciled(a, supported))
<1>. DEFINE S == [k \in Keys |-> IF k \in supported /\ a.states[k].known THEN Fresh ELSE Missing]
<1>1. S \in States /\ Unwaited(S)
  BY FreshType, NoQuotaRecover DEF States, Unwaited
<1>. HIDE DEF S
<1>2. NoWait(Recovered(Aggregated([a EXCEPT !.states = S])))
  BY <1>1, UnwaitedReplaced
<1>. QED
  BY <1>2 DEF Reconciled, S

LEMMA UpdatedUnwaited ==
    ASSUME NEW a, Good(a), NEW b, Good(b), NEW o, o PROVE NoWait(Updated(a, b, o))
<1>. DEFINE S == IF Enabled(a) /\ Enabled(b) /\ Known(b) = {} THEN a.states ELSE b.states
            c == [b EXCEPT !.states = S]
<1>1. S \in States /\ b \in Auth
  BY DEF Good, Auth, States
<1>. HIDE DEF S
<1>2. c \in Auth
  BY <1>1 DEF Auth, States
<1>3. NoWait(ClearCooldown(c))
  BY <1>2, ClearedUnwaited
<1>. QED
  BY <1>3 DEF Updated, S

LEMMA TickedUnwaited == ASSUME NEW a \in Auth, NoWait(a) PROVE NoWait(Ticked(a))
<1>1. Elapse(NoTime) = NoTime
  BY DEF Elapse, NoTime
<1>2. ASSUME NEW k \in Keys PROVE Later(a.states[k]).quota.recover = NoTime
  BY <1>1 DEF Later, Auth, State, Quota, NoWait, Unwaited
<1>3. Ticked(a).states = [k \in Keys |-> Later(a.states[k])]
  BY DEF Ticked, Later, Auth
<1>4. Ticked(a).quota = [a.quota EXCEPT !.recover = Elapse(a.quota.recover)]
  BY DEF Ticked, Later, Auth
<1>5. Ticked(a).quota.recover = NoTime
  BY <1>1, <1>4 DEF Auth, Quota, NoWait
<1>. QED
  BY <1>2, <1>3, <1>5 DEF NoWait, Unwaited

\* Every step keeps the auth without a wait, or clears it at last.
LEMMA WaitsKept == IInv /\ NoQuotaWhenOff /\ [Next]_vars => NoQuotaWhenOff'
<1>. SUFFICES ASSUME IInv, NoQuotaWhenOff, [Next]_vars, off', ~clearing' PROVE NoWait(auth')
  BY DEF NoQuotaWhenOff, NoWait, Unwaited
<1>1. Good(auth) /\ auth \in Auth /\ off \in BOOLEAN
  BY DEF IInv, TypeOK, Good
<1>2. off /\ ~clearing => NoWait(auth)
  BY DEF NoQuotaWhenOff, NoWait, Unwaited
<1>3. \A kind \in Failures : Waits(kind) \subseteq Nat
  BY StateAssumption DEF Waits
<1>4. ASSUME NEW m \in Models, Succeed(m) PROVE NoWait(auth')
  BY <1>1, <1>2, <1>4, SuccessUnwaited DEF Succeed
<1>5. ASSUME NEW m \in Models, Fail(m) PROVE NoWait(auth')
  <2>1. off = TRUE /\ NoWait(auth)
    BY <1>1, <1>2, <1>5 DEF Fail
  <2>2. PICK kind \in Failures, r \in Nat : auth' = AfterFailure(auth, m, kind, r, off)
    BY <1>3, <1>5 DEF Fail
  <2>. QED
    BY <1>1, <2>1, <2>2, FailureUnwaited
<1>6. CASE SucceedAuth
  BY <1>1, <1>2, <1>6, AuthSuccessUnwaited DEF SucceedAuth
<1>7. CASE FailAuth
  <2>1. off = TRUE /\ NoWait(auth)
    BY <1>1, <1>2, <1>7 DEF FailAuth
  <2>2. PICK kind \in Failures, r \in Nat : auth' = AfterAuthFailure(auth, kind, r, off)
    BY <1>3, <1>7 DEF FailAuth
  <2>. QED
    BY <1>1, <2>1, <2>2, AuthFailureUnwaited
<1>8. CASE StoreConfig
  BY <1>8 DEF StoreConfig
<1>9. CASE ClearDisabled
  BY <1>1, <1>9, ClearedUnwaited DEF ClearDisabled
<1>10. CASE ResetQuota
  BY <1>1, <1>10, ResetUnwaited DEF ResetQuota
<1>11. CASE Reconcile
  BY <1>1, <1>2, <1>11, ReconciledUnwaited DEF Reconcile
<1>12. ASSUME NEW e \in Editors, BeginEdit(e) PROVE NoWait(auth')
  BY <1>2, <1>12 DEF BeginEdit
<1>13. ASSUME NEW e \in Editors, EndEdit(e) PROVE NoWait(auth')
  <2>1. held[e] \in Edit /\ FamiliesSound(held[e].read)
    BY <1>13 DEF EndEdit, IInv, TypeOK
  <2>2. Good(Written(held[e]))
    BY <2>1, WrittenGood
  <2>3. off /\ auth' = Updated(auth, Written(held[e]), off)
    BY <1>13 DEF EndEdit
  <2>. QED
    BY <1>1, <2>2, <2>3, UpdatedUnwaited
<1>14. ASSUME NEW e \in Editors, RefreshFailed(e) PROVE NoWait(auth')
  <2>1. PICK u \in BOOLEAN : auth' = RefreshFailure(auth, u)
    BY <1>14 DEF RefreshFailed
  <2>2. auth'.quota = auth.quota /\ auth'.states = auth.states
    BY <1>1, <2>1 DEF RefreshFailure, Auth
  <2>3. NoWait(auth)
    BY <1>2, <1>14 DEF RefreshFailed
  <2>. QED
    BY <2>2, <2>3 DEF NoWait
<1>15. CASE Tick
  BY <1>1, <1>2, <1>15, TickedUnwaited DEF Tick
<1>16. CASE UNCHANGED vars
  BY <1>2, <1>16 DEF vars
<1>. QED
  BY <1>4, <1>5, <1>6, <1>7, <1>8, <1>9, <1>10, <1>11, <1>12, <1>13, <1>14, <1>15, <1>16 DEF Next

\* Once the operator disabled cooling and SetConfig has returned, no result, edit
\* or refresh leaves a quota wait or brings one back.
THEOREM QuotaOff == Spec => []NoQuotaWhenOff
<1>1. Init => NoQuotaWhenOff
  BY NoQuotaRecover DEF Init, FromFile, NoQuotaWhenOff
<1>. QED
  BY <1>1, WaitsKept, AvailabilityInvariance, PTL DEF Spec

-----------------------------------------------------------------------------
(* The failure of a model and the models of other families.                *)

\* A failure touches the states of the failed model and its family only, and
\* summing the states up sets none aside.
LEMMA Apart ==
    ASSUME NEW m \in Models, NEW n \in Models, ~Related(m, n), NEW k \in Concerned(n)
    PROVE  k \in Keys /\ k # m /\ k \notin Concerned(m)
BY StateAssumption DEF Related, Family, Concerned, Keys

LEMMA SummedKeepsFree ==
    ASSUME NEW b \in Auth, NEW k \in Keys, StateBlocked(Aggregated(b).states[k])
    PROVE  StateBlocked(b.states[k])
<1>1. Aggregated(b).states = [j \in Keys |-> Settled(b.states[j])]
  BY DEF Aggregated, Auth
<1>2. b.states[k] \in State
  BY DEF Auth
<1>3. StateBlocked(Settled(b.states[k]))
  BY <1>1
<1>. QED
  BY <1>2, <1>3 DEF Settled, StateBlocked, State

\* The failure of a model sets no model of another family aside, whichever failure
\* it is and whatever was set aside before.
THEOREM FamiliesStayApart == Spec => FailureStaysInFamily
<1>1. ASSUME IInv, NEW m \in Models, NEW n \in Models, Fail(m), ~Related(m, n), Blocked(auth', n)
      PROVE  Blocked(auth, n)
  <2>1. auth \in Auth /\ m \in Keys /\ Good(auth)
    BY <1>1, GoodInv DEF IInv, TypeOK, Keys
  <2>2. PICK kind \in Failures, r \in Nat : auth' = AfterFailure(auth, m, kind, r, off)
    BY <1>1, StateAssumption DEF Fail, Waits
  <2>3. CASE kind = "scoped"
    BY <1>1, <2>2, <2>3 DEF AfterFailure
  <2>4. CASE kind # "scoped"
    <3>. DEFINE S == FailedStates(auth, m, kind, r, off)
                b == [auth EXCEPT !.states = S, !.err = ErrorOf(kind), !.status = "error"]
                c == Aggregated(b)
    <3>1. S \in States
      BY <1>1, <2>1, FailedStatesGood DEF GoodStates, IInv, TypeOK
    <3>2. ASSUME NEW k \in Keys, k # m, k \notin Concerned(m) PROVE S[k] = auth.states[k]
      <4>. auth.states = [j \in Keys |-> auth.states[j]]
        BY <2>1 DEF Auth
      <4>1. CASE kind = "challenge"
        BY <2>1, <3>2, <4>1 DEF FailedStates
      <4>2. CASE kind \in {"rateLimit", "forbidden"}
        BY <2>1, <3>2, <4>2 DEF FailedStates, Lifts
      <4>3. CASE kind \notin {"challenge", "rateLimit", "forbidden"}
        BY <2>1, <3>2, <4>3 DEF FailedStates, Lifts
      <4>. QED
        BY <4>1, <4>2, <4>3
    <3>. HIDE DEF S
    <3>3. /\ b \in Auth /\ b.states = S
          /\ b.disabled = auth.disabled /\ b.status = "error"
      BY <2>1, <3>1 DEF Auth, States, ErrorOf
    <3>. HIDE DEF b
    <3>4. c.disabled = auth.disabled /\ c.status = "error"
      BY <3>3 DEF Aggregated, Auth
    <3>5. auth' = c
      BY <2>2, <2>4 DEF AfterFailure, S, b
    <3>6. ASSUME NEW k \in Concerned(n), StateBlocked(c.states[k]) PROVE StateBlocked(auth.states[k])
      <4>1. k \in Keys /\ k # m /\ k \notin Concerned(m)
        BY <1>1, Apart
      <4>2. StateBlocked(S[k])
        BY <3>3, <3>6, <4>1, SummedKeepsFree
      <4>. QED
        BY <3>2, <4>1, <4>2
    <3>. HIDE DEF c
    <3>. QED
      BY <1>1, <3>4, <3>5, <3>6 DEF Blocked
  <2>. QED
    BY <2>3, <2>4
<1>2. IInv /\ [Next]_vars =>
        [\A n \in Models :
            ~Blocked(auth, n) /\ Blocked(auth', n)
                => ~\E m \in Models : ~Related(m, n) /\ Fail(m)]_vars
  BY <1>1
<1>. QED
  BY <1>2, AvailabilityInvariance, PTL DEF Spec, FailureStaysInFamily

-----------------------------------------------------------------------------
(* The wait of an auth and those of its models.                            *)

\* An auth that waits has models, all of them set aside, and none for less.  A
\* failed refresh calls an auth unavailable whatever its models do, so this must
\* hold of the time an auth keeps also while it does not call itself that.
WaitIsTrue(a) ==
    a.nextRetry > 0 =>
        /\ Known(a) # {}
        /\ \A k \in Known(a) :
            LET s == a.states[k] IN
            StateBlocked(s) /\ (s.status # "invalid" => s.nextRetry >= a.nextRetry)

WaitsAreTrue ==
    ~Modelless => /\ WaitIsTrue(auth)
                  /\ \A e \in Editors : held[e] # NoEdit => WaitIsTrue(held[e].read)

LEMMA WaitBy ==
    ASSUME NEW a, NEW b, WaitIsTrue(a), b.states = a.states, b.nextRetry = a.nextRetry
    PROVE  WaitIsTrue(b)
BY DEF WaitIsTrue, Known

LEMMA NoWaitIsTrue == ASSUME NEW a, a.nextRetry = NoTime PROVE WaitIsTrue(a)
BY DEF WaitIsTrue, NoTime

LEMMA EarliestIs ==
    ASSUME NEW T \in SUBSET Nat, NEW t \in T PROVE Earliest(T) \in Nat /\ Earliest(T) <= t
<1>1. PICK u \in T : \A v \in T : u =< v
  BY LeastOfNat
<1>. QED
  BY <1>1 DEF Earliest

\* Summing the states up makes the wait of an auth true, whatever it was.
LEMMA AggregatedWaits ==
    ASSUME NEW a \in Auth PROVE WaitIsTrue(Aggregated(a)) /\ WaitIsTrue(Recovered(Aggregated(a)))
<1>. DEFINE S == [k \in Keys |-> Settled(a.states[k])]
            known == Known(a)
            down == {k \in known : StateBlocked(S[k])}
            retries == {S[k].nextRetry : k \in {j \in down : S[j].status # "invalid"}}
            c == Aggregated(a)
<1>1. ASSUME NEW k \in Keys PROVE S[k] \in State /\ S[k].known = a.states[k].known
  <2>1. a.states[k] \in State
    BY DEF Auth
  <2>. QED
    BY <2>1, SettledType DEF Settled, State
<1>2. c.states = S
  BY DEF Aggregated, Auth
<1>3. c.nextRetry = IF known # {} /\ down = known THEN Earliest(retries) ELSE NoTime
  BY DEF Aggregated, Auth
<1>4. Recovered(c).states = c.states /\ Recovered(c).nextRetry = c.nextRetry
  BY DEF Recovered, Aggregated, Auth
<1>. HIDE DEF c, S
<1>5. Known(c) = known /\ known \subseteq Keys
  BY <1>1, <1>2 DEF Known
<1>6. retries \in SUBSET Nat
  <2>1. ASSUME NEW k \in down, S[k].status # "invalid" PROVE S[k].nextRetry \in Nat
    BY <1>1, <1>5, <2>1 DEF StateBlocked, State, Time, NoTime
  <2>. QED
    BY <2>1
<1>7. ASSUME c.nextRetry > 0
      PROVE  /\ Known(c) # {}
             /\ \A k \in Known(c) : /\ StateBlocked(c.states[k])
                                    /\ c.states[k].status # "invalid" =>
                                           c.states[k].nextRetry >= c.nextRetry
  <2>1. known # {} /\ down = known /\ c.nextRetry = Earliest(retries)
    BY <1>3, <1>7 DEF NoTime
  <2>2. ASSUME NEW k \in known, S[k].status # "invalid" PROVE S[k].nextRetry >= Earliest(retries)
    <3>1. S[k].nextRetry \in retries
      BY <2>1, <2>2
    <3>. HIDE DEF retries
    <3>2. S[k].nextRetry \in Nat /\ Earliest(retries) \in Nat /\ Earliest(retries) <= S[k].nextRetry
      BY <1>6, <3>1, EarliestIs
    <3>. QED
      BY <3>2
  <2>. HIDE DEF retries
  <2>. QED
    BY <1>2, <1>5, <2>1, <2>2
<1>8. WaitIsTrue(c)
  BY <1>7 DEF WaitIsTrue
<1>9. WaitIsTrue(Recovered(c))
  BY <1>4, <1>8, WaitBy
<1>. QED
  BY <1>8, <1>9 DEF c

LEMMA ReplacedWaits ==
    ASSUME NEW a \in Auth, NEW S \in States
    PROVE  /\ WaitIsTrue(Aggregated([a EXCEPT !.states = S]))
           /\ WaitIsTrue(Recovered(Aggregated([a EXCEPT !.states = S])))
<1>1. [a EXCEPT !.states = S] \in Auth
  BY DEF Auth, States
<1>. QED
  BY <1>1, AggregatedWaits

LEMMA SuccessWaits == ASSUME NEW a \in Auth, NEW m \in Models PROVE WaitIsTrue(AfterSuccess(a, m))
<1>. DEFINE reset == {k \in Concerned(m) : k = m \/ a.states[k].status # "invalid"}
            S == [k \in Keys |-> IF k \in reset THEN Fresh ELSE a.states[k]]
<1>1. S \in States
  BY FreshType DEF Auth, States
<1>. HIDE DEF S
<1>. QED
  BY <1>1, ReplacedWaits DEF AfterSuccess, S

LEMMA FailureWaits ==
    ASSUME NEW a, Good(a), WaitIsTrue(a), NEW m \in Models, NEW kind \in Failures, NEW r \in Nat,
           NEW o \in BOOLEAN
    PROVE  WaitIsTrue(AfterFailure(a, m, kind, r, o))
<1>. DEFINE S == FailedStates(a, m, kind, r, o)
            c == [a EXCEPT !.states = S, !.err = ErrorOf(kind), !.status = "error"]
<1>1. a \in Auth /\ S \in States
  BY FailedStatesGood DEF Good, GoodStates
<1>. HIDE DEF S
<1>2. c \in Auth
  BY <1>1 DEF Auth, States, ErrorOf
<1>3. WaitIsTrue(Aggregated(c))
  BY <1>2, AggregatedWaits
<1>. QED
  BY <1>3 DEF AfterFailure, S

LEMMA ClearedWaits == ASSUME NEW a \in Auth PROVE WaitIsTrue(ClearCooldown(a))
<1>. DEFINE S == [k \in Keys |-> Uncool(a.states[k])]
            b == [Uncool(a) EXCEPT !.states = S]
<1>1. S \in States
  BY UncoolType DEF States, Auth
<1>. HIDE DEF S
<1>2. Uncool(a) \in Auth /\ Uncool(a).nextRetry = NoTime
  BY QuotaType DEF Uncool, Cooling, Auth, Time
<1>3. b \in Auth /\ b.nextRetry = NoTime
  BY <1>1, <1>2 DEF Auth, States
<1>4. WaitIsTrue(b) /\ WaitIsTrue(Aggregated(b))
  BY <1>3, AggregatedWaits, NoWaitIsTrue
<1>. QED
  BY <1>4 DEF ClearCooldown, S

LEMMA ResetWaits == ASSUME NEW a, Good(a) PROVE WaitIsTrue(Reset(a))
<1>. DEFINE S == [k \in Keys |-> IF a.states[k].known THEN Fresh ELSE Missing]
            b == ClearCooldown([a EXCEPT !.states = S])
<1>1. GoodStates(S)
  BY FreshType DEF GoodStates, States, Keys
<1>. HIDE DEF S
<1>2. Good([a EXCEPT !.states = S])
  BY <1>1, Replaced DEF Good
<1>3. WaitIsTrue(b) /\ b \in Auth
  BY <1>2, ClearedWaits, ClearCooldownGood DEF Good
<1>. HIDE DEF b
<1>4. Recovered(b).states = b.states /\ Recovered(b).nextRetry = b.nextRetry
  BY <1>3 DEF Recovered, Auth
<1>5. WaitIsTrue(Recovered(b))
  BY <1>3, <1>4, WaitBy
<1>. QED
  BY <1>3, <1>5 DEF Reset, b, S

LEMMA ReconciledWaits ==
    ASSUME NEW a \in Auth, WaitIsTrue(a), NEW supported PROVE WaitIsTrue(Reconciled(a, supported))
<1>. DEFINE S == [k \in Keys |-> IF k \in supported /\ a.states[k].known THEN Fresh ELSE Missing]
<1>1. S \in States
  BY FreshType DEF States
<1>. HIDE DEF S
<1>2. WaitIsTrue(Recovered(Aggregated([a EXCEPT !.states = S])))
  BY <1>1, ReplacedWaits
<1>. QED
  BY <1>2 DEF Reconciled, S

\* An auth without model states does not wait, so that it may be given others.
LEMMA UpdatedWaits ==
    ASSUME NEW a, Good(a), NEW b, Good(b), WaitIsTrue(b), NEW o \in BOOLEAN
    PROVE  WaitIsTrue(Updated(a, b, o))
<1>. DEFINE takes == Enabled(a) /\ Enabled(b) /\ Known(b) = {}
            S == IF takes THEN a.states ELSE b.states
            c == [b EXCEPT !.states = S]
<1>1. S \in States /\ b \in Auth
  BY DEF Good, Auth, States
<1>2. c \in Auth /\ c.states = S /\ c.nextRetry = b.nextRetry
  BY <1>1 DEF Auth, States
<1>3. WaitIsTrue(c)
  <2>1. CASE takes
    <3>1. ~(b.nextRetry > 0)
      BY <2>1 DEF WaitIsTrue
    <3>. QED
      BY <1>2, <3>1 DEF WaitIsTrue
  <2>2. CASE ~takes
    <3>1. c.states = b.states
      BY <1>2, <2>2
    <3>. HIDE DEF c
    <3>. QED
      BY <1>2, <3>1, WaitBy
  <2>. QED
    BY <2>1, <2>2
<1>. HIDE DEF S
<1>4. WaitIsTrue(ClearCooldown(c))
  BY <1>2, ClearedWaits
<1>. QED
  BY <1>3, <1>4 DEF Updated, S

LEMMA WrittenWaits ==
    ASSUME NEW edit \in Edit, WaitIsTrue(edit.read) PROVE WaitIsTrue(Written(edit))
<1>1. edit.read \in Auth /\ edit.kind \in {"refresh", "status", "file"} /\ edit.disable \in BOOLEAN
  BY DEF Edit
<1>2. CASE edit.kind = "refresh"
  <2>1. Written(edit) = [edit.read EXCEPT !.err = "none"]
    BY <1>2 DEF Written
  <2>2. Written(edit).states = edit.read.states /\ Written(edit).nextRetry = edit.read.nextRetry
    BY <1>1, <2>1 DEF Auth
  <2>. QED
    BY <2>2, WaitBy
<1>3. CASE edit.kind = "status"
  <2>1. Written(edit) = [edit.read EXCEPT !.disabled = edit.disable,
                            !.status = IF edit.disable THEN "disabled" ELSE "active"]
    BY <1>3 DEF Written
  <2>2. Written(edit).states = edit.read.states /\ Written(edit).nextRetry = edit.read.nextRetry
    BY <1>1, <2>1 DEF Auth
  <2>. QED
    BY <2>2, WaitBy
<1>4. CASE edit.kind = "file"
  <2>1. Written(edit).nextRetry = NoTime
    BY <1>4 DEF Written, FromFile
  <2>. QED
    BY <2>1, NoWaitIsTrue
<1>. QED
  BY <1>1, <1>2, <1>3, <1>4

\* Time brings an auth's wait and those of its models down together.
LEMMA TickedWaits == ASSUME NEW a \in Auth, WaitIsTrue(a) PROVE WaitIsTrue(Ticked(a))
<1>. DEFINE c == Ticked(a)
<1>1. c.states = [k \in Keys |-> Later(a.states[k])] /\ c.nextRetry = Elapse(a.nextRetry)
  BY DEF Ticked, Later, Auth
<1>2. ASSUME NEW k \in Keys
      PROVE  /\ a.states[k] \in State
             /\ c.states[k].known = a.states[k].known
             /\ c.states[k].status = a.states[k].status
             /\ c.states[k].unavailable = a.states[k].unavailable
             /\ c.states[k].nextRetry = Elapse(a.states[k].nextRetry)
  <2>1. a.states[k] \in State
    BY DEF Auth
  <2>2. c.states[k] = Later(a.states[k])
    BY <1>1
  <2>. QED
    BY <2>1, <2>2 DEF Later, State
<1>3. a.nextRetry \in Time
  BY DEF Auth
<1>. HIDE DEF c
<1>4. ASSUME c.nextRetry > 0
      PROVE  /\ Known(c) # {}
             /\ \A k \in Known(c) : /\ StateBlocked(c.states[k])
                                    /\ c.states[k].status # "invalid" =>
                                           c.states[k].nextRetry >= c.nextRetry
  <2>1. a.nextRetry \in Nat /\ a.nextRetry > 0 /\ c.nextRetry = a.nextRetry - 1 /\ a.nextRetry > 1
    BY <1>1, <1>3, <1>4 DEF Elapse, Time, NoTime
  <2>2. Known(c) = Known(a)
    BY <1>2 DEF Known
  <2>3. /\ Known(a) # {}
        /\ \A k \in Known(a) : /\ k \in Keys /\ StateBlocked(a.states[k])
                               /\ a.states[k].status # "invalid" =>
                                      a.states[k].nextRetry >= a.nextRetry
    BY <2>1 DEF WaitIsTrue, Known
  <2>4. ASSUME NEW k \in Known(a), a.states[k].status # "invalid"
        PROVE  StateBlocked(c.states[k]) /\ c.states[k].nextRetry >= c.nextRetry
    <3>1. /\ a.states[k].nextRetry \in Time /\ a.states[k].nextRetry >= a.nextRetry
          /\ a.states[k].unavailable
      BY <1>2, <2>3, <2>4 DEF State, StateBlocked
    <3>2. /\ a.states[k].nextRetry \in Nat
          /\ Elapse(a.states[k].nextRetry) = a.states[k].nextRetry - 1
      BY <2>1, <3>1 DEF Elapse, Time, NoTime
    <3>3. /\ c.states[k].nextRetry = a.states[k].nextRetry - 1
          /\ c.states[k].unavailable = a.states[k].unavailable
      BY <1>2, <2>3, <3>2
    <3>. QED
      BY <2>1, <3>1, <3>2, <3>3 DEF StateBlocked
  <2>5. ASSUME NEW k \in Known(a), a.states[k].status = "invalid" PROVE StateBlocked(c.states[k])
    BY <1>2, <2>3, <2>5 DEF StateBlocked
  <2>. QED
    BY <1>2, <2>2, <2>3, <2>4, <2>5
<1>. QED
  BY <1>4 DEF WaitIsTrue, c

LEMMA WaitsStayTrue == IInv /\ WaitsAreTrue /\ [Next]_vars => WaitsAreTrue'
<1>. SUFFICES ASSUME IInv, WaitsAreTrue, [Next]_vars, ~Modelless
              PROVE  /\ WaitIsTrue(auth')
                     /\ \A e \in Editors : held'[e] # NoEdit => WaitIsTrue(held'[e].read)
  BY DEF WaitsAreTrue, WaitIsTrue, Known
<1>1. /\ Good(auth) /\ auth \in Auth /\ off \in BOOLEAN
      /\ held \in [Editors -> Edit \cup {NoEdit}]
      /\ \A e \in Editors : held[e] # NoEdit => FamiliesSound(held[e].read)
  BY DEF IInv, TypeOK, Good
<1>2. /\ WaitIsTrue(auth)
      /\ \A e \in Editors : held[e] # NoEdit => WaitIsTrue(held[e].read)
  BY DEF WaitsAreTrue
<1>3. \A kind \in Failures : Waits(kind) \subseteq Nat
  BY StateAssumption DEF Waits
<1>4. ASSUME NEW m \in Models, Succeed(m) PROVE WaitIsTrue(auth') /\ held' = held
  BY <1>1, <1>4, SuccessWaits DEF Succeed
<1>5. ASSUME NEW m \in Models, Fail(m) PROVE WaitIsTrue(auth') /\ held' = held
  BY <1>1, <1>2, <1>3, <1>5, FailureWaits DEF Fail
<1>6. CASE StoreConfig
  BY <1>2, <1>6 DEF StoreConfig
<1>7. CASE ClearDisabled
  BY <1>1, <1>2, <1>7, ClearedWaits DEF ClearDisabled
<1>8. CASE ResetQuota
  BY <1>1, <1>2, <1>8, ResetWaits DEF ResetQuota
<1>9. CASE Reconcile
  BY <1>1, <1>2, <1>9, ReconciledWaits DEF Reconcile
<1>10. ASSUME NEW e \in Editors, held' = [held EXCEPT ![e] = NoEdit]
       PROVE  \A d \in Editors : held'[d] # NoEdit => WaitIsTrue(held'[d].read)
  BY <1>1, <1>2, <1>10
<1>11. ASSUME NEW e \in Editors, BeginEdit(e)
       PROVE  /\ WaitIsTrue(auth')
              /\ \A d \in Editors : held'[d] # NoEdit => WaitIsTrue(held'[d].read)
  <2>1. PICK kind \in {"refresh", "status", "file"}, x \in BOOLEAN :
            held' = [held EXCEPT ![e] = [kind |-> kind, disable |-> x, read |-> auth]]
    BY <1>11 DEF BeginEdit
  <2>2. held'[e].read = auth /\ \A d \in Editors \ {e} : held'[d] = held[d]
    BY <1>1, <2>1
  <2>3. auth' = auth
    BY <1>11 DEF BeginEdit
  <2>. QED
    BY <1>2, <2>2, <2>3
<1>12. ASSUME NEW e \in Editors, EndEdit(e) PROVE WaitIsTrue(auth')
  <2>1. held[e] \in Edit /\ FamiliesSound(held[e].read) /\ WaitIsTrue(held[e].read)
    BY <1>1, <1>2, <1>12 DEF EndEdit
  <2>2. Good(Written(held[e])) /\ WaitIsTrue(Written(held[e]))
    BY <2>1, WrittenGood, WrittenWaits
  <2>3. auth' = Updated(auth, Written(held[e]), off)
    BY <1>12 DEF EndEdit
  <2>. QED
    BY <1>1, <2>2, <2>3, UpdatedWaits
<1>13. ASSUME NEW e \in Editors, RefreshFailed(e) PROVE WaitIsTrue(auth')
  <2>1. PICK u \in BOOLEAN : auth' = RefreshFailure(auth, u)
    BY <1>13 DEF RefreshFailed
  <2>2. auth'.states = auth.states /\ auth'.nextRetry = auth.nextRetry
    BY <1>1, <2>1 DEF RefreshFailure, Auth
  <2>. QED
    BY <1>2, <2>2, WaitBy
<1>14. CASE Tick
  <2>1. auth' = Ticked(auth) /\ held' = [e \in Editors |-> AgedEdit(held[e])]
    BY <1>14 DEF Tick
  <2>2. ASSUME NEW e \in Editors, held'[e] # NoEdit PROVE WaitIsTrue(held'[e].read)
    <3>1. held[e] # NoEdit /\ held'[e] = [held[e] EXCEPT !.read = Ticked(held[e].read)]
      BY <2>1, <2>2 DEF AgedEdit
    <3>2. held[e] \in Edit /\ held[e].read \in Auth
      BY <1>1, <3>1 DEF Edit
    <3>3. held'[e].read = Ticked(held[e].read)
      BY <3>1, <3>2 DEF Edit
    <3>. QED
      BY <1>2, <3>1, <3>2, <3>3, TickedWaits
  <2>. QED
    BY <1>1, <1>2, <2>1, <2>2, TickedWaits
<1>15. CASE UNCHANGED vars
  BY <1>2, <1>15 DEF vars
<1>16. ~SucceedAuth /\ ~FailAuth
  BY DEF SucceedAuth, FailAuth
<1>17. CASE \E m \in Models : Succeed(m) \/ Fail(m)
  BY <1>2, <1>4, <1>5, <1>17
<1>18. CASE \E e \in Editors : BeginEdit(e) \/ EndEdit(e) \/ RefreshFailed(e)
  <2>1. PICK e \in Editors : BeginEdit(e) \/ EndEdit(e) \/ RefreshFailed(e)
    BY <1>18
  <2>2. CASE BeginEdit(e)
    BY <1>11, <2>2
  <2>3. CASE EndEdit(e)
    BY <1>10, <1>12, <2>3 DEF EndEdit
  <2>4. CASE RefreshFailed(e)
    BY <1>10, <1>13, <2>4 DEF RefreshFailed
  <2>. QED
    BY <2>1, <2>2, <2>3, <2>4
<1>. QED
  BY <1>6, <1>7, <1>8, <1>9, <1>14, <1>15, <1>16, <1>17, <1>18 DEF Next

\* While every result names its model, an auth that calls itself unavailable until
\* a time has no model that could be used before it: for any models, families and
\* durations, however edits and failed refreshes interleave with the results.
THEOREM AggregatesAreSound == Spec => []AggregateSound
<1>1. Init => WaitsAreTrue
  <2>. SUFFICES ASSUME Init PROVE WaitsAreTrue
    OBVIOUS
  <2>1. auth.nextRetry = NoTime /\ \A e \in Editors : held[e] = NoEdit
    BY DEF Init, FromFile
  <2>. QED
    BY <2>1, NoWaitIsTrue DEF WaitsAreTrue
<1>2. WaitsAreTrue => AggregateSound
  BY DEF WaitsAreTrue, WaitIsTrue, AggregateSound
<1>. QED
  BY <1>1, <1>2, WaitsStayTrue, AvailabilityInvariance, PTL DEF Spec
==============================================================================
