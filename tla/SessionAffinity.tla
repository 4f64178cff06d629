--------------------------- MODULE SessionAffinity ---------------------------
(***************************************************************************)
(* Which auth the requests of one session are sent to.                     *)
(*   sdk/cliproxy/auth/selector.go        SessionAffinitySelector          *)
(*   sdk/cliproxy/auth/session_cache.go   SessionCache                     *)
(*   sdk/cliproxy/auth/conductor.go       pickNextLegacy, Remove           *)
(*                                                                         *)
(* A pick gets a copy of the list of available auths and looks up the      *)
(* session's key.  The first turn of a conversation has another key than   *)
(* the later ones, which inherit its auth.  The cache has a mutex of its   *)
(* own that is taken for each call, so picks, removals and the clean-up    *)
(* interleave between the calls.  Each call reads the clock on its own;    *)
(* the time between that and the mutex is left out.                        *)
(***************************************************************************)
EXTENDS Accounts

CONSTANTS
    Keys,        \* of sessions
    FirstTurn,   \* for each key the key of the conversation's first turn, or NoKey
    NoKey,
    TTL,         \* of a binding, in ticks
    Requests,     \* requests that are picking
    Nobody,      \* no auth
    Unsure       \* history: not known

ASSUME AffinityAssumption ==
    /\ Keys # {} /\ FirstTurn \in [Keys -> Keys \cup {NoKey}] /\ NoKey \notin Keys
    /\ TTL \in Nat \ {0} /\ Nobody \notin Auths /\ Unsure \notin Auths \cup {Nobody}

VARIABLES
    known,       \* Manager.auths
    leaving,     \* auths removed by a call that has not told the cache yet
    binding,     \* SessionCache.entries: the auth and its ticks left
    picker,      \* the requests
    owed,        \* history: the auth each key must lead to
    span         \* history: for how many ticks more

affinityVars == <<known, leaving, binding, picker, owed, span>>

NoBinding == [auth |-> Nobody, left |-> 0]
Bindings == {NoBinding} \cup [auth: Auths, left: 0..TTL]

\* alone and due are history: no other pick concerned the key meanwhile, and
\* the auth the pick must end with.
Picker == [at: {"idle", "look", "inherit", "drop", "choose", "bind"}, key: Keys,
           list: SUBSET Auths, got: Auths \cup {Nobody}, alone: BOOLEAN,
           due: Auths \cup {Unsure}]

AtRest == [at |-> "idle", key |-> CHOOSE k \in Keys : TRUE, list |-> {}, got |-> Nobody,
           alone |-> TRUE, due |-> Unsure]

AffinityTypeOK ==
    /\ known \in SUBSET Auths /\ leaving \in SUBSET Auths
    /\ binding \in [Keys -> Bindings]
    /\ picker \in [Requests -> Picker]
    /\ owed \in [Keys -> Auths \cup {Nobody, Unsure}] /\ span \in [Keys -> 0..TTL]

AffinityInit ==
    /\ known = Auths /\ leaving = {}
    /\ binding = [k \in Keys |-> NoBinding]
    /\ picker = [p \in Requests |-> AtRest]
    /\ owed = [k \in Keys |-> Nobody] /\ span = [k \in Keys |-> 0]

Expires(k) == binding[k].auth # Nobody /\ binding[k].left = 0
Valid(k) == binding[k].auth # Nobody /\ binding[k].left > 0

-----------------------------------------------------------------------------
(* History.                                                                *)

\* The keys a pick reads or writes.
Concerned(q) == IF picker[q].at = "idle" THEN {}
                ELSE {picker[q].key, FirstTurn[picker[q].key]} \ {NoKey}

\* The auth a pick for k from this list must end with: the one of the last pick
\* or, for a key never used, the one of the conversation's first turn.
Due(k, list) ==
    IF owed[k] \in list THEN owed[k]
    ELSE IF owed[k] = Nobody /\ FirstTurn[k] # NoKey /\ owed[FirstTurn[k]] \in list
         THEN owed[FirstTurn[k]] ELSE Unsure

\* Nothing is owed to these keys any more, and picks that relied on it no longer
\* have to end with it.
Release(ks) ==
    /\ owed' = [k \in Keys |-> IF k \in ks THEN Unsure ELSE owed[k]]
    /\ picker' = [q \in Requests |->
           IF ks \cap Concerned(q) # {} THEN [picker[q] EXCEPT !.due = Unsure] ELSE picker[q]]

OwedTo(a) == {k \in Keys : owed[k] = a}

-----------------------------------------------------------------------------
(* SessionAffinitySelector.Pick.                                           *)

Step(p, at) == picker' = [picker EXCEPT ![p].at = at]

\* The pick is over.  A pick of the same conversation that is still under way may
\* have read the cache before.
Return(p, a) ==
    LET k == picker[p].key
        now == IF picker[p].alone THEN a ELSE Unsure
    IN  /\ owed' = [owed EXCEPT ![k] = now]
        /\ span' = [span EXCEPT ![k] = IF now = Unsure THEN 0 ELSE TTL]
        /\ picker' = [q \in Requests |->
               IF q = p THEN AtRest
               ELSE IF k \in Concerned(q) /\ now # owed[k]
                    THEN [picker[q] EXCEPT !.due = Unsure] ELSE picker[q]]

\* pickNextLegacy copies the list of those that results, configuration and time
\* leave available, without what this request tried before: any of the known ones.
BeginSessionPick(p, k, list) ==
    LET shares(q) == \/ k \in Concerned(q)
                     \/ picker[q].at # "idle" /\ picker[q].key = FirstTurn[k]
    IN  /\ picker[p].at = "idle" /\ list # {}
        /\ picker' = [q \in Requests |->
               IF q = p THEN [at |-> "look", key |-> k, list |-> list, got |-> Nobody,
                              alone |-> \A o \in Requests : ~shares(o),
                              due |-> IF \E o \in Requests : shares(o)
                                      THEN Unsure ELSE Due(k, list)]
               ELSE IF shares(q) THEN [picker[q] EXCEPT !.alone = FALSE, !.due = Unsure]
               ELSE picker[q]]
        /\ UNCHANGED <<known, leaving, binding, owed, span>>

\* Mutant: a hit does not renew the binding.
LookOnce(p) ==
    LET k == picker[p].key
    IN  /\ picker[p].at = "look"
        /\ UNCHANGED <<known, leaving>>
        /\ \/ /\ Valid(k) /\ binding[k].auth \in picker[p].list
              /\ UNCHANGED binding /\ Return(p, binding[k].auth)
           \/ /\ Valid(k) /\ binding[k].auth \notin picker[p].list
              /\ Step(p, "choose") /\ UNCHANGED <<binding, owed, span>>
           \/ /\ ~Valid(k)
              /\ binding' = [binding EXCEPT ![k] = NoBinding]
              /\ Step(p, IF FirstTurn[k] # NoKey THEN "inherit" ELSE "choose")
              /\ UNCHANGED <<owed, span>>

\* GetAndRefresh.
Look(p) ==
    LET k == picker[p].key
    IN  /\ picker[p].at = "look"
        /\ binding' = [binding EXCEPT ![k] =
               IF Valid(k) THEN [@ EXCEPT !.left = TTL] ELSE NoBinding]
        /\ UNCHANGED <<known, leaving>>
        /\ \/ /\ Valid(k) /\ binding[k].auth \in picker[p].list
              /\ Return(p, binding[k].auth)
           \/ /\ Valid(k) /\ binding[k].auth \notin picker[p].list
              /\ Step(p, "choose") /\ UNCHANGED <<owed, span>>
           \/ /\ ~Valid(k)
              /\ Step(p, IF FirstTurn[k] # NoKey THEN "inherit" ELSE "choose")
              /\ UNCHANGED <<owed, span>>

\* Get reads under the read lock ...
Inherit(p) ==
    LET k == FirstTurn[picker[p].key]
    IN  /\ picker[p].at = "inherit"
        /\ IF Valid(k) /\ binding[k].auth \in picker[p].list
           THEN picker' = [picker EXCEPT ![p].at = "bind", ![p].got = binding[k].auth]
           ELSE Step(p, IF Expires(k) THEN "drop" ELSE "choose")
        /\ UNCHANGED <<known, leaving, binding, owed, span>>

\* ... and deletes what had expired under the write lock, whatever is there now.
DropExpired(p) ==
    /\ picker[p].at = "drop"
    /\ binding' = [binding EXCEPT ![FirstTurn[picker[p].key]] = NoBinding]
    /\ Step(p, "choose")
    /\ UNCHANGED <<known, leaving, owed, span>>

\* The fallback selector picks one of the list, if one is still available.
Choose(p) ==
    /\ picker[p].at = "choose"
    /\ \/ \E a \in picker[p].list :
              picker' = [picker EXCEPT ![p].at = "bind", ![p].got = a]
       \/ picker' = [picker EXCEPT ![p] = AtRest]
    /\ UNCHANGED <<known, leaving, binding, owed, span>>

\* Set.
Bind(p) ==
    /\ picker[p].at = "bind"
    /\ binding' = [binding EXCEPT ![picker[p].key] = [auth |-> picker[p].got, left |-> TTL]]
    /\ Return(p, picker[p].got)
    /\ UNCHANGED <<known, leaving>>

-----------------------------------------------------------------------------
(* The others.                                                             *)

AddAuth(a) ==
    /\ a \notin known
    /\ known' = known \cup {a}
    /\ UNCHANGED <<leaving, binding, picker, owed, span>>

\* Remove deletes the auth ...
RemoveAuthOf(a) ==
    /\ a \in known \ leaving
    /\ known' = known \ {a} /\ leaving' = leaving \cup {a}
    /\ Release(OwedTo(a))
    /\ UNCHANGED <<binding, span>>

\* ... and InvalidateAuth comes after the manager's lock is released.
Invalidate(a) ==
    /\ a \in leaving /\ leaving' = leaving \ {a}
    /\ binding' = [k \in Keys |-> IF binding[k].auth = a THEN NoBinding ELSE binding[k]]
    /\ Release(OwedTo(a))
    /\ UNCHANGED <<known, span>>

CleanUp ==
    /\ \E k \in Keys : Expires(k)
    /\ binding' = [k \in Keys |-> IF Expires(k) THEN NoBinding ELSE binding[k]]
    /\ UNCHANGED <<known, leaving, picker, owed, span>>

\* A key that was not used for the whole time is owed nothing.
AffinityTick ==
    /\ \E k \in Keys : Valid(k)
    /\ binding' = [k \in Keys |-> [binding[k] EXCEPT !.left = Elapse(@)]]
    /\ span' = [k \in Keys |-> Elapse(span[k])]
    /\ Release({k \in Keys : span[k] = 1})
    /\ UNCHANGED <<known, leaving>>

AffinityNext ==
    \/ \E p \in Requests : \/ \E k \in Keys, list \in SUBSET known : BeginSessionPick(p, k, list)
                          \/ Look(p) \/ Inherit(p) \/ DropExpired(p) \/ Choose(p) \/ Bind(p)
    \/ \E a \in Auths : AddAuth(a) \/ RemoveAuthOf(a) \/ Invalidate(a)
    \/ CleanUp \/ AffinityTick

AffinitySpec == AffinityInit /\ [][AffinityNext]_affinityVars

-----------------------------------------------------------------------------
(* Properties.                                                             *)

\* A conversation stays with its auth as long as that is available: a pick that
\* no other pick of the conversation overlaps ends with the auth of the one
\* before it, or of the first turn, if its list has it, the time was not over and
\* the auth was not removed meanwhile; whatever other sessions do, and whatever
\* is removed or cleaned up between the steps of the pick.
SessionSticks ==
    [][\A p \in Requests :
          picker[p].due # Unsure /\ picker'[p].at = "idle"
             => owed'[picker[p].key] = picker[p].due]_affinityVars

-----------------------------------------------------------------------------
(* What the documentation says and the code does not do.                   *)

\* session_cache.go: Get retrieves the auth if it is still valid.  It may delete
\* a binding that was renewed since it was read.
OnlyExpiredDropped ==
    [][\A p \in Requests : DropExpired(p) => ~Valid(FirstTurn[picker[p].key])]_affinityVars
==============================================================================
