------------------------------ MODULE ReadyView ------------------------------
(***************************************************************************)
(* One view of the ready auths of a scheduler shard, and the two orders in *)
(* which it hands them out (sdk/cliproxy/auth/scheduler.go, readyView):    *)
(* the flat rotation, which keeps an index, and the smooth weighted        *)
(* rotation of the auths whose quota is about to be reset, which keeps a   *)
(* credit for each.  Index and credits outlive the view: whenever an auth  *)
(* of the shard becomes ready or stops being so, all views are built anew  *)
(* and take them over.                                                     *)
(***************************************************************************)
EXTENDS Integers, FiniteSets, FiniteSetsExt

CONSTANTS
    Ids,          \* the auths: numbers, in the order of their ids
    MaxWeight

ASSUME ViewAssumption == Ids \subseteq Nat /\ IsFiniteSet(Ids) /\ MaxWeight \in Nat \ {0}

VARIABLES
    flat,         \* the auths of the view
    cursor,       \* of the flat rotation
    credit,       \* weightedCurrent; 0 stands for no entry, too
    turn,         \* the auth the smooth rotation picked last, or None
    passed        \* history: picks that passed over an auth they could have taken

viewVars == <<flat, cursor, credit, turn, passed>>

None == -1
Weights == 1..MaxWeight

ViewTypeOK ==
    /\ flat \subseteq Ids
    /\ cursor \in 0..Cardinality(Ids)
    /\ credit \in [Ids -> Int]
    /\ turn \in Ids \cup {None}
    /\ passed \in [Ids -> Nat]

ViewInit ==
    /\ flat = {} /\ cursor = 0 /\ turn = None
    /\ credit = [i \in Ids |-> 0] /\ passed = [i \in Ids |-> 0]

Size == Cardinality(flat)

\* The index of an auth in the view, which is sorted by id.
Index(i) == Cardinality({j \in flat : j < i})

\* The places from the cursor to an auth.
Distance(i) == (Index(i) + Size - (cursor % Size)) % Size

\* Mutant: every rebuild starts the credits again.
RebuildForgets(ready) ==
    /\ flat' = ready
    /\ cursor' = IF ready = {} THEN 0 ELSE cursor % Cardinality(ready)
    /\ credit' = [i \in Ids |-> 0]
    /\ passed' = [i \in Ids |-> 0]
    /\ UNCHANGED turn

\* rebuildIndexesLocked.  The view of a priority disappears with its last auth,
\* that of all priorities stays.
Rebuild(ready) ==
    /\ flat' = ready
    /\ cursor' = IF ready = {} THEN 0 ELSE cursor % Cardinality(ready)
    /\ credit' \in IF ready = {} THEN {credit, [i \in Ids |-> 0]} ELSE {credit}
    /\ passed' = [i \in Ids |-> 0]
    /\ UNCHANGED turn

Passing(eligible, picked) ==
    [i \in Ids |-> IF i \in eligible \ {picked} THEN passed[i] + 1 ELSE 0]

\* Mutant: the cursor counts the eligible auths only.
RotateAmongEligible(eligible) ==
    \E i \in eligible :
        /\ \A j \in eligible : Distance(i) <= Distance(j)
        /\ cursor' = Cardinality({j \in eligible : j < i}) + 1
        /\ passed' = Passing(eligible, i)
        /\ UNCHANGED <<flat, credit, turn>>

\* pickRoundRobin; the predicate leaves out, say, who was tried already.
Rotate(eligible) ==
    \E i \in eligible :
        /\ \A j \in eligible : Distance(i) <= Distance(j)
        /\ cursor' = Index(i) + 1
        /\ passed' = Passing(eligible, i)
        /\ UNCHANGED <<flat, credit, turn>>

Total(weight) == MapThenSumSet(LAMBDA i : weight[i], flat)
Earned(weight) == [i \in Ids |-> IF i \in flat THEN credit[i] + weight[i] ELSE 0]

\* The first of the largest.
Largest(earned) ==
    CHOOSE i \in flat : \A j \in flat \ {i} :
        earned[j] < earned[i] \/ (earned[j] = earned[i] /\ i < j)

\* pickSmoothWeightedRoundRobin.  The weights are computed for each pick; who is
\* not eligible loses its credit, so flat stands for the eligible ones here.
Smooth(weight) ==
    LET earned == Earned(weight)
        picked == Largest(earned)
    IN  /\ credit' = [earned EXCEPT ![picked] = @ - Total(weight)]
        /\ turn' = picked
        /\ UNCHANGED <<flat, cursor, passed>>

PickSmooth == flat # {} /\ \E weight \in [flat -> Weights] : Smooth(weight)

ViewNext ==
    \/ \E ready \in SUBSET Ids : ready # flat /\ Rebuild(ready)
    \/ \E eligible \in SUBSET flat \ {{}} : Rotate(eligible)
    \/ PickSmooth

ViewSpec == ViewInit /\ [][ViewNext]_viewVars /\ WF_viewVars(PickSmooth)

-----------------------------------------------------------------------------
(* Properties.                                                             *)

\* While the view is not rebuilt, nobody is passed over more often than there are
\* others, whomever the requests leave out.
FewPass == \A i \in flat : passed[i] < Size

\* Neither the cursor of round robin nor the weights of the smooth rotation starve
\* an entry: few pass before it, and, "while still guaranteeing that every eligible
\* entry is selected", whoever stays is picked again and again, although others come
\* and go and all weights change all the time.
RotationIsFair ==
    /\ [][FewPass']_viewVars
    /\ \A i \in Ids : <>[](i \in flat) => []<>(turn = i)
==============================================================================
