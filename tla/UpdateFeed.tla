------------------------------ MODULE UpdateFeed ------------------------------
(***************************************************************************)
(* What the watcher and the service together promise about the updates of  *)
(* auths, without saying how: one line, instead of pending updates, a      *)
(* batch, a channel and what the service has drained.  AuthUpdates         *)
(* implements it.                                                          *)
(*   - What is said of an auth comes last of what is on its way of that    *)
(*     auth, or takes the place of what came last; nothing else moves.     *)
(*   - On its way an update may be left out only for the one that follows  *)
(*     it of the same auth, which takes its place.                         *)
(*   - The manager hears what is on its way from the front, one after the  *)
(*     other, and nothing else.                                            *)
(* So of each auth the manager hears what was said in that order, perhaps  *)
(* not all of it, and the last of it always.                               *)
(***************************************************************************)
EXTENDS Naturals, Sequences

CONSTANTS
    Ids,         \* the auths
    Told         \* what may be said of an auth

VARIABLES
    said,        \* the last that was said of each auth
    line,        \* what is on its way, the oldest first
    manager      \* what the manager has

feedVars == <<said, line, manager>>

FeedInit == said \in [Ids -> Told] /\ manager = said /\ line = <<>>

\* No later update of the auth is on its way.
IsLast(i) == \A j \in DOMAIN line : j > i => line[j].id # line[i].id

\* Something is said of several auths at once, of some in the place of what came
\* last, of the others at the end, in any order.
Say ==
    \E among \in SUBSET Ids : \E replaced \in SUBSET among :
        /\ said' \in [Ids -> Told] /\ \A a \in Ids \ among : said'[a] = said[a]
        /\ replaced \subseteq {line[i].id : i \in DOMAIN line}
        /\ LET new == {i \in DOMAIN line' : i > Len(line)} IN
            /\ DOMAIN line' = DOMAIN line \cup new
            /\ \A i \in DOMAIN line :
                line'[i] = IF line[i].id \in replaced /\ IsLast(i)
                           THEN [id |-> line[i].id, content |-> said'[line[i].id]] ELSE line[i]
            /\ {line'[i] : i \in new} =
                {[id |-> a, content |-> said'[a]] : a \in among \ replaced}
            /\ \A i, j \in new : line'[i].id = line'[j].id => i = j
        /\ UNCHANGED manager

\* The j-th of us in the place of the i-th.
Moved(us, i, j) ==
    [k \in 1..(Len(us) - 1) |-> IF k = i THEN us[j] ELSE IF k < j THEN us[k] ELSE us[k + 1]]

\* j is of the same auth as i, and the next such one.
Follows(us, i, j) ==
    /\ i < j /\ us[i].id = us[j].id
    /\ \A k \in DOMAIN us : i < k /\ k < j => us[k].id # us[i].id

Merge ==
    /\ \E i, j \in DOMAIN line : Follows(line, i, j) /\ line' = Moved(line, i, j)
    /\ UNCHANGED <<said, manager>>

Hear ==
    /\ line # <<>> /\ line' = Tail(line)
    /\ manager' = [manager EXCEPT ![Head(line).id] = Head(line).content]
    /\ UNCHANGED said

FeedNext == Say \/ Merge \/ Hear

FeedSpec == FeedInit /\ [][FeedNext]_feedVars
==============================================================================
