---------------------------- MODULE RequestCounts ----------------------------
(***************************************************************************)
(* The cumulative request counters of an account and their file.           *)
(*   sdk/cliproxy/auth/conductor.go          MarkResult, runRequestCount-  *)
(*                                           Persistence, StopAutoRefresh  *)
(*   sdk/cliproxy/auth/request_count_state.go  FileRequestCountStateStore  *)
(*                                                                         *)
(* A result raises the counter and leaves a token in a channel of one      *)
(* place.  A background goroutine takes the token, sleeps a second and     *)
(* saves all counters; stopping the service saves them once more, while    *)
(* requests are still being finished and the goroutine goes on.  The file  *)
(* is replaced by a rename, so one save is one step.                       *)
(***************************************************************************)
EXTENDS Integers

CONSTANT MaxCount      \* bound: results counted in all runs of the process

ASSUME CountsAssumption == MaxCount \in Nat

VARIABLES
    count,       \* Manager.requestCounts, in memory
    saved,       \* the file
    dirty,       \* requestCountDirty holds a token
    bg,          \* the background goroutine: idle, sleeping, or saving hand
    flush,       \* StopAutoRefresh: not called, saving hand, done
    run,         \* the process: down, up, stopping
    stored,      \* Manager.requestCountStore is there
    missed       \* history: the background goroutine failed to save

countVars == <<count, saved, dirty, bg, flush, run, stored, missed>>

CountsTypeOK ==
    /\ count \in Nat /\ saved \in Nat /\ dirty \in BOOLEAN
    /\ bg \in [pc: {"idle", "sleep", "save"}, hand: Nat]
    /\ flush \in [pc: {"none", "save", "done"}, hand: Nat]
    /\ run \in {"down", "up", "stopping"}
    /\ stored \in BOOLEAN /\ missed \in BOOLEAN

CountsInit ==
    /\ count = 0 /\ saved = 0 /\ dirty = FALSE
    /\ bg = [pc |-> "idle", hand |-> 0] /\ flush = [pc |-> "none", hand |-> 0]
    /\ run = "down" /\ stored = FALSE /\ missed = FALSE

\* MarkResult.
CountResult ==
    /\ run # "down" /\ count < MaxCount
    /\ count' = count + 1 /\ dirty' = TRUE
    /\ UNCHANGED <<saved, bg, flush, run, stored, missed>>

\* Mutant: the counters are read before the second is over.
WakeAndRead ==
    /\ run # "down" /\ stored /\ dirty /\ bg.pc = "idle"
    /\ dirty' = FALSE /\ bg' = [pc |-> "save", hand |-> 0]
    /\ UNCHANGED <<count, saved, flush, run, stored, missed>>

\* Without a store no goroutine was started.
Wake ==
    /\ run # "down" /\ stored /\ dirty /\ bg.pc = "idle"
    /\ dirty' = FALSE /\ bg' = [bg EXCEPT !.pc = "sleep"]
    /\ UNCHANGED <<count, saved, flush, run, stored, missed>>

\* persistRequestCounts copies the counters under the manager's lock ...
Read ==
    /\ bg.pc = "sleep"
    /\ bg' = [pc |-> "save", hand |-> count]
    /\ UNCHANGED <<count, saved, dirty, flush, run, stored, missed>>

\* ... and saves them under the store's.  An error is logged and not repeated.
Save ==
    /\ bg.pc = "save"
    /\ bg' = [pc |-> "idle", hand |-> 0]
    /\ \/ saved' = bg.hand /\ UNCHANGED missed
       \/ missed' = TRUE /\ UNCHANGED saved
    /\ UNCHANGED <<count, dirty, flush, run, stored>>

Stop ==
    /\ run = "up" /\ run' = "stopping"
    /\ flush' = IF stored THEN [pc |-> "save", hand |-> count] ELSE [pc |-> "done", hand |-> 0]
    /\ UNCHANGED <<count, saved, dirty, bg, stored, missed>>

Flush ==
    /\ flush.pc = "save"
    /\ flush' = [pc |-> "done", hand |-> 0]
    /\ saved' \in {saved, flush.hand}
    /\ UNCHANGED <<count, dirty, bg, run, stored, missed>>

\* The process ends, at any moment or after the flush.
Exit ==
    /\ run # "down" /\ run' = "down"
    /\ count' = 0 /\ dirty' = FALSE /\ stored' = FALSE /\ missed' = FALSE
    /\ bg' = [pc |-> "idle", hand |-> 0] /\ flush' = [pc |-> "none", hand |-> 0]
    /\ UNCHANGED saved

\* Mutant: a file that cannot be read counts as an empty one.
StartAnyway ==
    /\ run = "down" /\ run' = "up"
    /\ stored' = TRUE /\ count' \in {0, saved}
    /\ UNCHANGED <<saved, dirty, bg, flush, missed>>

\* SetRequestCountStateStore: without its file the store is not used at all.
Start ==
    /\ run = "down" /\ run' = "up"
    /\ \/ stored' = TRUE /\ count' = saved
       \/ stored' = FALSE /\ count' = 0
    /\ UNCHANGED <<saved, dirty, bg, flush, missed>>

CountsNext ==
    \/ CountResult \/ Wake \/ Read \/ Save \/ Stop \/ Flush \/ Exit \/ Start

CountsSpec == CountsInit /\ [][CountsNext]_countVars /\ WF_countVars(Wake \/ Read \/ Save)

-----------------------------------------------------------------------------
(* Properties.                                                             *)

\* No restart starts from nothing, and while the process runs no save overwrites a
\* later one: the file goes back only once the flush of StopAutoRefresh and the
\* goroutine save side by side.
FileAdvances == [][saved' < saved => run = "stopping"]_countVars

\* While the process runs and saves succeed, every result reaches the file: the file
\* catches up with the counters again and again, since the results come to an end here.
CountsReachFile == []<>(run = "up" /\ stored => saved >= count \/ missed)

\* The counters reach their file, and it does not go back.
ResultsAreSaved == FileAdvances /\ CountsReachFile

-----------------------------------------------------------------------------
(* What the documentation says and the code does not do.                   *)

\* request_count_state.go: the file holds cumulative counters.
CountersCumulate == [][saved' >= saved]_countVars
==============================================================================
