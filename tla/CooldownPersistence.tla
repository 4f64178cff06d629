------------------------- MODULE CooldownPersistence -------------------------
(***************************************************************************)
(* The cooldowns of the auths on disk: one .cds file per auth.             *)
(*   sdk/cliproxy/auth/cooldown_state.go  FileCooldownStateStore           *)
(*   sdk/cliproxy/auth/conductor.go       persistCooldownStates, Restore-  *)
(*                                        CooldownStates and their callers *)
(*   sdk/cliproxy/service.go              start, and the new configuration *)
(*                                                                         *)
(* Whoever changes a cooldown takes a snapshot of all cooldowns after it   *)
(* unlocked the manager and saves that, file by file, under the store's    *)
(* mutex.  Snapshots may be saved in another order than they were taken.   *)
(* A new configuration brings a new store, with a mutex of its own, for    *)
(* the same directory, and restores the files into a running manager.  The *)
(* process may crash at any step, between two files too.                   *)
(*                                                                         *)
(* Times are ticks left.  The records of one auth (its models and its own) *)
(* are one value.                                                          *)
(***************************************************************************)
EXTENDS Credentials, FiniteSets

CONSTANTS
    Threads,     \* goroutines that change cooldowns and save them
    Stores,      \* FileCooldownStateStore objects
    NoStore,     \* save-cooldown-status is off
    MaxCooldown      \* the longest cooldown

ASSUME CooldownAssumption == MaxCooldown \in Nat \ {0} /\ NoStore \notin Stores

\* The wait of an auth: ticks left, none, or for good (status invalid).
Forever == MaxCooldown + 1
Waits == 0..Forever

Off == -1            \* disabled by the operator
Gone == -2
NoRecord == -1       \* no file, or no record in a snapshot

VARIABLES
    aside,       \* Manager.auths: how long each auth is set aside
    files,       \* the directory
    store,       \* Manager.cooldownStore
    thread,      \* what the goroutines do about the files
    phase,       \* of the process
    told,        \* history: the longest wait a result gave that is not over
    durable      \* history: the auths that were settled at the crash

cooldownVars == <<aside, files, store, thread, phase, told, durable>>

Snapshots == [Auths -> Waits \cup {NoRecord}]
Empty == [a \in Auths |-> NoRecord]

Thread == [pc: {"idle", "snap", "lock", "write", "clean", "load"},
           store: Stores \cup {NoStore}, hand: Snapshots, todo: SUBSET Auths,
           alone: BOOLEAN]   \* history: nobody else saved meanwhile

Resting == [pc |-> "idle", store |-> NoStore, hand |-> Empty, todo |-> {}, alone |-> TRUE]

CooldownTypeOK ==
    /\ aside \in [Auths -> Waits \cup {Off, Gone}]
    /\ files \in Snapshots
    /\ store \in Stores \cup {NoStore}
    /\ thread \in [Threads -> Thread]
    /\ phase \in {"down", "starting", "up"}
    /\ told \in [Auths -> Waits]
    /\ durable \in SUBSET Auths

CooldownInit ==
    /\ aside = [a \in Auths |-> Gone] /\ files = Empty /\ store = NoStore
    /\ thread = [t \in Threads |-> Resting] /\ phase = "down"
    /\ told = [a \in Auths |-> 0] /\ durable = {}

Idle(t) == phase = "up" /\ thread[t].pc = "idle"
Present(a) == aside[a] # Gone
Begin(t, saves) == IF saves THEN [thread EXCEPT ![t].pc = "snap"] ELSE thread

\* A thread is done and keeps nothing.
Done(t) == [thread EXCEPT ![t] = Resting]

-----------------------------------------------------------------------------
(* Changes of cooldowns.                                                   *)

\* MarkResult compares the auth's records from before and after, time stamps
\* included, and saves if they differ.
MarkResult(t, a) ==
    /\ Idle(t) /\ Present(a) /\ aside[a] # Off
    /\ \E v \in Waits :
        /\ aside' = [aside EXCEPT ![a] = v]
        /\ told' = [told EXCEPT ![a] = IF v > @ THEN v ELSE @]
        /\ thread' = Begin(t, store # NoStore /\ (v > 0 \/ aside[a] > 0))
    /\ UNCHANGED <<files, store, phase, durable>>

\* ResetQuota, which saves unless the token store fails.
ResetQuota(t, a) ==
    /\ Idle(t) /\ Present(a) /\ aside[a] # Off
    /\ aside' = [aside EXCEPT ![a] = 0]
    /\ \E persisted \in BOOLEAN :
            thread' = Begin(t, persisted /\ store # NoStore /\ aside[a] > 0)
    /\ UNCHANGED <<files, store, phase, told, durable>>

\* Register and Update: the new record may carry cooldowns read earlier.  They
\* save only if the record is disabled and they cleared it themselves.
Update(t, a) ==
    /\ Idle(t)
    /\ \E v \in 0..told[a] \cup {Off}, cleared \in BOOLEAN :
        /\ aside' = [aside EXCEPT ![a] = v]
        /\ thread' = Begin(t, v = Off /\ cleared)
    /\ UNCHANGED <<files, store, phase, told, durable>>

Remove(t, a) ==
    /\ Idle(t) /\ Present(a)
    /\ aside' = [aside EXCEPT ![a] = Gone]
    /\ thread' = Begin(t, TRUE)
    /\ UNCHANGED <<files, store, phase, told, durable>>

-----------------------------------------------------------------------------
(* persistCooldownStates and FileCooldownStateStore.Save.                  *)

RecordOf(a) == IF aside[a] > 0 THEN aside[a] ELSE NoRecord

\* cooldownStateSnapshot, under the manager's read lock.
Snapshot(t) ==
    /\ phase = "up" /\ thread[t].pc = "snap"
    /\ thread' = IF store = NoStore THEN Done(t)
                 ELSE [thread EXCEPT ![t] = [pc |-> "lock", store |-> store, todo |-> {},
                                             hand |-> [a \in Auths |-> RecordOf(a)],
                                             alone |-> TRUE]]
    /\ UNCHANGED <<aside, files, store, phase, told, durable>>

Saving(t) == thread[t].pc \in {"write", "clean"}
Recorded(t) == {a \in Auths : thread[t].hand[a] # NoRecord}

Others(t) == {u \in Threads \ {t} : Saving(u)}

\* t enters Save; the threads that are in it are not alone any more.
Entered(t) ==
    [u \in Threads |->
        IF u = t THEN [thread[t] EXCEPT !.pc = "write", !.todo = Recorded(t),
                                        !.alone = Others(t) = {}]
        ELSE [thread[u] EXCEPT !.alone = @ /\ ~Saving(u)]]

\* Mutant: the store's mutex is missing.
LockMissing(t) ==
    /\ thread[t].pc = "lock"
    /\ thread' = [thread EXCEPT ![t].pc = "write", ![t].todo = Recorded(t)]
    /\ UNCHANGED <<aside, files, store, phase, told, durable>>

\* Mutant: the directory is emptied before the snapshot is written.
LockAndClean(t) ==
    /\ thread[t].pc = "lock" /\ \A u \in Others(t) : thread[u].store # thread[t].store
    /\ thread' = Entered(t) /\ files' = Empty
    /\ UNCHANGED <<aside, store, phase, told, durable>>

\* The mutex of this store; another one's is another mutex.
Lock(t) ==
    /\ thread[t].pc = "lock" /\ \A u \in Others(t) : thread[u].store # thread[t].store
    /\ thread' = Entered(t)
    /\ UNCHANGED <<aside, files, store, phase, told, durable>>

\* One auth's file is replaced by renaming a temporary file.
WriteFile(t, a) ==
    /\ thread[t].pc = "write" /\ a \in thread[t].todo
    /\ files' = [files EXCEPT ![a] = thread[t].hand[a]]
    /\ thread' = [thread EXCEPT ![t].todo = @ \ {a}]
    /\ UNCHANGED <<aside, store, phase, told, durable>>

\* removeStaleStateFiles lists the directory ...
ListFiles(t) ==
    /\ thread[t].pc = "write" /\ thread[t].todo = {}
    /\ thread' = [thread EXCEPT ![t].pc = "clean",
                                ![t].todo = {a \in Auths : files[a] # NoRecord} \ Recorded(t)]
    /\ UNCHANGED <<aside, files, store, phase, told, durable>>

\* ... and removes what is not in the snapshot.
RemoveStale(t, a) ==
    /\ thread[t].pc = "clean" /\ a \in thread[t].todo
    /\ files' = [files EXCEPT ![a] = NoRecord]
    /\ thread' = [thread EXCEPT ![t].todo = @ \ {a}]
    /\ UNCHANGED <<aside, store, phase, told, durable>>

\* An error ends Save, and is only logged.
SaveFails(t) ==
    /\ Saving(t) /\ thread[t].todo # {}
    /\ thread' = Done(t)
    /\ UNCHANGED <<aside, files, store, phase, told, durable>>

Finish(t) ==
    /\ thread[t].pc = "clean" /\ thread[t].todo = {}
    /\ thread' = Done(t)
    /\ UNCHANGED <<aside, files, store, phase, told, durable>>

-----------------------------------------------------------------------------
(* Start, new configuration, crash.                                        *)

Loading(t) == [thread EXCEPT ![t] = [Resting EXCEPT !.pc = "load", !.todo = Auths]]
Unused(s) == \A t \in Threads : thread[t].store # s

\* Run: the auths are registered before the files are read.
Start(t) ==
    /\ phase = "down" /\ store' \in Stores \cup {NoStore}
    /\ aside' \in [Auths -> {Gone, Off, 0}]
    /\ IF store' = NoStore
       THEN phase' = "up" /\ durable' = {} /\ UNCHANGED thread
       ELSE phase' = "starting" /\ thread' = Loading(t) /\ UNCHANGED durable
    /\ UNCHANGED <<files, told>>

\* applyConfigUpdate: a new store, or none, and the files are restored again.
NewConfig(t) ==
    /\ Idle(t) /\ \A u \in Threads : thread[u].pc # "load"
    /\ store' \in {s \in Stores : s # store /\ Unused(s)} \cup {NoStore}
    /\ thread' = IF store' = NoStore THEN thread ELSE Loading(t)
    /\ UNCHANGED <<aside, files, phase, told, durable>>

\* Load takes no lock.
LoadFile(t, a) ==
    /\ thread[t].pc = "load" /\ a \in thread[t].todo
    /\ thread' = [thread EXCEPT ![t].hand[a] = files[a], ![t].todo = @ \ {a}]
    /\ UNCHANGED <<aside, files, store, phase, told, durable>>

\* One file that cannot be read, and nothing is restored.
LoadFails(t) ==
    /\ thread[t].pc = "load" /\ thread[t].todo # {}
    /\ thread' = Done(t)
    /\ phase' = "up" /\ durable' = {}
    /\ UNCHANGED <<aside, files, store, told>>

\* Mutant: the record of an invalid auth has no time and is taken for expired.
RestoredTimed(a, v) == IF v \in 1..MaxCooldown /\ aside[a] \in Waits THEN v ELSE aside[a]

\* restoreCooldownRecordLocked: expired records are skipped, and those of auths
\* that are gone or disabled; the others replace what the auth has.
Restored(a, v) == IF v > 0 /\ aside[a] \in Waits THEN v ELSE aside[a]

RestoreAll(t) ==
    /\ thread[t].pc = "load" /\ thread[t].todo = {}
    /\ aside' = [a \in Auths |-> Restored(a, thread[t].hand[a])]
    /\ thread' = IF Recorded(t) = {} THEN Done(t)
                 ELSE [thread EXCEPT ![t] = [Resting EXCEPT !.pc = "snap"]]
    /\ phase' = "up" /\ durable' = {}
    /\ UNCHANGED <<files, store, told>>

\* An auth is settled if it waits, its file says so, and so does every snapshot
\* that has yet to be saved.
Settled(a) ==
    /\ aside[a] > 0 /\ files[a] # NoRecord
    /\ \A t \in Threads : thread[t].pc \in {"lock", "write", "clean"} => a \in Recorded(t)

Crash ==
    /\ phase = "up" /\ phase' = "down"
    /\ aside' = [a \in Auths |-> Gone] /\ store' = NoStore
    /\ thread' = [t \in Threads |-> Resting]
    /\ durable' = {a \in Auths : Settled(a)}
    /\ UNCHANGED <<files, told>>

-----------------------------------------------------------------------------
(* Time.                                                                   *)

Lapse(v) == IF v \in 1..MaxCooldown THEN v - 1 ELSE v

\* Mutant: files keep how long an auth waits rather than until when.
AgedNever(snap) == snap

Aged(snap) == [a \in Auths |-> Lapse(snap[a])]

CooldownTick ==
    /\ aside' = [a \in Auths |-> Lapse(aside[a])]
    /\ told' = [a \in Auths |-> Lapse(told[a])]
    /\ files' = Aged(files)
    /\ thread' = [t \in Threads |-> [thread[t] EXCEPT !.hand = Aged(@)]]
    /\ UNCHANGED <<store, phase, durable>>

CooldownNext ==
    \/ \E t \in Threads :
        \/ \E a \in Auths : \/ MarkResult(t, a) \/ ResetQuota(t, a) \/ Update(t, a) \/ Remove(t, a)
                            \/ WriteFile(t, a) \/ RemoveStale(t, a) \/ LoadFile(t, a)
        \/ Snapshot(t) \/ Lock(t) \/ ListFiles(t) \/ SaveFails(t) \/ Finish(t)
        \/ Start(t) \/ NewConfig(t) \/ LoadFails(t) \/ RestoreAll(t)
    \/ Crash \/ CooldownTick

CooldownSpec == CooldownInit /\ [][CooldownNext]_cooldownVars

-----------------------------------------------------------------------------
(* Properties.                                                             *)

\* No sequence of saves, crashes, restarts and new configurations makes an auth
\* wait longer than a result once told it to.
NoCooldownInvented ==
    \A a \in Auths :
        /\ aside[a] <= told[a] /\ files[a] <= told[a]
        /\ \A t \in Threads : thread[t].hand[a] <= told[a]

\* A cooldown that is settled stays on disk, whoever else saves, fails to save
\* or crashes half way, until the auth itself is changed or its wait is over.
SettledIsKept == \A a \in Auths : Settled(a) /\ aside'[a] > 0 => Settled(a)'

\* One that was settled when the process crashed is in force again when the files
\* have been restored.
DurableIsRestored ==
    phase = "starting" /\ phase' = "up" =>
        \/ \E t \in Threads : LoadFails(t)
        \/ \A a \in durable : aside[a] = 0 /\ files[a] > 0 => aside'[a] = files[a]

\* When a save is done, and none of another configuration's store was at it
\* meanwhile, the directory is the snapshot that was saved.
SaveIsExact ==
    \A t \in Threads : Finish(t) /\ thread[t].alone => files' = thread[t].hand

\* The directory of cooldowns is worth what the saves of several goroutines and
\* stores, and a crash, leave in it.
CooldownsAreKept == [][SettledIsKept /\ DurableIsRestored /\ SaveIsExact]_cooldownVars

-----------------------------------------------------------------------------
(* The inductive invariant.                                                *)

\* What a save that is alone has done so far is in the directory.
SavedSoFar ==
    \A t \in Threads : Saving(t) /\ thread[t].alone =>
        /\ Others(t) = {}
        /\ \A a \in Recorded(t) :
              thread[t].pc = "clean" \/ a \notin thread[t].todo => files[a] = thread[t].hand[a]
        /\ \A a \in Auths \ Recorded(t) :
              thread[t].pc = "clean" /\ a \notin thread[t].todo => files[a] = NoRecord

\* Only files that are not in the snapshot are removed.
CleansStale ==
    \A t \in Threads : thread[t].pc = "clean" => thread[t].todo \cap Recorded(t) = {}

\* Before the process is up nobody saves, so what was loaded is what is there.
StartIsQuiet ==
    phase # "up" => \A t \in Threads :
        /\ thread[t].pc \in {"idle", "load"}
        /\ \A a \in Auths \ thread[t].todo :
              thread[t].pc = "load" => thread[t].hand[a] = files[a]

CooldownInv ==
    CooldownTypeOK /\ NoCooldownInvented /\ SavedSoFar /\ CleansStale /\ StartIsQuiet
==============================================================================
