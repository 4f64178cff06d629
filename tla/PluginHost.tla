----------------------------- MODULE PluginHost -----------------------------
(***************************************************************************)
(* The life of one plugin's dynamic libraries, and the calls into them.    *)
(*   internal/pluginhost/host.go          Host                             *)
(*   internal/pluginhost/client_guard.go  guardedPluginClient              *)
(*   internal/pluginhost/adapters.go      executorAdapter, fusePlugin      *)
(*                                                                         *)
(* ApplyConfig, UnloadPlugin and ShutdownAll hold applyMu from end to end, *)
(* yet take the host's own mutex only for single reads and writes.  A call *)
(* reads the snapshot, the fuse and the active identity one after the      *)
(* other and then asks the library's guard, so a reload or an unload may   *)
(* come between any two of them.  A plugin is named by its id; its         *)
(* versions by the paths of their files.  The other plugins are left out.  *)
(***************************************************************************)
EXTENDS Naturals, Sequences, FiniteSets

CONSTANTS
    Paths,      \* files of the plugin's versions
    NoPath,
    Callers,    \* requests
    MaxLoads    \* bound: libraries opened

ASSUME PluginAssumption ==
    NoPath \notin Paths /\ MaxLoads \in Nat \ {0} /\ IsFiniteSet(Callers)

VARIABLES
    library,    \* all that were ever opened, with their guards
    loaded,     \* Host.loaded: a library, or 0
    retired,    \* Host.retired
    fused,      \* Host.fused
    active,     \* activePluginPaths, with the versions that go with it
    snapshot,   \* the plugin's record in Host.snapshot, by its library, or 0
    lifecycle,  \* the holder of applyMu
    caller      \* the requests

pluginVars == <<library, loaded, retired, fused, active, snapshot, lifecycle, caller>>

Opened == 1..Len(library)
Library == [path: Paths, calls: 0..Cardinality(Callers), closed: BOOLEAN, shut: BOOLEAN]
LifecycleRest == [at |-> "idle", path |-> NoPath, lib |-> 0, targets |-> <<>>]
NoCall == [at |-> "idle", lib |-> 0]

PluginTypeOK ==
    /\ library \in Seq(Library) /\ Len(library) <= MaxLoads
    /\ {loaded, snapshot} \subseteq Opened \cup {0}
    /\ retired \in Seq(Opened) /\ fused \in BOOLEAN /\ active \in Paths \cup {NoPath}
    /\ lifecycle \in
          [at: {"idle", "load", "register", "publish", "identify", "close", "drain"},
           path: Paths \cup {NoPath}, lib: Opened \cup {0}, targets: Seq(Opened)]
    /\ caller \in [Callers -> [at: {"idle", "checkFused", "checkCurrent", "call", "in", "fuse"},
                               lib: Opened \cup {0}]]

PluginInit ==
    /\ library = <<>> /\ loaded = 0 /\ retired = <<>> /\ fused = FALSE
    /\ active = NoPath /\ snapshot = 0
    /\ lifecycle = LifecycleRest /\ caller = [c \in Callers |-> NoCall]

PathOf(i) == IF i = 0 THEN NoPath ELSE library[i].path

-----------------------------------------------------------------------------
(* ApplyConfig.                                                            *)

\* Plugins or this one are switched off, or it has no file: it leaves the
\* snapshot, and its libraries stay.
Withdraw ==
    /\ lifecycle.at = "idle"
    /\ active' = NoPath /\ snapshot' = 0
    /\ UNCHANGED <<library, loaded, retired, fused, lifecycle, caller>>

\* The file p is wanted.  A fused plugin is left out until its file changes.
BeginApply(p) ==
    /\ lifecycle.at = "idle"
    /\ LET same == PathOf(loaded) = p
           skip == fused /\ (same \/ loaded = 0)
       IN  lifecycle' = [LifecycleRest EXCEPT
               !.path = p,
               !.at = IF skip THEN "publish" ELSE IF same THEN "register" ELSE "load",
               !.lib = IF same /\ ~skip THEN loaded ELSE 0]
    /\ UNCHANGED <<library, loaded, retired, fused, active, snapshot, caller>>

\* Opening takes a while, without the host's mutex; then the old library is retired.
Load ==
    LET new == Len(library) + 1
    IN  /\ lifecycle.at = "load" /\ new <= MaxLoads
        /\ library' = Append(library, [path |-> lifecycle.path, calls |-> 0,
                                       closed |-> FALSE, shut |-> FALSE])
        /\ loaded' = new
        /\ retired' = IF loaded = 0 THEN retired ELSE Append(retired, loaded)
        /\ fused' = (fused /\ loaded = 0)
        /\ lifecycle' = [lifecycle EXCEPT !.at = "register", !.lib = new]
        /\ UNCHANGED <<active, snapshot, caller>>

\* The old library stays loaded, without a record.
OpenFails ==
    /\ lifecycle.at = "load"
    /\ lifecycle' = [lifecycle EXCEPT !.at = "publish"]
    /\ UNCHANGED <<library, loaded, retired, fused, active, snapshot, caller>>

\* callRegister: the plugin answers, declines or panics.
Register ==
    /\ lifecycle.at = "register"
    /\ \E answer \in {"valid", "invalid", "panic"} :
           /\ lifecycle' = [lifecycle EXCEPT !.at = "publish",
                                             !.lib = IF answer = "valid" THEN @ ELSE 0]
           /\ fused' = (fused \/ answer = "panic")
    /\ UNCHANGED <<library, loaded, retired, active, snapshot, caller>>

Publish ==
    /\ lifecycle.at = "publish"
    /\ active' = PathOf(lifecycle.lib) /\ snapshot' = lifecycle.lib
    /\ lifecycle' = IF lifecycle.lib = 0 THEN LifecycleRest ELSE [lifecycle EXCEPT !.at = "identify"]
    /\ UNCHANGED <<library, loaded, retired, fused, caller>>

\* refreshThinkingProviders asks the plugin for its name, unless it is fused.
Identify ==
    /\ lifecycle.at = "identify"
    /\ lifecycle' = LifecycleRest
    /\ fused' \in {fused, TRUE}
    /\ UNCHANGED <<library, loaded, retired, active, snapshot, caller>>

-----------------------------------------------------------------------------
(* UnloadPlugin and ShutdownAll.                                           *)

\* Mutant: the retired versions are forgotten.
OnlyLoaded == IF loaded = 0 THEN <<>> ELSE <<loaded>>

Targets == (IF loaded = 0 THEN <<>> ELSE <<loaded>>) \o retired

\* Nothing refers to the libraries any more; only then are they shut down.
Forget ==
    /\ lifecycle.at = "idle" /\ Targets # <<>>
    /\ loaded' = 0 /\ retired' = <<>> /\ active' = NoPath /\ snapshot' = 0
    /\ lifecycle' = [LifecycleRest EXCEPT !.at = "close", !.targets = Targets]
    /\ UNCHANGED <<library, caller>>

UnloadPlugin == Forget /\ fused' = FALSE
ShutdownAll == Forget /\ UNCHANGED fused

\* The guard lets nobody in from now on.
CloseGuard ==
    /\ lifecycle.at = "close"
    /\ library' = [library EXCEPT ![Head(lifecycle.targets)].closed = TRUE]
    /\ lifecycle' = [lifecycle EXCEPT !.at = "drain"]
    /\ UNCHANGED <<loaded, retired, fused, active, snapshot, caller>>

\* Mutant: nobody waits for the calls.
ShutLibraryAtOnce ==
    LET i == Head(lifecycle.targets) rest == Tail(lifecycle.targets)
    IN  /\ lifecycle.at = "drain"
        /\ library' = [library EXCEPT ![i].shut = TRUE]
        /\ lifecycle' = IF rest = <<>> THEN LifecycleRest
                        ELSE [lifecycle EXCEPT !.at = "close", !.targets = rest]
        /\ UNCHANGED <<loaded, retired, fused, active, snapshot, caller>>

\* The last call has left.
ShutLibrary ==
    LET i == Head(lifecycle.targets) rest == Tail(lifecycle.targets)
    IN  /\ lifecycle.at = "drain" /\ library[i].calls = 0
        /\ library' = [library EXCEPT ![i].shut = TRUE]
        /\ lifecycle' = IF rest = <<>> THEN LifecycleRest
                        ELSE [lifecycle EXCEPT !.at = "close", !.targets = rest]
        /\ UNCHANGED <<loaded, retired, fused, active, snapshot, caller>>

-----------------------------------------------------------------------------
(* Calls: the adapters.                                                    *)

Goes(c, at) == caller' = [caller EXCEPT ![c].at = at]
GivesUp(c) == caller' = [caller EXCEPT ![c] = NoCall]

TakePluginRecord(c) ==
    /\ caller[c].at = "idle" /\ snapshot # 0
    /\ caller' = [caller EXCEPT ![c] = [at |-> "checkFused", lib |-> snapshot]]
    /\ UNCHANGED <<library, loaded, retired, fused, active, snapshot, lifecycle>>

CheckFused(c) ==
    /\ caller[c].at = "checkFused"
    /\ IF fused THEN GivesUp(c) ELSE Goes(c, "checkCurrent")
    /\ UNCHANGED <<library, loaded, retired, fused, active, snapshot, lifecycle>>

CheckCurrent(c) ==
    /\ caller[c].at = "checkCurrent"
    /\ IF active = PathOf(caller[c].lib) THEN Goes(c, "call") ELSE GivesUp(c)
    /\ UNCHANGED <<library, loaded, retired, fused, active, snapshot, lifecycle>>

Acquire(c) ==
    LET i == caller[c].lib
    IN  /\ caller[c].at = "call"
        /\ IF library[i].closed THEN GivesUp(c) /\ UNCHANGED library
           ELSE Goes(c, "in") /\ library' = [library EXCEPT ![i].calls = @ + 1]
        /\ UNCHANGED <<loaded, retired, fused, active, snapshot, lifecycle>>

\* The call returns or panics; the fuse is only blown after the guard was left.
Leave(c) ==
    /\ caller[c].at = "in"
    /\ library' = [library EXCEPT ![caller[c].lib].calls = @ - 1]
    /\ GivesUp(c) \/ Goes(c, "fuse")
    /\ UNCHANGED <<loaded, retired, fused, active, snapshot, lifecycle>>

FusePlugin(c) ==
    /\ caller[c].at = "fuse" /\ GivesUp(c)
    /\ fused' = TRUE
    /\ UNCHANGED <<library, loaded, retired, active, snapshot, lifecycle>>

LifecycleStep ==
    \/ Withdraw \/ (\E p \in Paths : BeginApply(p)) \/ Load \/ OpenFails \/ Register
    \/ Publish \/ Identify \/ UnloadPlugin \/ ShutdownAll \/ CloseGuard \/ ShutLibrary

PluginNext ==
    \/ LifecycleStep
    \/ \E c \in Callers : \/ TakePluginRecord(c) \/ CheckFused(c) \/ CheckCurrent(c)
                          \/ Acquire(c) \/ Leave(c) \/ FusePlugin(c)

PluginSpec == PluginInit /\ [][PluginNext]_pluginVars

-----------------------------------------------------------------------------
(* Properties.                                                             *)

Held(s) == {s[i] : i \in DOMAIN s}

\* No call runs in a library that was shut down, whatever was read before the
\* reload or the unload.
NoCallInShut == \A c \in Callers : caller[c].at = "in" => ~library[caller[c].lib].shut

\* Every open library is known to the host or about to be shut down, so none leaks.
NoneLeaks ==
    \A i \in Opened :
        library[i].shut \/ i = loaded \/ i \in Held(retired) \cup Held(lifecycle.targets)

\* What requests are offered, and what ApplyConfig talks to, is never closed.
OfferedIsOpen ==
    /\ snapshot # 0 => ~library[snapshot].closed /\ active = PathOf(snapshot)
    /\ lifecycle.lib # 0 => ~library[lifecycle.lib].closed

\* Once the plugin is unloaded and applyMu is free, no call of it runs.
UnloadedIsQuiet ==
    lifecycle.at = "idle" /\ Targets = <<>> => \A c \in Callers : caller[c].at # "in"

\* Plugin calls are safe: none runs in a library that was shut down, no library
\* leaks, what is offered to requests is open, and an unloaded plugin is quiet.
PluginCallIsSafe == NoCallInShut /\ NoneLeaks /\ OfferedIsOpen /\ UnloadedIsQuiet

-----------------------------------------------------------------------------
(* The inductive invariant.                                                *)

\* The guards count who is in, and a library that is shut has let nobody in since.
Inside(i) == {c \in Callers : caller[c].at = "in" /\ caller[c].lib = i}

GuardsCount ==
    /\ \A i \in Opened :
        /\ library[i].calls = Cardinality(Inside(i))
        /\ library[i].shut => library[i].closed /\ library[i].calls = 0
    /\ \A c \in Callers : caller[c].at # "idle" => caller[c].lib # 0

\* What is opened is a file, and while libraries are closed nothing is loaded,
\* offered or registered.
LifecycleInv ==
    /\ lifecycle.at = "load" => lifecycle.path # NoPath
    /\ loaded # 0 => ~library[loaded].closed
    /\ IF lifecycle.at \in {"close", "drain"}
       THEN /\ lifecycle.targets # <<>> /\ loaded = 0 /\ snapshot = 0 /\ lifecycle.lib = 0
            /\ lifecycle.at = "drain" => library[Head(lifecycle.targets)].closed
       ELSE lifecycle.targets = <<>>

PluginInv == PluginTypeOK /\ GuardsCount /\ NoneLeaks /\ OfferedIsOpen /\ LifecycleInv
==============================================================================
