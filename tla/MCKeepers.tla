------------------------------ MODULE MCKeepers ------------------------------
(***************************************************************************)
(* The modules about what is kept of the auths, for one run of TLC: the    *)
(* files of their cooldowns, the models they are registered for and the    *)
(* scheduler's shards; and those about the plugins.  They share no         *)
(* variable and no property speaks of two of them, so it is enough to let  *)
(* one of them, the part, take steps in a behaviour, while the others stay *)
(* as they began.                                                          *)
(***************************************************************************)
EXTENDS CooldownPersistence, ModelRegistry, SchedulerShard, PluginHost, PluginStream,
        TLC

CONSTANT s1

VARIABLE part

keepersVars == <<part, cooldownVars, registryVars, shardVars, pluginVars, pluginStreamVars>>

KeepersInit ==
    /\ part \in {"cooldowns", "stores", "registry", "shard", "plugin", "stream"}
    /\ CooldownInit /\ RegistryInit /\ ShardInit
    /\ PluginInit /\ PluginStreamInit

\* Everything but the variables of one part stays.
Apart(p) ==
    /\ p \notin {"cooldowns", "stores"} => UNCHANGED cooldownVars
    /\ p # "registry" => UNCHANGED registryVars
    /\ p # "shard" => UNCHANGED shardVars
    /\ p # "plugin" => UNCHANGED pluginVars
    /\ p # "stream" => UNCHANGED pluginStreamVars

\* The part "cooldowns" has two auths and one store, "stores" two stores and one auth.
AuthsInUse == {a \in Auths : aside[a] # Gone \/ files[a] # NoRecord \/ told[a] > 0}

KeepersNext ==
    /\ UNCHANGED part
    /\ \/ part = "cooldowns" /\ CooldownNext /\ store' \in {s1, NoStore}
       \/ part = "stores" /\ CooldownNext /\ Cardinality(AuthsInUse') <= 1
       \/ part = "registry" /\ RegistryNext
       \/ part = "shard" /\ ShardNext
       \/ part = "plugin" /\ PluginNext
       \/ part = "stream" /\ PluginStreamNext
    /\ Apart(part)

KeepersSpec == KeepersInit /\ [][KeepersNext]_keepersVars

-----------------------------------------------------------------------------
(* The values.                                                             *)

Everyone(n) == [a \in Auths |-> n]
Known(spent, pool, pinned) == [spent |-> spent, pool |-> pool, pinned |-> pinned]

\* Nothing is known; all are pinned; one has spent its five hours; one is urgent.
RoutingsChecked ==
    {Known({}, Everyone(0), {}), Known({}, Everyone(2), Auths)}
    \cup {Known({a}, Everyone(0), {}) : a \in Auths}
    \cup {Known({}, [Everyone(2) EXCEPT ![a] = Urgent], {}) : a \in Auths}

ClassesChecked ==
    {[priority |-> 0, websocket |-> TRUE], [priority |-> 1, websocket |-> FALSE]}

\* The plugin's callers are the same values as the threads.
Symmetric == UNION {Permutations(s) : s \in {Auths, Threads, Providers}}
==============================================================================
