----------------------------- MODULE PluginProofs -----------------------------
(***************************************************************************)
(* Proofs about PluginHost and PluginStream, for any files, callers,       *)
(* channel and number of chunks.                                           *)
(***************************************************************************)
EXTENDS PluginHost, PluginStream, FiniteSetTheorems, SequenceTheorems, TLAPS

-----------------------------------------------------------------------------
(* PluginHost: types.                                                      *)

Lifecycles(n) ==
    [at: {"idle", "load", "register", "publish", "identify", "close", "drain"},
     path: Paths \cup {NoPath}, lib: 1..n \cup {0}, targets: Seq(1..n)]

CallStates(n) ==
    [at: {"idle", "checkFused", "checkCurrent", "call", "in", "fuse"}, lib: 1..n \cup {0}]

LEMMA HostTypes ==
    ASSUME PluginTypeOK
    PROVE  /\ library \in Seq(Library) /\ Len(library) \in Nat /\ Opened = 1..Len(library)
           /\ \A i \in Opened : library[i] \in Library
           /\ loaded \in Opened \cup {0} /\ snapshot \in Opened \cup {0}
           /\ retired \in Seq(Opened) /\ lifecycle \in Lifecycles(Len(library))
           /\ caller \in [Callers -> CallStates(Len(library))]
BY DEF PluginTypeOK, Opened, Lifecycles, CallStates

\* What is known of sequences stays known when more libraries are open.
LEMMA MoreLibraries ==
    ASSUME NEW n \in Nat
    PROVE  /\ Seq(1..n) \subseteq Seq(1..(n + 1)) /\ Lifecycles(n) \subseteq Lifecycles(n + 1)
           /\ CallStates(n) \subseteq CallStates(n + 1)
<1>1. 1..n \subseteq 1..(n + 1)
  OBVIOUS
<1>2. Seq(1..n) \subseteq Seq(1..(n + 1))
  BY <1>1
<1>. QED
  BY <1>1, <1>2 DEF Lifecycles, CallStates

LEMMA HeldFacts ==
    ASSUME NEW S, NEW s \in Seq(S)
    PROVE  /\ Held(s) \subseteq S /\ (s = <<>> => Held(s) = {})
           /\ \A x : Held(Append(s, x)) = Held(s) \cup {x}
           /\ \A x \in S : Held(<<x>> \o s) = {x} \cup Held(s)
           /\ s # <<>> => Held(s) = {Head(s)} \cup Held(Tail(s))
<1>0. Len(s) \in Nat /\ DOMAIN s = 1..Len(s)
  OBVIOUS
<1>1. Held(s) \subseteq S /\ (s = <<>> => Held(s) = {})
  BY DEF Held
<1>2. ASSUME NEW x PROVE Held(Append(s, x)) = Held(s) \cup {x}
  <2>1. DOMAIN Append(s, x) = 1..(Len(s) + 1) /\ Append(s, x)[Len(s) + 1] = x
        /\ \A i \in 1..Len(s) : Append(s, x)[i] = s[i]
    OBVIOUS
  <2>2. Held(Append(s, x)) \subseteq Held(s) \cup {x}
    BY <1>0, <2>1 DEF Held
  <2>3. Held(s) \cup {x} \subseteq Held(Append(s, x))
    BY <1>0, <2>1 DEF Held
  <2>. QED
    BY <2>2, <2>3
<1>3. ASSUME NEW x \in S PROVE Held(<<x>> \o s) = {x} \cup Held(s)
  <2>1. DOMAIN (<<x>> \o s) = 1..(Len(s) + 1) /\ (<<x>> \o s)[1] = x
        /\ \A i \in 2..(Len(s) + 1) : (<<x>> \o s)[i] = s[i - 1]
    BY <1>0
  <2>2. Held(<<x>> \o s) \subseteq {x} \cup Held(s)
    <3>1. ASSUME NEW i \in 2..(Len(s) + 1) PROVE s[i - 1] \in Held(s)
      BY <1>0 DEF Held
    <3>. QED
      BY <1>0, <2>1, <3>1 DEF Held
  <2>3. Held(s) \subseteq Held(<<x>> \o s)
    <3>1. ASSUME NEW i \in 1..Len(s) PROVE s[i] \in Held(<<x>> \o s)
      <4>1. i + 1 \in 2..(Len(s) + 1) /\ i + 1 \in 1..(Len(s) + 1) /\ (i + 1) - 1 = i
        BY <1>0
      <4>2. s[i] = (<<x>> \o s)[i + 1]
        BY <2>1, <4>1
      <4>. QED
        BY <2>1, <4>1, <4>2 DEF Held
    <3>. QED
      BY <1>0, <3>1 DEF Held
  <2>4. x \in Held(<<x>> \o s)
    BY <1>0, <2>1 DEF Held
  <2>. QED
    BY <2>2, <2>3, <2>4
<1>4. ASSUME s # <<>> PROVE Held(s) = {Head(s)} \cup Held(Tail(s))
  <2>1. /\ Len(s) > 0 /\ Head(s) = s[1] /\ DOMAIN Tail(s) = 1..(Len(s) - 1)
        /\ \A i \in 1..(Len(s) - 1) : Tail(s)[i] = s[i + 1]
    BY <1>4
  <2>2. {Head(s)} \cup Held(Tail(s)) \subseteq Held(s)
    BY <1>0, <2>1 DEF Held
  <2>3. ASSUME NEW i \in 1..Len(s), i # 1 PROVE s[i] \in Held(Tail(s))
    <3>1. i - 1 \in 1..(Len(s) - 1) /\ (i - 1) + 1 = i
      BY <1>0, <2>1, <2>3
    <3>. QED
      BY <2>1, <3>1 DEF Held
  <2>. QED
    BY <1>0, <2>1, <2>2, <2>3 DEF Held
<1>. QED
  BY <1>1, <1>2, <1>3, <1>4

\* How many may be inside a library.
LEMMA InsideFacts ==
    ASSUME NEW i PROVE IsFiniteSet(Inside(i)) /\ Cardinality(Inside(i)) \in 0..Cardinality(Callers)
<1>1. Inside(i) \subseteq Callers /\ IsFiniteSet(Callers)
  BY PluginAssumption DEF Inside
<1>2. IsFiniteSet(Inside(i)) /\ Cardinality(Inside(i)) <= Cardinality(Callers)
  BY <1>1, FS_Subset
<1>. QED
  BY <1>1, <1>2, FS_CardinalityType

\* Who is inside, when one caller moves.
LEMMA InsideMoves ==
    ASSUME PluginTypeOK, NEW c \in Callers, NEW r, caller' = [caller EXCEPT ![c] = r]
    PROVE  \A i : Inside(i)' = IF r.at = "in" /\ r.lib = i THEN Inside(i) \cup {c}
                               ELSE Inside(i) \ {c}
<1>1. caller'[c] = r /\ \A d \in Callers \ {c} : caller'[d] = caller[d]
  BY HostTypes
<1>. QED
  BY <1>1 DEF Inside


-----------------------------------------------------------------------------
(* PluginHost: the steps.                                                  *)

\* A step of applyMu's holder that opens and closes nothing.
Quiet == library' = library /\ caller' = caller

LEMMA QuietKeepsGuards ==
    ASSUME GuardsCount, Quiet PROVE GuardsCount' /\ Opened' = Opened
BY DEF GuardsCount, Quiet, Inside, Opened

LEMMA WithdrawStep == ASSUME PluginInv, Withdraw PROVE PluginInv'
<1>1. GuardsCount' /\ Opened' = Opened
  BY QuietKeepsGuards DEF PluginInv, Withdraw, Quiet
<1>2. PluginTypeOK'
  BY <1>1 DEF PluginInv, PluginTypeOK, Withdraw
<1>3. NoneLeaks' /\ OfferedIsOpen' /\ LifecycleInv'
  BY <1>1 DEF PluginInv, NoneLeaks, OfferedIsOpen, LifecycleInv, Withdraw
<1>. QED
  BY <1>1, <1>2, <1>3 DEF PluginInv

LEMMA BeginApplyStep == ASSUME PluginInv, NEW p \in Paths, BeginApply(p) PROVE PluginInv'
<1>0. PluginTypeOK /\ NoneLeaks /\ OfferedIsOpen /\ LifecycleInv
  BY DEF PluginInv
<1>1. GuardsCount' /\ Opened' = Opened
  BY QuietKeepsGuards DEF PluginInv, BeginApply, Quiet
<1>2. /\ lifecycle'.at \in {"load", "register", "publish"} /\ lifecycle'.path = p
      /\ lifecycle'.lib \in {0, loaded} /\ lifecycle'.targets = <<>>
      /\ lifecycle' \in Lifecycles(Len(library)) /\ lifecycle.targets = <<>>
  <2>1. <<>> \in Seq(1..Len(library)) /\ loaded \in 1..Len(library) \cup {0}
    BY <1>0, HostTypes
  <2>. QED
    BY <1>0, <2>1 DEF BeginApply, LifecycleRest, Lifecycles, LifecycleInv
<1>3. PluginTypeOK'
  BY <1>0, <1>1, <1>2 DEF PluginTypeOK, BeginApply, Lifecycles, Opened
<1>4. NoneLeaks' /\ OfferedIsOpen' /\ LifecycleInv'
  <2>1. UNCHANGED <<library, loaded, retired, active, snapshot>>
    BY DEF BeginApply
  <2>2. NoneLeaks'
    BY <1>0, <1>1, <1>2, <2>1 DEF NoneLeaks, LifecycleInv
  <2>3. OfferedIsOpen'
    BY <1>0, <1>2, <2>1 DEF OfferedIsOpen, LifecycleInv, PathOf
  <2>4. LifecycleInv'
    BY <1>0, <1>2, <2>1, PluginAssumption DEF LifecycleInv
  <2>. QED
    BY <2>2, <2>3, <2>4
<1>. QED
  BY <1>1, <1>3, <1>4 DEF PluginInv

LEMMA LoadStep == ASSUME PluginInv, Load PROVE PluginInv'
<1>0. PluginTypeOK /\ GuardsCount /\ NoneLeaks /\ OfferedIsOpen /\ LifecycleInv
  BY DEF PluginInv
<1>n. PICK n \in Nat : n = Len(library)
  BY <1>0, HostTypes
<1> DEFINE new == [path |-> lifecycle.path, calls |-> 0, closed |-> FALSE, shut |-> FALSE]
<1>1. /\ n \in Nat /\ Opened = 1..n /\ Opened' = 1..(n + 1)
      /\ library' = Append(library, new) /\ Len(library') = n + 1 /\ n + 1 <= MaxLoads
      /\ library'[n + 1] = new /\ \A i \in 1..n : library'[i] = library[i]
  BY <1>0, <1>n, HostTypes DEF Load, Opened
<1>2. /\ loaded' = n + 1 /\ retired' = (IF loaded = 0 THEN retired ELSE Append(retired, loaded))
      /\ fused' \in BOOLEAN /\ UNCHANGED <<active, snapshot, caller>>
      /\ lifecycle' = [lifecycle EXCEPT !.at = "register", !.lib = n + 1]
  BY <1>0, <1>n DEF Load, PluginTypeOK
<1>3. /\ lifecycle'.targets = <<>> /\ lifecycle.targets = <<>> /\ lifecycle'.lib = n + 1
      /\ lifecycle'.at = "register" /\ lifecycle' \in Lifecycles(n + 1)
      /\ lifecycle.path \in Paths /\ lifecycle'.path = lifecycle.path
  <2>1. lifecycle \in Lifecycles(n) /\ lifecycle.at = "load"
    BY <1>0, <1>n, HostTypes DEF Load
  <2>2. lifecycle \in Lifecycles(n + 1) /\ n + 1 \in 1..(n + 1)
    BY <1>1, <2>1, MoreLibraries
  <2>. QED
    BY <1>0, <1>2, <2>1, <2>2 DEF Lifecycles, LifecycleInv
<1>4. PluginTypeOK'
  <2>1. new \in Library
    BY <1>3, PluginAssumption, FS_CardinalityType DEF Library
  <2>2. library' \in Seq(Library)
    BY <1>0, <1>1, <2>1, HostTypes
  <2>3. retired' \in Seq(Opened') /\ loaded' \in Opened' \cup {0} /\ snapshot' \in Opened' \cup {0}
    <3>1. retired \in Seq(1..n) /\ loaded \in 1..n \cup {0} /\ snapshot \in 1..n \cup {0}
      BY <1>0, <1>1, HostTypes
    <3>2. retired \in Seq(1..(n + 1)) /\ 1..n \subseteq 1..(n + 1) /\ n + 1 \in 1..(n + 1)
      BY <1>1, <3>1, MoreLibraries
    <3>3. CASE loaded = 0
      BY <1>1, <1>2, <3>1, <3>2, <3>3
    <3>4. CASE loaded # 0
      <4>1. loaded \in 1..(n + 1) /\ retired' = Append(retired, loaded)
        BY <1>2, <3>1, <3>2, <3>4
      <4>2. retired' \in Seq(1..(n + 1))
        BY <3>2, <4>1
      <4>. QED
        BY <1>1, <1>2, <3>1, <3>2, <4>2
    <3>. QED
      BY <3>3, <3>4
  <2>4. caller' \in [Callers -> CallStates(n + 1)]
    <3>1. caller \in [Callers -> CallStates(n)] /\ CallStates(n) \subseteq CallStates(n + 1)
      BY <1>0, <1>n, HostTypes, MoreLibraries
    <3>. QED
      BY <1>2, <3>1
  <2>5. active' \in Paths \cup {NoPath}
    BY <1>0, <1>2 DEF PluginTypeOK
  <2>. QED
    BY <1>1, <1>2, <1>3, <2>2, <2>3, <2>4, <2>5 DEF PluginTypeOK, Lifecycles, CallStates
<1>5. GuardsCount'
  <2>1. \A i : Inside(i)' = Inside(i)
    BY <1>2 DEF Inside
  <2>2. Inside(n + 1) = {}
    <3>1. \A c \in Callers : caller[c].lib \in 1..n \cup {0}
      BY <1>0, <1>n, HostTypes DEF CallStates
    <3>. QED
      BY <1>1, <3>1 DEF Inside
  <2>3. \A i \in 1..n : library'[i].calls = Cardinality(Inside(i)')
                        /\ (library'[i].shut => library'[i].closed /\ library'[i].calls = 0)
    BY <1>0, <1>1, <2>1 DEF GuardsCount
  <2>4. Cardinality(Inside(n + 1)') = 0
    BY <2>1, <2>2, FS_EmptySet
  <2>5. \A c \in Callers : caller'[c].at # "idle" => caller'[c].lib # 0
    BY <1>0, <1>2 DEF GuardsCount
  <2>. QED
    BY <1>1, <2>3, <2>4, <2>5 DEF GuardsCount
<1>6. NoneLeaks'
  <2>1. Held(retired') = IF loaded = 0 THEN Held(retired) ELSE Held(retired) \cup {loaded}
    BY <1>0, <1>2, HostTypes, HeldFacts
  <2>2. Held(lifecycle.targets) = {}
    BY <1>3 DEF Held
  <2>3. \A i \in 1..n : library'[i].shut \/ i \in Held(retired')
    BY <1>0, <1>1, <2>1, <2>2 DEF NoneLeaks
  <2>. QED
    BY <1>1, <1>2, <2>3 DEF NoneLeaks
<1>7. OfferedIsOpen' /\ LifecycleInv'
  <2>1. snapshot \in 1..n \cup {0}
    BY <1>0, <1>1, HostTypes
  <2>2. snapshot # 0 => ~library'[snapshot].closed /\ active = library'[snapshot].path
    BY <1>0, <1>1, <2>1 DEF OfferedIsOpen, PathOf
  <2>3. OfferedIsOpen'
    <3>1. n + 1 # 0 /\ ~library'[n + 1].closed
      BY <1>1
    <3>. QED
      BY <1>2, <1>3, <2>2, <3>1 DEF OfferedIsOpen, PathOf
  <2>4. LifecycleInv'
    BY <1>1, <1>2, <1>3 DEF LifecycleInv
  <2>. QED
    BY <2>3, <2>4
<1>. QED
  BY <1>4, <1>5, <1>6, <1>7 DEF PluginInv

\* The steps of ApplyConfig after the library is there.
LEMMA ApplyStep ==
    ASSUME PluginInv, OpenFails \/ Register \/ Publish \/ Identify PROVE PluginInv'
<1>0. PluginTypeOK /\ GuardsCount /\ NoneLeaks /\ OfferedIsOpen /\ LifecycleInv
  BY DEF PluginInv
<1>1. GuardsCount' /\ Opened' = Opened
  BY <1>0, QuietKeepsGuards DEF OpenFails, Register, Publish, Identify, Quiet
<1>2. UNCHANGED <<library, loaded, retired, caller>> /\ fused' \in BOOLEAN
  BY <1>0 DEF OpenFails, Register, Publish, Identify, PluginTypeOK
<1>3. /\ lifecycle.targets = <<>> /\ lifecycle'.targets = <<>>
      /\ lifecycle'.lib \in {0, lifecycle.lib} /\ lifecycle'.at \in {"idle", "publish", "identify"}
      /\ lifecycle' \in Lifecycles(Len(library))
  <2>1. lifecycle \in Lifecycles(Len(library)) /\ LifecycleRest \in Lifecycles(Len(library))
    BY <1>0, HostTypes DEF LifecycleRest, Lifecycles
  <2>2. lifecycle.targets = <<>> /\ LifecycleRest.targets = <<>> /\ LifecycleRest.lib = 0
        /\ LifecycleRest.at = "idle"
    BY <1>0 DEF OpenFails, Register, Publish, Identify, LifecycleInv, LifecycleRest
  <2>3. CASE lifecycle' = LifecycleRest
    BY <2>1, <2>2, <2>3
  <2>4. CASE \E step \in {"publish", "identify"}, lib \in {0, lifecycle.lib} :
                 lifecycle' = [lifecycle EXCEPT !.at = step, !.lib = lib]
    BY <2>1, <2>2, <2>4 DEF Lifecycles
  <2>5. lifecycle' = LifecycleRest \/
        \E step \in {"publish", "identify"}, lib \in {0, lifecycle.lib} :
            lifecycle' = [lifecycle EXCEPT !.at = step, !.lib = lib]
    <3>2. CASE OpenFails
      <4>1. lifecycle' = [lifecycle EXCEPT !.at = "publish", !.lib = lifecycle.lib]
        BY <2>1, <3>2 DEF OpenFails, Lifecycles
      <4>. QED
        BY <4>1
    <3>3. CASE Register
      BY <3>3 DEF Register
    <3>4. CASE Publish
      <4>1. \/ lifecycle' = LifecycleRest
            \/ lifecycle' = [lifecycle EXCEPT !.at = "identify", !.lib = lifecycle.lib]
        BY <2>1, <3>4 DEF Publish, Lifecycles
      <4>. QED
        BY <4>1
    <3>5. CASE Identify
      BY <3>5 DEF Identify
    <3>. QED
      BY <3>2, <3>3, <3>4, <3>5
  <2>. QED
    BY <2>3, <2>4, <2>5
<1>4. \/ active' = active /\ snapshot' = snapshot
      \/ active' = PathOf(lifecycle.lib) /\ snapshot' = lifecycle.lib
  BY DEF OpenFails, Register, Publish, Identify
<1>5. PluginTypeOK'
  <2>1. PathOf(lifecycle.lib) \in Paths \cup {NoPath} /\ lifecycle.lib \in Opened \cup {0}
    BY <1>0, HostTypes DEF PathOf, Lifecycles, Library
  <2>2. active' \in Paths \cup {NoPath} /\ snapshot' \in Opened \cup {0}
    BY <1>0, <1>4, <2>1 DEF PluginTypeOK
  <2>. QED
    BY <1>0, <1>1, <1>2, <1>3, <2>2 DEF PluginTypeOK, Lifecycles, Opened
<1>6. NoneLeaks'
  BY <1>0, <1>1, <1>2, <1>3 DEF NoneLeaks
<1>7. OfferedIsOpen'
  BY <1>0, <1>2, <1>3, <1>4 DEF OfferedIsOpen, PathOf
<1>8. LifecycleInv'
  BY <1>0, <1>2, <1>3 DEF LifecycleInv
<1>. QED
  BY <1>1, <1>5, <1>6, <1>7, <1>8 DEF PluginInv

LEMMA ForgetStep == ASSUME PluginInv, UnloadPlugin \/ ShutdownAll PROVE PluginInv'
<1>0. PluginTypeOK /\ GuardsCount /\ NoneLeaks /\ OfferedIsOpen /\ LifecycleInv
  BY DEF PluginInv
<1>1. GuardsCount' /\ Opened' = Opened
  BY <1>0, QuietKeepsGuards DEF UnloadPlugin, ShutdownAll, Forget, Quiet
<1>2. /\ UNCHANGED <<library, caller>> /\ fused' \in BOOLEAN
      /\ loaded' = 0 /\ retired' = <<>> /\ active' = NoPath /\ snapshot' = 0
      /\ Targets # <<>> /\ lifecycle.at = "idle"
      /\ lifecycle' = [LifecycleRest EXCEPT !.at = "close", !.targets = Targets]
  BY <1>0 DEF UnloadPlugin, ShutdownAll, Forget, PluginTypeOK
<1>3. Targets \in Seq(Opened) /\ Held(Targets) = Held(retired) \cup ({loaded} \ {0})
  <2>1. retired \in Seq(Opened) /\ loaded \in Opened \cup {0} /\ 0 \notin Opened
    BY <1>0, HostTypes
  <2>2. CASE loaded = 0
    <3>1. Targets = retired
      BY <2>1, <2>2 DEF Targets
    <3>. QED
      BY <2>1, <2>2, <3>1
  <2>3. CASE loaded # 0
    <3>1. Targets = <<loaded>> \o retired /\ loaded \in Opened
      BY <2>1, <2>3 DEF Targets
    <3>2. Held(<<loaded>> \o retired) = {loaded} \cup Held(retired)
      BY <2>1, <3>1, HeldFacts
    <3>3. <<loaded>> \o retired \in Seq(Opened)
      BY <2>1, <3>1
    <3>. QED
      BY <2>3, <3>1, <3>2, <3>3
  <2>. QED
    BY <2>2, <2>3
<1>4. /\ lifecycle'.at = "close" /\ lifecycle'.targets = Targets /\ lifecycle'.lib = 0
      /\ lifecycle' \in Lifecycles(Len(library))
  BY <1>0, <1>2, <1>3, HostTypes DEF LifecycleRest, Lifecycles
<1>5. PluginTypeOK'
  <2>1. <<>> \in Seq(Opened)
    OBVIOUS
  <2>. QED
    BY <1>0, <1>1, <1>2, <1>4, <2>1 DEF PluginTypeOK, Lifecycles, Opened
<1>6. NoneLeaks'
  <2>1. Held(lifecycle.targets) = {}
    BY <1>0, <1>2 DEF LifecycleInv, Held
  <2>2. \A i \in Opened : library[i].shut \/ i \in Held(Targets)
    <3>1. 0 \notin Opened
      BY <1>0, HostTypes
    <3>. QED
      BY <1>0, <1>3, <2>1, <3>1 DEF NoneLeaks
  <2>. QED
    BY <1>1, <1>2, <1>4, <2>2 DEF NoneLeaks
<1>7. OfferedIsOpen' /\ LifecycleInv'
  BY <1>2, <1>4 DEF OfferedIsOpen, LifecycleInv
<1>. QED
  BY <1>1, <1>5, <1>6, <1>7 DEF PluginInv

\* A library's guard changes: the sequence keeps its types and its length.
LEMMA GuardChange ==
    ASSUME PluginTypeOK, NEW i \in Opened, NEW r \in Library,
           library' = [library EXCEPT ![i] = r]
    PROVE  /\ library' \in Seq(Library) /\ Len(library') = Len(library) /\ Opened' = Opened
           /\ library'[i] = r /\ \A j \in Opened \ {i} : library'[j] = library[j]
BY HostTypes DEF Opened

LEMMA CloseGuardStep == ASSUME PluginInv, CloseGuard PROVE PluginInv'
<1>0. PluginTypeOK /\ GuardsCount /\ NoneLeaks /\ OfferedIsOpen /\ LifecycleInv
  BY DEF PluginInv
<1>n. PICK i : i = Head(lifecycle.targets)
  OBVIOUS
<1>1. /\ lifecycle.at = "close" /\ lifecycle.targets # <<>> /\ i \in Opened
      /\ loaded = 0 /\ snapshot = 0 /\ lifecycle.lib = 0
  <2>1. lifecycle.at = "close" /\ lifecycle.targets # <<>>
    BY <1>0 DEF CloseGuard, LifecycleInv
  <2>2. lifecycle.targets \in Seq(Opened)
    BY <1>0, HostTypes DEF Lifecycles
  <2>. QED
    BY <1>0, <1>n, <2>1, <2>2 DEF LifecycleInv
<1>2. PICK r \in Library : /\ r = [library[i] EXCEPT !.closed = TRUE]
                           /\ library' = [library EXCEPT ![i] = r]
  <2>1. library[i] \in Library
    BY <1>0, <1>1, HostTypes
  <2>2. [library[i] EXCEPT !.closed = TRUE] \in Library
    BY <2>1 DEF Library
  <2>. QED
    BY <1>n, <2>2 DEF CloseGuard
<1>3. /\ library' \in Seq(Library) /\ Len(library') = Len(library) /\ Opened' = Opened
      /\ library'[i] = r /\ \A j \in Opened \ {i} : library'[j] = library[j]
      /\ r.calls = library[i].calls /\ r.closed /\ r.shut = library[i].shut
      /\ library[i] \in Library
  BY <1>0, <1>1, <1>2, GuardChange, HostTypes DEF Library
<1>4. /\ UNCHANGED <<loaded, retired, fused, active, snapshot, caller>>
      /\ lifecycle' = [lifecycle EXCEPT !.at = "drain"]
      /\ lifecycle' \in Lifecycles(Len(library)) /\ lifecycle'.at = "drain"
      /\ lifecycle'.targets = lifecycle.targets /\ lifecycle'.lib = 0
  BY <1>0, <1>1, HostTypes DEF CloseGuard, Lifecycles
<1>5. PluginTypeOK'
  BY <1>0, <1>3, <1>4 DEF PluginTypeOK, Lifecycles, Opened
<1>6. GuardsCount'
  <2>1. \A j : Inside(j)' = Inside(j)
    BY <1>4 DEF Inside
  <2>2. ASSUME NEW j \in Opened
        PROVE  /\ library'[j].calls = Cardinality(Inside(j)')
               /\ library'[j].shut => library'[j].closed /\ library'[j].calls = 0
    BY <1>0, <1>3, <2>1 DEF GuardsCount
  <2>. QED
    BY <1>0, <1>3, <1>4, <2>2 DEF GuardsCount
<1>7. NoneLeaks'
  BY <1>0, <1>3, <1>4 DEF NoneLeaks
<1>8. OfferedIsOpen' /\ LifecycleInv'
  BY <1>1, <1>3, <1>4, <1>n DEF OfferedIsOpen, LifecycleInv
<1>. QED
  BY <1>5, <1>6, <1>7, <1>8 DEF PluginInv

LEMMA ShutLibraryStep == ASSUME PluginInv, ShutLibrary PROVE PluginInv'
<1>0. PluginTypeOK /\ GuardsCount /\ NoneLeaks /\ OfferedIsOpen /\ LifecycleInv
  BY DEF PluginInv
<1>n. PICK i : i = Head(lifecycle.targets)
  OBVIOUS
<1>1. /\ lifecycle.at = "drain" /\ lifecycle.targets # <<>> /\ i \in Opened
      /\ loaded = 0 /\ snapshot = 0 /\ lifecycle.lib = 0 /\ library[i].closed
      /\ library[i].calls = 0 /\ lifecycle.targets \in Seq(Opened)
  <2>1. lifecycle.at = "drain" /\ lifecycle.targets # <<>>
    BY <1>0 DEF ShutLibrary, LifecycleInv
  <2>2. lifecycle.targets \in Seq(Opened)
    BY <1>0, HostTypes DEF Lifecycles
  <2>. QED
    BY <1>0, <1>n, <2>1, <2>2 DEF LifecycleInv, ShutLibrary
<1>2. PICK r \in Library : /\ r = [library[i] EXCEPT !.shut = TRUE]
                           /\ library' = [library EXCEPT ![i] = r]
  <2>1. library[i] \in Library
    BY <1>0, <1>1, HostTypes
  <2>2. [library[i] EXCEPT !.shut = TRUE] \in Library
    BY <2>1 DEF Library
  <2>. QED
    BY <1>n, <2>2 DEF ShutLibrary
<1>3. /\ library' \in Seq(Library) /\ Len(library') = Len(library) /\ Opened' = Opened
      /\ library'[i] = r /\ \A j \in Opened \ {i} : library'[j] = library[j]
      /\ r.calls = 0 /\ r.closed /\ r.shut /\ library[i] \in Library
  BY <1>0, <1>1, <1>2, GuardChange, HostTypes DEF Library
<1> DEFINE rest == Tail(lifecycle.targets)
<1>4. /\ UNCHANGED <<loaded, retired, fused, active, snapshot, caller>>
      /\ lifecycle' \in Lifecycles(Len(library)) /\ lifecycle'.lib = 0
      /\ lifecycle'.targets = rest /\ lifecycle'.at = IF rest = <<>> THEN "idle" ELSE "close"
  <2>1. lifecycle \in Lifecycles(Len(library)) /\ LifecycleRest \in Lifecycles(Len(library))
    BY <1>0, HostTypes DEF LifecycleRest, Lifecycles
  <2>2. rest \in Seq(1..Len(library))
    <3>1. rest \in Seq(Opened)
      BY <1>1
    <3>. QED
      BY <3>1 DEF Opened
  <2>. QED
    BY <1>1, <2>1, <2>2 DEF ShutLibrary, Lifecycles, LifecycleRest
<1>5. PluginTypeOK'
  BY <1>0, <1>3, <1>4 DEF PluginTypeOK, Lifecycles, Opened
<1>6. GuardsCount'
  <2>1. \A j : Inside(j)' = Inside(j)
    BY <1>4 DEF Inside
  <2>2. ASSUME NEW j \in Opened
        PROVE  /\ library'[j].calls = Cardinality(Inside(j)')
               /\ library'[j].shut => library'[j].closed /\ library'[j].calls = 0
    BY <1>0, <1>1, <1>3, <2>1 DEF GuardsCount
  <2>. QED
    BY <1>0, <1>3, <1>4, <2>2 DEF GuardsCount
<1>7. NoneLeaks'
  <2>1. Held(lifecycle.targets) = {i} \cup Held(rest)
    BY <1>1, <1>n, HeldFacts
  <2>2. \A j \in Opened \ {i} : library'[j].shut \/ j \in Held(retired) \cup Held(rest)
    BY <1>0, <1>1, <1>3, <2>1 DEF NoneLeaks, Opened
  <2>3. library'[i].shut
    BY <1>3
  <2>. QED
    BY <1>3, <1>4, <2>2, <2>3 DEF NoneLeaks
<1>8. OfferedIsOpen' /\ LifecycleInv'
  BY <1>1, <1>3, <1>4 DEF OfferedIsOpen, LifecycleInv
<1>. QED
  BY <1>5, <1>6, <1>7, <1>8 DEF PluginInv

\* The steps of a request that leave the guards alone.
LEMMA AsideStep ==
    ASSUME PluginInv, NEW c \in Callers,
           TakePluginRecord(c) \/ CheckFused(c) \/ CheckCurrent(c) \/ FusePlugin(c)
    PROVE  PluginInv'
<1>0. PluginTypeOK /\ GuardsCount /\ NoneLeaks /\ OfferedIsOpen /\ LifecycleInv
  BY DEF PluginInv
<1>1. /\ UNCHANGED <<library, loaded, retired, active, snapshot, lifecycle>> /\ fused' \in BOOLEAN
      /\ Opened' = Opened
  BY <1>0 DEF TakePluginRecord, CheckFused, CheckCurrent, FusePlugin, PluginTypeOK, Opened
<1>2. PICK r \in CallStates(Len(library)) :
          caller' = [caller EXCEPT ![c] = r] /\ r.at # "in" /\ (r.at # "idle" => r.lib # 0)
  <2>1. caller[c] \in CallStates(Len(library)) /\ snapshot \in Opened \cup {0}
    BY <1>0, HostTypes
  <2>2. NoCall \in CallStates(Len(library)) /\ NoCall.at = "idle"
    BY DEF NoCall, CallStates
  <2>3. CASE GivesUp(c)
    BY <2>2, <2>3 DEF GivesUp
  <2>4. ASSUME NEW at \in {"checkCurrent", "call"}, caller[c].at \in {"checkFused", "checkCurrent"},
               Goes(c, at)
        PROVE  \E r \in CallStates(Len(library)) :
                   caller' = [caller EXCEPT ![c] = r] /\ r.at # "in" /\ (r.at # "idle" => r.lib # 0)
    <3>1. [caller[c] EXCEPT !.at = at] \in CallStates(Len(library))
          /\ [caller[c] EXCEPT !.at = at].at = at
          /\ [caller[c] EXCEPT !.at = at].lib = caller[c].lib
      BY <2>1 DEF CallStates
    <3>2. caller[c].lib # 0 /\ at # "in"
      BY <1>0, <2>4 DEF GuardsCount
    <3>. QED
      BY <2>4, <3>1, <3>2 DEF Goes
  <2>5. CASE TakePluginRecord(c)
    <3>1. [at |-> "checkFused", lib |-> snapshot] \in CallStates(Len(library))
      BY <2>1 DEF CallStates, Opened
    <3>. QED
      BY <2>5, <3>1 DEF TakePluginRecord
  <2>6. CASE CheckFused(c)
    BY <2>3, <2>4, <2>6 DEF CheckFused
  <2>7. CASE CheckCurrent(c)
    BY <2>3, <2>4, <2>7 DEF CheckCurrent
  <2>8. CASE FusePlugin(c)
    BY <2>3, <2>8 DEF FusePlugin
  <2>. QED
    BY <2>5, <2>6, <2>7, <2>8
<1>3. caller[c].at # "in"
  BY DEF TakePluginRecord, CheckFused, CheckCurrent, FusePlugin
<1>4. caller' \in [Callers -> CallStates(Len(library))] /\ caller'[c] = r
      /\ \A d \in Callers \ {c} : caller'[d] = caller[d]
  BY <1>0, <1>2, HostTypes
<1>5. PluginTypeOK'
  BY <1>0, <1>1, <1>4 DEF PluginTypeOK, CallStates, Opened
<1>6. \A i : Inside(i)' = Inside(i)
  BY <1>2, <1>3, <1>4 DEF Inside
<1>7. GuardsCount'
  BY <1>0, <1>1, <1>2, <1>4, <1>6 DEF GuardsCount
<1>8. NoneLeaks' /\ OfferedIsOpen' /\ LifecycleInv'
  BY <1>0, <1>1 DEF NoneLeaks, OfferedIsOpen, LifecycleInv, PathOf
<1>. QED
  BY <1>5, <1>7, <1>8 DEF PluginInv

LEMMA AcquireStep == ASSUME PluginInv, NEW c \in Callers, Acquire(c) PROVE PluginInv'
<1>0. PluginTypeOK /\ GuardsCount /\ NoneLeaks /\ OfferedIsOpen /\ LifecycleInv
  BY DEF PluginInv
<1>n. PICK i : i = caller[c].lib
  OBVIOUS
<1>1. /\ caller[c].at = "call" /\ i \in Opened /\ caller[c] \in CallStates(Len(library))
      /\ UNCHANGED <<loaded, retired, fused, active, snapshot, lifecycle>>
  BY <1>0, <1>n, HostTypes DEF Acquire, GuardsCount, CallStates
<1>2. CASE library[i].closed
  <2>1. UNCHANGED library /\ caller' = [caller EXCEPT ![c] = NoCall] /\ Opened' = Opened
    BY <1>n, <1>2 DEF Acquire, GivesUp, Opened
  <2>2. NoCall \in CallStates(Len(library)) /\ NoCall.at = "idle"
    BY DEF NoCall, CallStates
  <2>3. caller' \in [Callers -> CallStates(Len(library))] /\ caller'[c] = NoCall
        /\ \A d \in Callers \ {c} : caller'[d] = caller[d]
    BY <1>0, <2>1, <2>2, HostTypes
  <2>4. \A j : Inside(j)' = Inside(j)
    BY <1>1, <2>2, <2>3 DEF Inside
  <2>5. PluginTypeOK'
    BY <1>0, <1>1, <2>1, <2>3 DEF PluginTypeOK, CallStates, Opened
  <2>6. GuardsCount'
    BY <1>0, <2>1, <2>2, <2>3, <2>4 DEF GuardsCount
  <2>7. NoneLeaks' /\ OfferedIsOpen' /\ LifecycleInv'
    BY <1>0, <1>1, <2>1 DEF NoneLeaks, OfferedIsOpen, LifecycleInv, PathOf
  <2>. QED
    BY <2>5, <2>6, <2>7 DEF PluginInv
<1>3. CASE ~library[i].closed
  <2>1. PICK s : /\ s = [caller[c] EXCEPT !.at = "in"] /\ caller' = [caller EXCEPT ![c] = s]
                 /\ library' = [library EXCEPT ![i] = [library[i] EXCEPT !.calls = @ + 1]]
    BY <1>n, <1>3 DEF Acquire, Goes
  <2>2. s \in CallStates(Len(library)) /\ s.at = "in" /\ s.lib = i
    BY <1>1, <1>n, <2>1 DEF CallStates
  <2>3. caller' \in [Callers -> CallStates(Len(library))] /\ caller'[c] = s
        /\ \A d \in Callers \ {c} : caller'[d] = caller[d]
    BY <1>0, <2>1, <2>2, HostTypes
  <2>4. Inside(i)' = Inside(i) \cup {c} /\ c \notin Inside(i)
        /\ \A j : j # i => Inside(j)' = Inside(j)
    BY <1>1, <1>n, <2>2, <2>3 DEF Inside
  <2>5. /\ Cardinality(Inside(i) \cup {c}) = Cardinality(Inside(i)) + 1
        /\ Cardinality(Inside(i) \cup {c}) \in 0..Cardinality(Callers)
        /\ library[i].calls = Cardinality(Inside(i)) /\ library[i] \in Library /\ ~library[i].shut
    <3>1. /\ IsFiniteSet(Inside(i)) /\ Inside(i) \cup {c} \subseteq Callers /\ IsFiniteSet(Callers)
          /\ Cardinality(Inside(i)) \in Nat
      BY InsideFacts, PluginAssumption, FS_CardinalityType DEF Inside
    <3>2. Cardinality(Inside(i) \cup {c}) = Cardinality(Inside(i)) + 1
      BY <2>4, <3>1, FS_AddElement
    <3>3. Cardinality(Inside(i) \cup {c}) <= Cardinality(Callers) /\ Cardinality(Callers) \in Nat
      BY <3>1, FS_Subset, FS_CardinalityType
    <3>4. library[i].calls = Cardinality(Inside(i)) /\ library[i] \in Library /\ ~library[i].shut
      BY <1>0, <1>1, <1>3, HostTypes DEF GuardsCount
    <3>. QED
      BY <3>1, <3>2, <3>3, <3>4
  <2>6. PICK r \in Library : /\ r = [library[i] EXCEPT !.calls = @ + 1]
                             /\ library' = [library EXCEPT ![i] = r]
    BY <2>1, <2>5 DEF Library
  <2>7. /\ library' \in Seq(Library) /\ Len(library') = Len(library) /\ Opened' = Opened
        /\ library'[i] = r /\ \A j \in Opened \ {i} : library'[j] = library[j]
        /\ r.calls = Cardinality(Inside(i)') /\ ~r.shut /\ r.shut = library[i].shut
        /\ r.closed = library[i].closed /\ r.path = library[i].path
    BY <1>0, <1>1, <1>3, <2>4, <2>5, <2>6, GuardChange DEF Library
  <2>8. PluginTypeOK'
    BY <1>0, <1>1, <2>3, <2>7 DEF PluginTypeOK, CallStates, Opened
  <2>9. GuardsCount'
    <3>1. ASSUME NEW j \in Opened
          PROVE  /\ library'[j].calls = Cardinality(Inside(j)')
                 /\ library'[j].shut => library'[j].closed /\ library'[j].calls = 0
      BY <1>0, <2>4, <2>7 DEF GuardsCount
    <3>2. i # 0
      BY <1>0, <1>1, HostTypes
    <3>. QED
      BY <1>0, <2>2, <2>3, <2>7, <3>1, <3>2 DEF GuardsCount
  <2>10. \A j \in Opened : /\ library'[j].shut = library[j].shut /\ library'[j].path = library[j].path
                           /\ library'[j].closed = library[j].closed
    BY <2>7
  <2>11. NoneLeaks' /\ OfferedIsOpen' /\ LifecycleInv'
    <3>1. /\ loaded \in Opened \cup {0} /\ snapshot \in Opened \cup {0}
          /\ lifecycle \in Lifecycles(Len(library)) /\ Opened = 1..Len(library)
      BY <1>0, HostTypes
    <3>2. lifecycle.lib \in Opened \cup {0}
      BY <3>1 DEF Lifecycles
    <3>3. lifecycle.at = "drain" => Head(lifecycle.targets) \in Opened
      BY <1>0, <3>1 DEF Lifecycles, LifecycleInv
    <3>4. NoneLeaks'
      BY <1>0, <1>1, <2>7, <2>10 DEF NoneLeaks
    <3>5. OfferedIsOpen'
      BY <1>0, <1>1, <2>10, <3>1, <3>2 DEF OfferedIsOpen, PathOf
    <3>6. LifecycleInv'
      BY <1>0, <1>1, <2>10, <3>1, <3>3 DEF LifecycleInv
    <3>. QED
      BY <3>4, <3>5, <3>6
  <2>. QED
    BY <2>8, <2>9, <2>11 DEF PluginInv
<1>. QED
  BY <1>2, <1>3

LEMMA LeaveStep == ASSUME PluginInv, NEW c \in Callers, Leave(c) PROVE PluginInv'
<1>0. PluginTypeOK /\ GuardsCount /\ NoneLeaks /\ OfferedIsOpen /\ LifecycleInv
  BY DEF PluginInv
<1>n. PICK i : i = caller[c].lib
  OBVIOUS
<1>1. /\ caller[c].at = "in" /\ i \in Opened /\ caller[c] \in CallStates(Len(library))
      /\ UNCHANGED <<loaded, retired, fused, active, snapshot, lifecycle>>
      /\ library' = [library EXCEPT ![i] = [library[i] EXCEPT !.calls = @ - 1]]
  BY <1>0, <1>n, HostTypes DEF Leave, GuardsCount, CallStates
<1>2. PICK s \in CallStates(Len(library)) :
          /\ caller' = [caller EXCEPT ![c] = s] /\ s.at # "in" /\ (s.at # "idle" => s.lib = i)
  <2>1. NoCall \in CallStates(Len(library)) /\ NoCall.at = "idle"
    BY DEF NoCall, CallStates
  <2>2. /\ [caller[c] EXCEPT !.at = "fuse"] \in CallStates(Len(library))
        /\ [caller[c] EXCEPT !.at = "fuse"].at = "fuse"
        /\ [caller[c] EXCEPT !.at = "fuse"].lib = i
    BY <1>1, <1>n DEF CallStates
  <2>3. GivesUp(c) \/ Goes(c, "fuse")
    BY DEF Leave
  <2>. QED
    BY <2>1, <2>2, <2>3 DEF GivesUp, Goes
<1>3. caller' \in [Callers -> CallStates(Len(library))] /\ caller'[c] = s
      /\ \A d \in Callers \ {c} : caller'[d] = caller[d]
  BY <1>0, <1>2, HostTypes
<1>4. Inside(i)' = Inside(i) \ {c} /\ c \in Inside(i)
      /\ \A j : j # i => Inside(j)' = Inside(j)
  BY <1>1, <1>n, <1>2, <1>3 DEF Inside
<1>5. /\ Cardinality(Inside(i) \ {c}) = Cardinality(Inside(i)) - 1
      /\ Cardinality(Inside(i) \ {c}) \in 0..Cardinality(Callers)
      /\ library[i].calls = Cardinality(Inside(i)) /\ library[i] \in Library /\ ~library[i].shut
  <2>1. IsFiniteSet(Inside(i)) /\ Cardinality(Inside(i)) \in 0..Cardinality(Callers)
        /\ Cardinality(Callers) \in Nat
    BY InsideFacts, PluginAssumption, FS_CardinalityType
  <2>2. Cardinality(Inside(i) \ {c}) = Cardinality(Inside(i)) - 1
        /\ IsFiniteSet(Inside(i) \ {c})
    BY <1>4, <2>1, FS_RemoveElement
  <2>3. Cardinality(Inside(i) \ {c}) \in Nat
    BY <2>2, FS_CardinalityType
  <2>4. library[i].calls = Cardinality(Inside(i)) /\ library[i] \in Library
        /\ (library[i].shut => library[i].calls = 0)
    BY <1>0, <1>1, HostTypes DEF GuardsCount
  <2>. QED
    BY <2>1, <2>2, <2>3, <2>4
<1>6. PICK r \in Library : /\ r = [library[i] EXCEPT !.calls = @ - 1]
                           /\ library' = [library EXCEPT ![i] = r]
  BY <1>1, <1>5 DEF Library
<1>7. /\ library' \in Seq(Library) /\ Len(library') = Len(library) /\ Opened' = Opened
      /\ library'[i] = r /\ \A j \in Opened \ {i} : library'[j] = library[j]
      /\ r.calls = Cardinality(Inside(i)') /\ ~r.shut /\ r.shut = library[i].shut
      /\ r.closed = library[i].closed /\ r.path = library[i].path
  BY <1>0, <1>1, <1>4, <1>5, <1>6, GuardChange DEF Library
<1>8. PluginTypeOK'
  BY <1>0, <1>1, <1>3, <1>7 DEF PluginTypeOK, CallStates, Opened
<1>9. GuardsCount'
  <2>1. ASSUME NEW j \in Opened
        PROVE  /\ library'[j].calls = Cardinality(Inside(j)')
               /\ library'[j].shut => library'[j].closed /\ library'[j].calls = 0
    BY <1>0, <1>4, <1>7, ZenonT(40) DEF GuardsCount
  <2>2. i # 0
    BY <1>0, <1>1, HostTypes
  <2>. QED
    BY <1>0, <1>2, <1>3, <1>7, <2>1, <2>2 DEF GuardsCount
<1>10. \A j \in Opened : /\ library'[j].shut = library[j].shut /\ library'[j].path = library[j].path
                         /\ library'[j].closed = library[j].closed
  BY <1>7
<1>11. NoneLeaks' /\ OfferedIsOpen' /\ LifecycleInv'
  <2>1. /\ loaded \in Opened \cup {0} /\ snapshot \in Opened \cup {0}
        /\ lifecycle \in Lifecycles(Len(library)) /\ Opened = 1..Len(library)
    BY <1>0, HostTypes
  <2>2. lifecycle.lib \in Opened \cup {0}
    BY <2>1 DEF Lifecycles
  <2>3. lifecycle.at = "drain" => Head(lifecycle.targets) \in Opened
    BY <1>0, <2>1 DEF Lifecycles, LifecycleInv
  <2>4. NoneLeaks'
    BY <1>0, <1>1, <1>7, <1>10 DEF NoneLeaks
  <2>5. OfferedIsOpen'
    BY <1>0, <1>1, <1>10, <2>1, <2>2 DEF OfferedIsOpen, PathOf
  <2>6. LifecycleInv'
    BY <1>0, <1>1, <1>10, <2>1, <2>3 DEF LifecycleInv
  <2>. QED
    BY <2>4, <2>5, <2>6
<1>. QED
  BY <1>8, <1>9, <1>11 DEF PluginInv

-----------------------------------------------------------------------------
(* PluginHost: the theorems.                                               *)

\* In every state of PluginHost the guards count who is in a library, none leaks,
\* what is offered is open, and nothing is offered while libraries are closed.
THEOREM PluginInvariance == PluginSpec => []PluginInv
<1>1. PluginInit => PluginInv
  <2>. SUFFICES ASSUME PluginInit PROVE PluginInv
    OBVIOUS
  <2>1. library = <<>> /\ Opened = {}
    BY DEF PluginInit, Opened
  <2>2. PluginTypeOK
    <3>1. library \in Seq(Library) /\ Len(library) = 0 /\ 0 <= MaxLoads
      BY <2>1, PluginAssumption
    <3>2. retired \in Seq(Opened) /\ <<>> \in Seq(Opened)
      BY DEF PluginInit
    <3>3. NoCall \in CallStates(0) /\ LifecycleRest \in Lifecycles(0)
      BY DEF NoCall, CallStates, LifecycleRest, Lifecycles
    <3>. QED
      BY <3>1, <3>2, <3>3 DEF PluginInit, PluginTypeOK, Opened, CallStates, Lifecycles
  <2>3. GuardsCount /\ NoneLeaks /\ OfferedIsOpen /\ LifecycleInv
    BY <2>1 DEF PluginInit, GuardsCount, NoneLeaks, OfferedIsOpen, LifecycleInv,
         LifecycleRest, NoCall
  <2>. QED
    BY <2>2, <2>3 DEF PluginInv
<1>2. PluginInv /\ [PluginNext]_pluginVars => PluginInv'
  <2>. SUFFICES ASSUME PluginInv, [PluginNext]_pluginVars PROVE PluginInv'
    OBVIOUS
  <2>1. CASE LifecycleStep
    BY <2>1, WithdrawStep, BeginApplyStep, LoadStep, ApplyStep, ForgetStep, CloseGuardStep,
       ShutLibraryStep DEF LifecycleStep
  <2>2. CASE \E c \in Callers : \/ TakePluginRecord(c) \/ CheckFused(c) \/ CheckCurrent(c)
                                \/ Acquire(c) \/ Leave(c) \/ FusePlugin(c)
    BY <2>2, AsideStep, AcquireStep, LeaveStep
  <2>3. CASE UNCHANGED pluginVars
    <3>1. Quiet /\ UNCHANGED <<library, loaded, retired, fused, active, snapshot, lifecycle, caller>>
      BY <2>3 DEF pluginVars, Quiet
    <3>2. GuardsCount' /\ Opened' = Opened
      BY <3>1, QuietKeepsGuards DEF PluginInv
    <3>3. PluginTypeOK'
      BY <3>1, <3>2 DEF PluginInv, PluginTypeOK
    <3>4. NoneLeaks' /\ OfferedIsOpen' /\ LifecycleInv'
      BY <3>1, <3>2 DEF PluginInv, NoneLeaks, OfferedIsOpen, LifecycleInv, PathOf
    <3>. QED
      BY <3>2, <3>3, <3>4 DEF PluginInv
  <2>. QED
    BY <2>1, <2>2, <2>3 DEF PluginNext
<1>. QED
  BY <1>1, <1>2, PTL DEF PluginSpec

\* No call runs in a library that was shut down, whatever a request read before a
\* reload or an unload; none leaks, and an unloaded plugin is quiet.
THEOREM CallsAreSafe == PluginSpec => []PluginCallIsSafe
<1>1. PluginInv => PluginCallIsSafe
  <2>. SUFFICES ASSUME PluginInv PROVE PluginCallIsSafe
    OBVIOUS
  <2>0. PluginTypeOK /\ GuardsCount /\ NoneLeaks /\ OfferedIsOpen /\ LifecycleInv
    BY DEF PluginInv
  <2>1. ASSUME NEW c \in Callers, caller[c].at = "in"
        PROVE  caller[c].lib \in Opened /\ ~library[caller[c].lib].shut
    <3>1. caller[c].lib \in Opened
      BY <2>0, <2>1, HostTypes DEF GuardsCount, CallStates
    <3>2. c \in Inside(caller[c].lib)
      BY <2>1 DEF Inside
    <3>3. Cardinality(Inside(caller[c].lib)) # 0
      BY <3>2, InsideFacts, FS_EmptySet
    <3>. QED
      BY <2>0, <3>1, <3>3 DEF GuardsCount
  <2>2. UnloadedIsQuiet
    <3>. SUFFICES ASSUME lifecycle.at = "idle", Targets = <<>>, NEW c \in Callers,
                         caller[c].at = "in"
                  PROVE  FALSE
      BY DEF UnloadedIsQuiet
    <3>1. loaded = 0 /\ retired = <<>> /\ lifecycle.targets = <<>> /\ 0 \notin Opened
      <4>1. retired \in Seq(Opened) /\ 0 \notin Opened
        BY <2>0, HostTypes
      <4>2. Len(<<loaded>> \o retired) > 0
        BY <4>1
      <4>3. loaded = 0 /\ Targets = <<>> \o retired
        BY <4>2 DEF Targets
      <4>. QED
        BY <2>0, <4>1, <4>3 DEF LifecycleInv
    <3>2. Held(retired) = {} /\ Held(lifecycle.targets) = {}
      BY <3>1 DEF Held
    <3>. QED
      BY <2>0, <2>1, <3>1, <3>2 DEF NoneLeaks
  <2>. QED
    BY <2>0, <2>1, <2>2 DEF PluginCallIsSafe, NoCallInShut
<1>. QED
  BY <1>1, PluginInvariance, PTL

-----------------------------------------------------------------------------
(* PluginStream: what was sent, cut into what was given, what is in hand   *)
(* and what waits.                                                         *)

LEMMA CutFacts ==
    ASSUME NEW S, NEW g \in Seq(S), NEW h \in Seq(S), NEW c \in Seq(S), NEW x \in S
    PROVE  /\ Append((g \o h) \o c, x) = (g \o h) \o Append(c, x)
           /\ (Append(g, x) \o <<>>) \o c = (g \o <<x>>) \o c
           /\ c # <<>> => (g \o <<Head(c)>>) \o Tail(c) = (g \o <<>>) \o c
<1>1. Append((g \o h) \o c, x) = (g \o h) \o Append(c, x)
  <2>1. g \o h \in Seq(S) /\ (g \o h) \o c \in Seq(S) /\ <<x>> \in Seq(S)
    OBVIOUS
  <2>2. Append((g \o h) \o c, x) = ((g \o h) \o c) \o <<x>> /\ Append(c, x) = c \o <<x>>
    BY <2>1, AppendIsConcat
  <2>. QED
    BY <2>1, <2>2, ConcatAssociative, SMTT(30)
<1>2. (Append(g, x) \o <<>>) \o c = (g \o <<x>>) \o c
  BY AppendIsConcat, AppendProperties, ConcatEmptySeq
<1>3. ASSUME c # <<>> PROVE (g \o <<Head(c)>>) \o Tail(c) = (g \o <<>>) \o c
  <2>1. Head(c) \in S /\ Tail(c) \in Seq(S) /\ <<Head(c)>> \in Seq(S)
    BY <1>3
  <2>2. <<Head(c)>> \o Tail(c) = c
    <3>1. /\ Len(<<Head(c)>> \o Tail(c)) = Len(c) /\ <<Head(c)>> \o Tail(c) \in Seq(S)
          /\ Len(c) \in Nat \ {0}
      BY <1>3, <2>1
    <3>2. \A i \in 1..Len(c) : (<<Head(c)>> \o Tail(c))[i] = c[i]
      BY <1>3, <2>1
    <3>. QED
      BY <3>1, <3>2, SeqEqual
  <2>3. (g \o <<Head(c)>>) \o Tail(c) = g \o c
    BY <2>1, <2>2, ConcatAssociative
  <2>. QED
    BY <2>3, ConcatEmptySeq
<1>. QED
  BY <1>1, <1>2, <1>3

LEMMA StreamTypes ==
    ASSUME PluginStreamTypeOK
    PROVE  /\ listed \in BOOLEAN /\ shut \in BOOLEAN /\ ended \in BOOLEAN /\ scope \in BOOLEAN
           /\ present \in BOOLEAN /\ panicked \in BOOLEAN
           /\ channel \in Seq(Chunks) /\ Len(channel) \in Nat /\ Len(channel) <= Capacity
           /\ given \in Seq(Chunks) /\ sent \in Seq(Chunks) /\ InHand \in Seq(Chunks)
           /\ reader.chunk \in Chunks /\ Error \in Chunks
           /\ reader.at \in {"none", "reads", "offers", "cleans", "done"}
           /\ emitter.next \in 1..MaxChunks + 1
           /\ emitter.at \in {"runs", "sends", "through"}
<1>1. Error \in Chunks
  BY PluginStreamAssumption DEF Error, Chunks
<1>2. reader.chunk \in Chunks
  BY DEF PluginStreamTypeOK
<1>3. <<>> \in Seq(Chunks) /\ <<reader.chunk>> \in Seq(Chunks)
  BY <1>2
<1>. QED
  BY <1>1, <1>2, <1>3 DEF PluginStreamTypeOK, InHand

\* Every step keeps the types.
LEMMA StreamTypeStep ==
    ASSUME PluginStreamTypeOK, Positions, [PluginStreamNext]_pluginStreamVars
    PROVE  PluginStreamTypeOK' /\ Positions'
<1>0. /\ {listed, shut, ended, scope, present, panicked} \subseteq BOOLEAN
      /\ channel \in Seq(Chunks) /\ Len(channel) <= Capacity
      /\ closer \in {"none", "send", "close", "done"}
      /\ emitter \in [at: {"runs", "sends", "through"}, next: 1..MaxChunks + 1]
      /\ call \in {"in", "streams", "chunks", "failed"}
      /\ reader \in [at: {"none", "reads", "offers", "cleans", "done"}, chunk: Chunks]
      /\ given \in Seq(Chunks) /\ sent \in Seq(Chunks)
      /\ Capacity \in Nat /\ MaxChunks \in Nat
  BY PluginStreamAssumption DEF PluginStreamTypeOK
<1>1. \A error \in BOOLEAN : Close(error) =>
          {listed', shut'} \subseteq BOOLEAN /\ closer' \in {"none", "send", "close", "done"}
  BY <1>0 DEF Close
<1>2. \A x \in Chunks : HasRoom /\ Send(x) =>
          channel' \in Seq(Chunks) /\ Len(channel') <= Capacity /\ sent' \in Seq(Chunks)
  BY <1>0 DEF HasRoom, Send
<1>3. CASE BeginEmit
  BY <1>0, <1>3 DEF BeginEmit, PluginStreamTypeOK, Positions
<1>4. CASE Emit
  <2>1. CASE shut
    BY <1>0, <1>4, <2>1 DEF Emit, PluginStreamTypeOK, Positions
  <2>2. CASE ~shut
    <3>1. emitter.at = "sends" /\ Send(emitter.next) /\ HasRoom
          /\ emitter' = [at |-> "runs", next |-> emitter.next + 1]
      BY <1>4, <2>2 DEF Emit
    <3>2. emitter.next \in Chunks /\ emitter.next + 1 \in 1..MaxChunks + 1
      BY <1>0, <3>1 DEF Positions, Chunks
    <3>3. channel' \in Seq(Chunks) /\ Len(channel') <= Capacity /\ sent' \in Seq(Chunks)
      BY <1>2, <3>1, <3>2
    <3>4. UNCHANGED <<listed, shut, closer, call, ended, scope, reader, present, given, panicked>>
      BY <1>4, <2>2 DEF Emit
    <3>. QED
      BY <1>0, <3>1, <3>2, <3>3, <3>4 DEF PluginStreamTypeOK, Positions
  <2>. QED
    BY <1>0, <2>1, <2>2
<1>5. CASE \E error \in BOOLEAN : PluginCloses(error)
  BY <1>0, <1>1, <1>5 DEF PluginCloses, PluginStreamTypeOK, Positions
<1>6. CASE SendError
  <2>1. Error \in Chunks
    BY <1>0 DEF Error, Chunks
  <2>2. channel' \in Seq(Chunks) /\ Len(channel') <= Capacity /\ sent' \in Seq(Chunks)
    BY <1>2, <1>6, <2>1 DEF SendError
  <2>. QED
    BY <1>0, <1>6, <2>2 DEF SendError, PluginStreamTypeOK, Positions
<1>7. CASE CloseChannel \/ ContextEnds \/ RequestLeaves
  BY <1>0, <1>7 DEF CloseChannel, ContextEnds, RequestLeaves, PluginStreamTypeOK, Positions
<1>8. CASE CloseOnEnd
  BY <1>0, <1>1, <1>8 DEF CloseOnEnd, PluginStreamTypeOK, Positions
<1>9. CASE ReadChunk
  <2>1. CASE channel # <<>>
    <3>1. Head(channel) \in Chunks /\ Tail(channel) \in Seq(Chunks)
          /\ Len(Tail(channel)) <= Capacity
      BY <1>0, <2>1
    <3>2. /\ reader' = [at |-> "offers", chunk |-> Head(channel)] /\ channel' = Tail(channel)
          /\ UNCHANGED <<listed, shut, closer, emitter, call, ended, scope, present, given, sent,
                         panicked>>
          /\ reader.at = "reads"
      BY <1>9, <2>1 DEF ReadChunk
    <3>3. reader' \in [at: {"none", "reads", "offers", "cleans", "done"}, chunk: Chunks]
      BY <3>1, <3>2
    <3>. QED
      BY <1>0, <3>1, <3>2, <3>3 DEF PluginStreamTypeOK, Positions
  <2>2. CASE channel = <<>>
    BY <1>0, <1>9, <2>2 DEF ReadChunk, PluginStreamTypeOK, Positions
  <2>. QED
    BY <2>1, <2>2
<1>10. CASE HandOver
  <2>1. Append(given, reader.chunk) \in Seq(Chunks)
    BY <1>0
  <2>. QED
    BY <1>0, <1>10, <2>1 DEF HandOver, PluginStreamTypeOK, Positions
<1>11. CASE ReaderLeaves \/ CallReturns
  BY <1>0, <1>11 DEF ReaderLeaves, CallReturns, PluginStreamTypeOK, Positions
<1>12. CASE Clean \/ \E how \in {"chunks", "failed"} : CallEnds(how)
  BY <1>0, <1>1, <1>12 DEF Clean, CallEnds, PluginStreamTypeOK, Positions
<1>13. CASE UNCHANGED pluginStreamVars
  BY <1>0, <1>13 DEF pluginStreamVars, PluginStreamTypeOK, Positions
<1>. QED
  BY <1>3, <1>4, <1>5, <1>6, <1>7, <1>8, <1>9, <1>10, <1>11, <1>12, <1>13
     DEF PluginStreamNext, PluginStep, HostStep

\* Every step keeps the order of a close, and the callbacks' context.
LEMMA ClosedOnceStep ==
    ASSUME PluginStreamInv, [PluginStreamNext]_pluginStreamVars
    PROVE  ClosedOnce' /\ ScopeFollowsStream'
<1>0. /\ listed \in BOOLEAN /\ shut \in BOOLEAN /\ scope \in BOOLEAN
      /\ ClosedOnce /\ ScopeFollowsStream
  BY StreamTypes DEF PluginStreamInv
<1>1. \A error \in BOOLEAN : Close(error) => ClosedOnce' /\ ~listed'
  BY <1>0 DEF Close, ClosedOnce
<1>2. CASE UNCHANGED <<listed, shut, closer, scope>>
            /\ (reader.at = "done" <=> reader'.at = "done")
            /\ (call \in {"chunks", "failed"} <=> call' \in {"chunks", "failed"})
  BY <1>0, <1>2 DEF ClosedOnce, ScopeFollowsStream
<1>3. CASE \E error \in BOOLEAN : PluginCloses(error)
  BY <1>0, <1>1, <1>3 DEF PluginCloses, ScopeFollowsStream
<1>4. CASE CloseOnEnd
  BY <1>0, <1>1, <1>4 DEF CloseOnEnd, ScopeFollowsStream
<1>5. CASE SendError \/ CloseChannel
  BY <1>0, <1>5 DEF SendError, CloseChannel, ClosedOnce, ScopeFollowsStream
<1>6. CASE Clean \/ \E how \in {"chunks", "failed"} : CallEnds(how)
  BY <1>0, <1>1, <1>6 DEF Clean, CallEnds, ScopeFollowsStream
<1>7. CASE BeginEmit \/ Emit \/ ContextEnds \/ RequestLeaves \/ UNCHANGED pluginStreamVars
  BY <1>2, <1>7 DEF BeginEmit, Emit, ContextEnds, RequestLeaves, pluginStreamVars
<1>8. CASE ReadChunk \/ HandOver \/ ReaderLeaves \/ CallReturns
  <2>1. reader \in [at: {"none", "reads", "offers", "cleans", "done"}, chunk: Chunks]
    BY DEF PluginStreamInv, PluginStreamTypeOK
  <2>2. UNCHANGED <<listed, shut, closer, scope>>
        /\ (call \in {"chunks", "failed"} <=> call' \in {"chunks", "failed"})
    BY <1>8 DEF ReadChunk, HandOver, ReaderLeaves, CallReturns
  <2>3. reader.at # "done"
    BY <1>8 DEF ReadChunk, HandOver, ReaderLeaves, CallReturns, PluginStreamInv, Positions
  <2>4. reader'.at # "done"
    BY <1>8, <2>1 DEF ReadChunk, HandOver, ReaderLeaves, CallReturns
  <2>. QED
    BY <1>2, <2>2, <2>3, <2>4
<1>. QED
  BY <1>3, <1>4, <1>5, <1>6, <1>7, <1>8 DEF PluginStreamNext, PluginStep, HostStep

\* Every step keeps what was sent, or the request's context is done.
LEMMA NothingIsLostStep ==
    ASSUME PluginStreamInv, [PluginStreamNext]_pluginStreamVars PROVE NothingIsLost'
<1>0. /\ PluginStreamTypeOK /\ ClosedOnce /\ NothingIsLost
      /\ given \in Seq(Chunks) /\ sent \in Seq(Chunks) /\ InHand \in Seq(Chunks)
      /\ channel \in Seq(Chunks) /\ shut \in BOOLEAN /\ ended \in BOOLEAN
      /\ reader \in [at: {"none", "reads", "offers", "cleans", "done"}, chunk: Chunks]
      /\ Error \in Chunks
  BY StreamTypes DEF PluginStreamInv, PluginStreamTypeOK
<1>. SUFFICES ASSUME ~ended', ~ended, [PluginStreamNext]_pluginStreamVars
              PROVE  /\ present' /\ sent' = (given' \o InHand') \o channel'
                     /\ reader'.at \in {"cleans", "done"} => shut' /\ channel' = <<>>
  <2>1. ended => ended'
    BY DEF PluginStreamNext, PluginStep, HostStep, BeginEmit, Emit, PluginCloses, SendError,
       CloseChannel, CloseOnEnd, ReadChunk, HandOver, ReaderLeaves, RequestLeaves, Clean,
       ContextEnds, CallReturns, CallEnds, pluginStreamVars
  <2>. QED
    BY <2>1 DEF NothingIsLost
<1>1. /\ present /\ sent = (given \o InHand) \o channel
      /\ reader.at \in {"cleans", "done"} => shut /\ channel = <<>>
  BY <1>0 DEF NothingIsLost
<1>2. \A error \in BOOLEAN : Close(error) => (shut => shut')
  BY <1>0 DEF Close, ClosedOnce
<1>3. ASSUME UNCHANGED <<channel, given, sent, present>>, shut => shut',
             \/ reader' = reader
             \/ reader.at = "cleans" /\ reader' = [reader EXCEPT !.at = "done"]
             \/ reader.at = "none" /\ reader' = [reader EXCEPT !.at = "reads"]
      PROVE  /\ present' /\ sent' = (given' \o InHand') \o channel'
             /\ reader'.at \in {"cleans", "done"} => shut' /\ channel' = <<>>
  <2>1. InHand' = InHand /\ (reader'.at \in {"cleans", "done"} => reader.at \in {"cleans", "done"})
    BY <1>0, <1>3 DEF InHand
  <2>. QED
    BY <1>1, <1>3, <2>1
<1>4. CASE BeginEmit \/ (\E error \in BOOLEAN : PluginCloses(error)) \/ CloseChannel \/ CloseOnEnd
           \/ Clean \/ (\E how \in {"chunks", "failed"} : CallEnds(how)) \/ ContextEnds
           \/ UNCHANGED pluginStreamVars
  <2>1. CASE BeginEmit \/ CloseChannel \/ ContextEnds \/ UNCHANGED pluginStreamVars
    <3>1. UNCHANGED <<channel, given, sent, present, reader>> /\ (shut => shut')
      BY <2>1 DEF BeginEmit, CloseChannel, ContextEnds, pluginStreamVars
    <3>. QED
      BY <1>3, <3>1
  <2>2. CASE CloseOnEnd \/ \E error \in BOOLEAN : PluginCloses(error)
    <3>1. UNCHANGED <<channel, given, sent, present, reader>> /\ (shut => shut')
      BY <1>2, <2>2 DEF CloseOnEnd, PluginCloses
    <3>. QED
      BY <1>3, <3>1
  <2>3. CASE Clean
    <3>1. /\ UNCHANGED <<channel, given, sent, present>> /\ (shut => shut')
          /\ reader.at = "cleans" /\ reader' = [reader EXCEPT !.at = "done"]
      BY <1>2, <2>3 DEF Clean
    <3>. QED
      BY <1>3, <3>1
  <2>4. CASE \E how \in {"chunks", "failed"} : CallEnds(how)
    <3>1. UNCHANGED <<channel, given, sent, present, reader>> /\ (shut => shut')
      BY <1>2, <2>4 DEF CallEnds
    <3>. QED
      BY <1>3, <3>1
  <2>. QED
    BY <1>4, <2>1, <2>2, <2>3, <2>4
<1>5. ASSUME NEW x \in Chunks, ~shut, Send(x), UNCHANGED <<given, reader, shut, present>>
      PROVE  /\ present' /\ sent' = (given' \o InHand') \o channel'
             /\ reader'.at \in {"cleans", "done"} => shut' /\ channel' = <<>>
  <2>1. InHand' = InHand
    BY <1>5 DEF InHand
  <2>2. sent' = (given \o InHand) \o channel'
    BY <1>0, <1>1, <1>5, CutFacts DEF Send
  <2>. QED
    BY <1>1, <1>5, <2>1, <2>2
<1>6. CASE Emit
  <2>1. CASE shut
    <3>1. UNCHANGED <<channel, sent, given, reader, shut, present>>
      BY <1>6, <2>1 DEF Emit
    <3>. QED
      BY <1>3, <3>1
  <2>2. CASE ~shut
    <3>1. emitter.next \in Chunks
      BY <1>6, PluginStreamAssumption DEF Emit, PluginStreamInv, PluginStreamTypeOK, Positions, Chunks
    <3>. QED
      BY <1>5, <1>6, <2>2, <3>1 DEF Emit
  <2>. QED
    BY <2>1, <2>2
<1>7. CASE SendError
  BY <1>0, <1>5, <1>7 DEF SendError, ClosedOnce
<1>8. CASE ReadChunk
  <2>0. InHand = <<>> /\ UNCHANGED <<given, sent, shut, present>>
    BY <1>8 DEF InHand, ReadChunk
  <2>1. CASE channel # <<>>
    <3>1. reader' = [at |-> "offers", chunk |-> Head(channel)] /\ channel' = Tail(channel)
      BY <1>8, <2>1 DEF ReadChunk
    <3>2. InHand' = <<Head(channel)>> /\ reader'.at = "offers"
      BY <3>1 DEF InHand
    <3>. QED
      BY <1>0, <1>1, <2>0, <2>1, <3>1, <3>2, CutFacts
  <2>2. CASE channel = <<>>
    <3>1. shut /\ reader' = [reader EXCEPT !.at = "cleans"] /\ channel' = channel
      BY <1>8, <2>2 DEF ReadChunk
    <3>2. InHand' = <<>>
      BY <1>0, <3>1 DEF InHand
    <3>. QED
      BY <1>1, <2>0, <2>2, <3>1, <3>2
  <2>. QED
    BY <2>1, <2>2
<1>9. CASE HandOver
  <2>1. /\ InHand = <<reader.chunk>> /\ given' = Append(given, reader.chunk)
        /\ reader' = [reader EXCEPT !.at = "reads"] /\ UNCHANGED <<channel, sent, present>>
        /\ reader.chunk \in Chunks
    BY <1>0, <1>9 DEF HandOver, InHand
  <2>2. InHand' = <<>> /\ reader'.at = "reads"
    BY <1>0, <2>1 DEF InHand
  <2>3. (Append(given, reader.chunk) \o <<>>) \o channel = (given \o <<reader.chunk>>) \o channel
    BY <1>0, <2>1, CutFacts
  <2>. QED
    BY <1>1, <2>1, <2>2, <2>3
<1>10. CASE CallReturns
  <2>1. /\ UNCHANGED <<channel, given, sent, present, shut>>
        /\ reader.at = "none" /\ reader' = [reader EXCEPT !.at = "reads"]
    BY <1>10 DEF CallReturns, PluginStreamInv, Positions
  <2>. QED
    BY <1>3, <2>1
<1>11. CASE ReaderLeaves \/ RequestLeaves
  BY <1>11 DEF ReaderLeaves, RequestLeaves
<1>. QED
  BY <1>4, <1>6, <1>7, <1>8, <1>9, <1>10, <1>11 DEF PluginStreamNext, PluginStep, HostStep

-----------------------------------------------------------------------------
(* PluginStream: the theorems.                                             *)

\* In every state of PluginStream one close ends the stream, and until the request's
\* context ends nothing of what the plugin sent is lost or out of order.
THEOREM PluginStreamInvariance == PluginStreamSpec => []PluginStreamInv
<1>1. PluginStreamInit => PluginStreamInv
  <2>. SUFFICES ASSUME PluginStreamInit PROVE PluginStreamInv
    OBVIOUS
  <2>1. PluginStreamTypeOK
    <3>1. 1 \in 1..MaxChunks + 1 /\ Error \in Chunks /\ Len(<<>>) <= Capacity
          /\ <<>> \in Seq(Chunks)
      BY PluginStreamAssumption DEF Chunks, Error
    <3>2. /\ emitter \in [at: {"runs", "sends", "through"}, next: 1..MaxChunks + 1]
          /\ reader \in [at: {"none", "reads", "offers", "cleans", "done"}, chunk: Chunks]
      BY <3>1 DEF PluginStreamInit
    <3>. QED
      BY <3>1, <3>2 DEF PluginStreamInit, PluginStreamTypeOK
  <2>a. Positions
    BY DEF PluginStreamInit, Positions
  <2>2. ClosedOnce /\ ScopeFollowsStream
    BY DEF PluginStreamInit, ClosedOnce, ScopeFollowsStream
  <2>3. NothingIsLost
    <3>1. (<<>> \o <<>>) \o <<>> = <<>>
      OBVIOUS
    <3>. QED
      BY <3>1 DEF PluginStreamInit, NothingIsLost, InHand
  <2>. QED
    BY <2>1, <2>a, <2>2, <2>3 DEF PluginStreamInv
<1>2. PluginStreamInv /\ [PluginStreamNext]_pluginStreamVars => PluginStreamInv'
  BY StreamTypeStep, ClosedOnceStep, NothingIsLostStep DEF PluginStreamInv
<1>. QED
  BY <1>1, <1>2, PTL DEF PluginStreamSpec

\* A request that waits for the end of a plugin's stream received all that the plugin
\* sent, in order; the plugin's callbacks worked as long as the stream did; and a closed
\* stream comes to its end, nobody waiting for a step that nobody can take.
THEOREM StreamIsKept == PluginStreamSpec => []PluginStreamIsKept
<1>1. PluginStreamInv => WholeIfWaited
  <2>. SUFFICES ASSUME PluginStreamInv, reader.at = "done", ~ended PROVE given = sent
    BY DEF WholeIfWaited
  <2>1. sent = (given \o <<>>) \o <<>> /\ given \in Seq(Chunks)
    BY StreamTypes DEF PluginStreamInv, NothingIsLost, InHand
  <2>. QED
    BY <2>1, ConcatEmptySeq
<1>2. PluginStreamInv => ClosedComesToEnd
  <2>. SUFFICES ASSUME PluginStreamInv, ~listed, call = "streams", reader.at # "done"
                PROVE  HostCanStep
    BY DEF ClosedComesToEnd
  <2>1. /\ reader.at \in {"reads", "offers", "cleans"}
        /\ closer \in {"send", "close"} \/ shut
    BY DEF PluginStreamInv, PluginStreamTypeOK, Positions, ClosedOnce
  <2>2. CASE reader.at = "reads"
    <3>1. channel = <<>> => HasRoom
      BY PluginStreamAssumption DEF HasRoom
    <3>. QED
      BY <2>1, <2>2, <3>1 DEF HostCanStep
  <2>3. CASE reader.at = "offers"
    BY <2>3 DEF PluginStreamInv, NothingIsLost, HostCanStep
  <2>4. CASE reader.at = "cleans"
    BY <2>4 DEF HostCanStep
  <2>. QED
    BY <2>1, <2>2, <2>3, <2>4
<1>3. PluginStreamInv => PluginStreamIsKept
  BY <1>1, <1>2 DEF PluginStreamInv, PluginStreamIsKept
<1>. QED
  BY <1>3, PluginStreamInvariance, PTL
==============================================================================
