-------------------------- MODULE Stage1BootProofs --------------------------
(***************************************************************************)
(* That stage 1 checks, resumes and moves aside before it mounts, and kills  *)
(* what it has to kill and nothing else, for every set of filesystems, every *)
(* configuration, exit code and number of processes and failing calls.       *)
(***************************************************************************)
EXTENDS Stage1Boot, FiniteSetTheorems, TLAPS

Before == {"initrd"} \cup NameSet(EarlyMounts)

\* Where each step of run is.
LEMMA Steps ==
  ASSUME pc \in 1 .. 28
  PROVE  /\ Order[pc] = "setup" => pc = 1
         /\ Order[pc] \in {"preDevice", "modules"} => pc \in 2 .. 3
         /\ Order[pc] = "devices" => pc = 4
         /\ Order[pc] \in {"preLVM", "lvm"} => pc \in 5 .. 6
         /\ Order[pc] = "debug1devices" => pc = 7
         /\ Order[pc] = "postDevice" => pc = 8
         /\ Order[pc] = "resume" => pc = 9
         /\ Order[pc] \in {"postResume", "fsInfo"} => pc \in 10 .. 11
         /\ Order[pc] = "root" => pc = 12
         /\ Order[pc] = "checkRoot" => pc = 13
         /\ Order[pc] = "mountRoot" => pc = 14
         /\ Order[pc] = "lustrate" => pc = 15
         /\ Order[pc] = "check" => pc = 16
         /\ Order[pc] = "filesystems" => pc = 17
         /\ Order[pc] = "special" => pc = 18
         /\ Order[pc] = "postMount" => pc = 19
         /\ Order[pc] \in {"rootRule", "iso"} => pc \in 20 .. 21
         /\ Order[pc] = "persistence" => pc = 22
         /\ Order[pc] = "stopDevices" => pc = 23
         /\ Order[pc] = "term" => pc = 24
         /\ Order[pc] = "kill" => pc = 25
         /\ Order[pc] = "debug1mounts" => pc = 26
         /\ Order[pc] = "switch" => pc = 27
         /\ Order[pc] = "exec" => pc = 28
BY DEF Order

\* Of the exit codes of fsck only two are good.
LEMMA GoodVerdict ==
  ASSUME NEW code \in FsckCodes, Verdict(code) = "good"
  PROVE  code \in {0, 1}
<1>1. code # Signal /\ code \in Nat /\ ~Bit(code, 2) /\ ~Bit(code, 4) /\ code < 8
  BY BoundsOK DEF Verdict
<1>2. code \in {0, 1, 2, 3, 4, 5, 6, 7}
  BY <1>1
<1> QED BY <1>1, <1>2 DEF Bit
----------------------------------------------------------------------------
\* What has been mounted and checked when the boot has come to a step: nothing before the
\* root is, nothing but the root before the others are checked.
OrderInv ==
  /\ pc \in 1 .. 28 /\ i \in Nat \ {0}
  /\ outcome = "resumed" => pc = 9
  /\ pc <= 12 => checked = {}
  /\ pc <= 14 => DOMAIN tree \subseteq Before
  /\ pc <= 16 => DOMAIN tree \subseteq Before \cup {"root"}
  /\ pc > 13 /\ config.check => "root" \in checked /\ fsck \in {0, 1}
  /\ pc = 16 => \A k \in 1 .. Len(Filesystems) :
       k < i /\ Filesystems[k].check => Filesystems[k].name \in checked
  /\ pc > 16 => \A k \in 1 .. Len(Filesystems) :
       Filesystems[k].check => Filesystems[k].name \in checked

\* StepsInOrder holds in every boot: an image of hibernation is started before anything is
\* checked or mounted, lustrate has the root for itself, and nothing that needs a check is
\* mounted before it had one, the root not unless fsck found or left it without errors.
THEOREM OrderAlways == Spec => []StepsInOrder
<1>1. Init => OrderInv
  <2> SUFFICES ASSUME Init PROVE OrderInv
    OBVIOUS
  <2>1. DOMAIN tree = {"initrd"}
    BY DEF Init
  <2>2. pc = 1 /\ i = 1 /\ outcome = "running" /\ checked = {}
    BY DEF Init
  <2> QED BY <2>1, <2>2 DEF OrderInv, Before
<1>2. OrderInv => StepsInOrder
  <2> SUFFICES ASSUME OrderInv PROVE StepsInOrder
    OBVIOUS
  <2>1. "root" \notin Before
    BY DEF Before, NameSet, EarlyMounts, Early
  <2>2. \A k \in 1 .. Len(Filesystems) :
          Filesystems[k].name \in NameSet(Filesystems) /\ Filesystems[k].name \notin Before \cup {"root"}
    BY NamesOK DEF Before, NameSet
  <2>3. ResumeFirst
    BY DEF OrderInv, ResumeFirst, Before
  <2>4. LustrateAlone
    <3> SUFFICES ASSUME At("lustrate") PROVE DOMAIN tree \cap NameSet(Filesystems) = {}
      BY DEF LustrateAlone
    <3>1. pc = 15
      BY Steps DEF OrderInv, At
    <3> QED BY <3>1, NamesOK DEF OrderInv, Before
  <2>5. CheckedBeforeMounted
    <3>1. \A k \in 1 .. Len(Filesystems) :
            Filesystems[k].check /\ Filesystems[k].name \in DOMAIN tree => Filesystems[k].name \in checked
      <4> SUFFICES ASSUME NEW k \in 1 .. Len(Filesystems),
                          Filesystems[k].check, Filesystems[k].name \in DOMAIN tree
                   PROVE  Filesystems[k].name \in checked
        OBVIOUS
      <4>1. ~(DOMAIN tree \subseteq Before \cup {"root"})
        BY <2>2
      <4>2. pc > 16
        BY <4>1 DEF OrderInv
      <4> QED BY <4>2 DEF OrderInv
    <3>2. "root" \in DOMAIN tree /\ config.check => "root" \in checked /\ fsck \in {0, 1}
      BY <2>1 DEF OrderInv
    <3> QED BY <3>1, <3>2 DEF CheckedBeforeMounted
  <2> QED BY <2>3, <2>4, <2>5 DEF StepsInOrder
\* Every step keeps it: most change neither mounts nor what was checked (StaysOrGoesOn), and leave
\* the places where either must not lag behind to the steps below.
<1>3. OrderInv /\ [Next]_vars => OrderInv'
  <2> SUFFICES ASSUME OrderInv, [Next]_vars PROVE OrderInv'
    OBVIOUS
  <2> USE DEF OrderInv, procVars, fsckVars
  <2>p. pc \in 1 .. 28 /\ i \in Nat \ {0} /\ Len(Filesystems) \in Nat
    BY MountsOK
  <2>a. ASSUME NEW m, NEW path
        PROVE  DOMAIN Attach(tree, m, "initrd", path) = DOMAIN tree \cup {m}
    BY DEF Attach
  <2> DEFINE StaysOrGoesOn == /\ tree' = tree /\ config' = config /\ fsck' = fsck /\ checked' = checked
                        /\ \/ pc' = pc + 1 /\ i' = 1 /\ outcome' = "running" /\ pc \notin {13, 16, 28}
                           \/ pc' = pc /\ i' = i /\ outcome' # "resumed"
  <2>s. ASSUME StaysOrGoesOn PROVE OrderInv'
    <3>1. CASE pc' = pc /\ i' = i
      BY <2>s, <3>1
    <3>2. CASE pc' = pc + 1 /\ pc \notin {13, 16, 28}
      <4>1. /\ pc' \in 1 .. 28 /\ i' = 1 /\ outcome' # "resumed"
            /\ pc' > 13 => pc > 13
            /\ pc' > 16 => pc > 16
            /\ \A b \in {12, 14, 16} : pc' <= b => pc <= b
        BY <2>p, <2>s, <3>2
      <4>2. pc' = 16 => \A k \in 1 .. Len(Filesystems) : ~(k < i')
        BY <4>1
      <4> QED BY <2>s, <4>1, <4>2
    <3> QED BY <2>s, <3>1, <3>2
  <2>1. ASSUME Step \/ Devices \/ StopDevices PROVE StaysOrGoesOn
    <3>1. CASE Step
      BY <2>p, <3>1, Steps DEF Step, Fallible, Tolerant, At, GoOn, Return
    <3>2. CASE Devices \/ StopDevices
      BY <2>p, <3>2, Steps DEF Devices, StopDevices, At, GoOn, Return
    <3> QED BY <2>1, <3>1, <3>2
  <2>2. ASSUME Checkpoint \/ FindRoot \/ PostMount \/ ExecInit PROVE StaysOrGoesOn
    BY <2>p, <2>2, Steps DEF Checkpoint, FindRoot, PostMount, ExecInit, Fail, FailInto, At, GoOn, Return
  <2>3. ASSUME Term \/ Kill \/ Fork \/ Exec \/ Exits \/ ShellEnds PROVE StaysOrGoesOn
    BY <2>p, <2>3, Steps DEF Term, Kill, Fork, Exec, Exits, ShellEnds, PassFails, At, GoOn, Return
  <2>4. CASE Setup
    <3>1. /\ pc = 1 /\ config' = config /\ fsck' = fsck /\ checked' = checked
          /\ \/ pc' = 2 /\ i' = 1 /\ outcome' = outcome
             \/ pc' = 1 /\ i' \in {i, i + 1} /\ outcome' \in {outcome, "panic"}
      BY <2>p, <2>4, Steps DEF Setup, At, GoOn, Return, Again
    <3>2. DOMAIN tree' \subseteq Before
      <4>1. DOMAIN tree \subseteq Before
        BY <3>1
      <4>2. CASE tree' = tree
        BY <4>1, <4>2
      <4>3. CASE i \in 1 .. Len(EarlyMounts) /\ tree' = Attach(tree, EarlyMounts[i].name, "initrd", EarlyMounts[i].at)
        <5>1. EarlyMounts[i].name \in Before
          BY <4>3 DEF Before, NameSet
        <5>2. DOMAIN tree' = DOMAIN tree \cup {EarlyMounts[i].name}
          BY <2>a, <4>3, Zenon
        <5> QED BY <4>1, <5>1, <5>2
      <4>4. Len(EarlyMounts) \in Nat
        BY DEF EarlyMounts
      <4>5. \/ tree' = tree
            \/ i <= Len(EarlyMounts) /\ tree' = Attach(tree, EarlyMounts[i].name, "initrd", EarlyMounts[i].at)
        BY <2>p, <2>4, <4>4 DEF Setup
      <4> QED BY <2>p, <4>2, <4>3, <4>4, <4>5
    <3> QED BY <2>p, <3>1, <3>2
  <2>5. CASE Resume
    BY <2>p, <2>5, Steps DEF Resume, At, GoOn
  <2>6. CASE CheckRoot
    <3>1. /\ pc = 13 /\ tree' = tree /\ config' = config
          /\ \/ pc' = 14 /\ i' = 1 /\ outcome' = "running"
             \/ pc' = 13 /\ i' = i /\ outcome' # "resumed"
      BY <2>p, <2>6, Steps DEF CheckRoot, At, GoOn, Fail, FailInto
    <3>2. pc' = 14 /\ config.check => "root" \in checked' /\ fsck' \in {0, 1}
      <4> SUFFICES ASSUME pc' = 14, config.check PROVE "root" \in checked' /\ fsck' \in {0, 1}
        OBVIOUS
      <4>1. PICK code \in FsckCodes :
              /\ fsck' = code /\ checked' = checked \cup {"root"}
              /\ CASE Verdict(code) = "good" -> GoOn
                   [] Verdict(code) = "bad"  -> Fail
                   [] OTHER -> Fail \/ (outcome' = "reboot" /\ UNCHANGED <<pc, i>>)
        BY <2>6 DEF CheckRoot
      <4>2. Verdict(code) = "good"
        BY <3>1, <4>1 DEF Fail, GoOn
      <4> QED BY <4>1, <4>2, GoodVerdict
    <3> QED BY <2>p, <3>1, <3>2
  <2>7. CASE MountRoot
    <3>1. /\ pc = 14 /\ config' = config /\ fsck' = fsck /\ checked' = checked
          /\ \/ pc' = 15 /\ i' = 1 /\ outcome' = "running" /\ tree' = Attach(tree, "root", "initrd", Target)
             \/ pc' = 14 /\ i' = i /\ outcome' # "resumed" /\ tree' = tree
      BY <2>p, <2>7, Steps DEF MountRoot, At, GoOn, Fail, FailInto
    <3>2. DOMAIN tree' \subseteq Before \cup {"root"}
      <4>1. DOMAIN Attach(tree, "root", "initrd", Target) = DOMAIN tree \cup {"root"}
        BY <2>a, Zenon
      <4> QED BY <3>1, <4>1
    <3>3. pc' = 14 => DOMAIN tree' \subseteq Before
      BY <3>1
    <3> QED BY <2>p, <3>1, <3>2, <3>3
  <2>8. CASE CheckFs
    <3>1. /\ pc = 16 /\ tree' = tree /\ config' = config /\ fsck' = fsck /\ checked \subseteq checked'
          /\ \/ i > Len(Filesystems) /\ pc' = 17 /\ i' = 1 /\ outcome' = "running"
             \/ /\ i <= Len(Filesystems) /\ pc' = 16 /\ i' = i + 1 /\ outcome' = "running"
                /\ Filesystems[i].check => Filesystems[i].name \in checked'
             \/ pc' = 16 /\ i' = i /\ outcome' = "reboot"
      BY <2>p, <2>8, Steps DEF CheckFs, At, GoOn, Again
    <3> QED BY <2>p, <3>1
  <2>9. CASE MountFs \/ MountSpecial \/ Persistence \/ SwitchRoot
    <3>1. /\ pc \in {17, 18, 22, 27} /\ config' = config /\ fsck' = fsck /\ checked' = checked
          /\ \/ pc' = pc + 1 /\ i' = 1 /\ outcome' = "running"
             \/ pc' = pc /\ i' \in {i, i + 1} /\ outcome' # "resumed"
      BY <2>p, <2>9, Steps DEF MountFs, MountSpecial, Persistence, SwitchRoot, At, GoOn, Again, Fail, FailInto, Return
    <3>2. CASE pc' = 16 /\ i' = i + 1
      BY <2>p, <3>1, <3>2
    <3>3. CASE pc' = 17
      BY <2>p, <3>1, <3>3
    <3>4. CASE pc' = 16 /\ i' = i
      BY <2>p, <3>1, <3>4
    <3> QED BY <3>1, <3>2, <3>3, <3>4
  <2>10. CASE UNCHANGED vars
    BY <2>10 DEF vars
  <2> QED BY <2>s, <2>1, <2>2, <2>3, <2>4, <2>5, <2>6, <2>7, <2>8, <2>9, <2>10 DEF Next, Run
<1> QED BY <1>1, <1>2, <1>3, PTL DEF Spec
----------------------------------------------------------------------------
\* Min is the least of a set of numbers: the pass over /proc meets the pids in order.
LEMMA MinLeast ==
  ASSUME NEW S \in SUBSET Nat, S # {}
  PROVE  Min(S) \in S /\ \A y \in S : Min(S) <= y
<1> DEFINE T == {0 .. n : n \in S}
<1>1. T \subseteq FiniteSubsetsOf(Nat) /\ T # {}
  <2>1. \A n \in S : IsFiniteSet(0 .. n) /\ 0 .. n \in SUBSET Nat
    BY FS_Interval
  <2> QED BY <2>1 DEF FiniteSubsetsOf
<1>2. PICK x \in T : \A y \in T : <<y, x>> \notin StrictSubsetOrdering(Nat)
  <2> HIDE DEF T
  <2> QED BY <1>1, WFMin, FS_StrictSubsetOrderingWellFounded
<1>3. PICK n \in S : x = 0 .. n
  OBVIOUS
<1>4. \A m \in S : ~(m < n)
  <2> SUFFICES ASSUME NEW m \in S, m < n PROVE FALSE
    OBVIOUS
  <2>1. 0 .. m \in T /\ 0 .. m \subseteq 0 .. n /\ n \in 0 .. n /\ n \notin 0 .. m
    OBVIOUS
  <2>2. 0 .. m \in SUBSET Nat /\ 0 .. n \in SUBSET Nat
    OBVIOUS
  <2> QED BY <1>2, <1>3, <2>1, <2>2 DEF StrictSubsetOrdering
<1>5. \A m \in S : m \in Nat /\ n \in Nat
  OBVIOUS
<1> HIDE DEF T
<1>6. \A m \in S : n <= m
  BY <1>4, <1>5
<1> QED BY <1>6 DEF Min

\* The first of the processes is the device manager; there are none before it.
ProcType == [kind : {"plain", "daemon", "helper"}, alive : BOOLEAN, termed : BOOLEAN]
ProcsInv ==
  /\ pc \in 1 .. 28 /\ procs \in Seq(ProcType)
  /\ pc < 4 \/ (pc = 4 /\ outcome = "running") => procs = <<>>
  /\ pc > 4 => Len(procs) > 0
  /\ Len(procs) > 0 => procs[1].kind = "plain"
  /\ cursor \in 0 .. Len(procs) /\ daemons \subseteq 1 .. Len(procs)
  /\ outcome = "init" => pc = 28

\* What a pass has met it has dealt with, whatever was started behind its back: it takes
\* a pid above the cursor. And nobody but the device manager is asked to terminate before.
FirstPassBegun == pc > 24 \/ (pc = 24 /\ cursor > 0)
SortInv ==
  /\ pc < 24 => cursor = 0
  /\ ~FirstPassBegun => \A k \in 1 .. Len(procs) : procs[k].termed => k = 1
  /\ FirstPassBegun =>
       \A k \in daemons : procs[k].kind = "daemon" /\ procs[k].alive /\ ~procs[k].termed
  /\ pc = 25 => \A k \in Alive : k <= cursor => procs[k].kind # "plain"
  /\ pc > 25 => \A k \in Alive : procs[k].kind # "plain"

\* Of the processes of the initrd exactly those live on that may be needed: when the init of
\* the new root runs, no other is alive, and no storage daemon was killed or asked to terminate,
\* whatever the processes start, become and leave while the passes over /proc go on.
THEOREM ProcessesAlwaysSorted == Spec => []ProcessesSorted
<1> DEFINE IInv == ProcsInv /\ SortInv
<1>1. Init => IInv
  BY DEF Init, ProcsInv, SortInv, FirstPassBegun, Alive
<1>2. IInv => ProcessesSorted
  BY DEF ProcsInv, SortInv, FirstPassBegun, ProcessesSorted, NothingLeft, DaemonsSpared
<1>3. IInv /\ [Next]_vars => IInv'
  <2> SUFFICES ASSUME ProcsInv, SortInv, [Next]_vars PROVE ProcsInv' /\ SortInv'
    OBVIOUS
  <2> USE DEF procVars
  <2>p. pc \in 1 .. 28 /\ procs \in Seq(ProcType) /\ Len(procs) \in Nat /\ cursor \in Nat
    BY DEF ProcsInv
  <2>t. \A k \in 1 .. Len(procs) : procs[k] \in ProcType
    BY <2>p
  \* Most steps leave the processes alone.
  <2> DEFINE Elsewhere ==
        /\ procs' = procs /\ cursor' = cursor /\ daemons' = daemons
        /\ \/ pc' = pc + 1 /\ outcome' = outcome /\ pc \notin {4, 24, 25, 28}
           \/ pc' = pc /\ (outcome = "running" \/ outcome' = outcome \/ outcome' = "halt")
        /\ outcome' = "init" => outcome = "init" \/ pc = 28
        /\ outcome' = "running" => outcome = "running"
  <2>s. ASSUME Elsewhere PROVE ProcsInv' /\ SortInv'
    <3>0. pc' = pc \/ (pc' = pc + 1 /\ pc \notin {4, 24, 25, 28})
      BY <2>s
    <3>a. pc \in 1 .. 28
      BY <2>p
    <3>b. pc' \in 1 .. 28
      BY <3>a, <3>0
    <3>1. pc' \in 1 .. 28 /\ (pc' = pc \/ (pc' = pc + 1 /\ pc \notin {4, 24, 25, 28}))
      BY <3>b, <3>0
    <3>2. ProcsInv'
      BY <2>p, <2>s, <3>1 DEF ProcsInv
    <3>3. FirstPassBegun' <=> FirstPassBegun
      BY <2>p, <2>s, <3>1 DEF FirstPassBegun, SortInv
    <3> QED BY <2>p, <2>s, <3>1, <3>2, <3>3 DEF SortInv, Alive
  <2>1. ASSUME Step \/ Setup \/ Checkpoint \/ Resume PROVE Elsewhere
    BY <2>1, <2>p, Steps DEF Step, Setup, Checkpoint, Resume, Fallible, Tolerant, At, GoOn, Again,
                             Fail, FailInto, Return
  <2>2. ASSUME FindRoot \/ CheckRoot \/ MountRoot \/ CheckFs PROVE Elsewhere
    BY <2>2, <2>p, Steps DEF FindRoot, CheckRoot, MountRoot, CheckFs, At, GoOn, Again, Fail, FailInto
  <2>3. ASSUME MountFs \/ MountSpecial \/ Persistence \/ SwitchRoot PROVE Elsewhere
    BY <2>3, <2>p, Steps DEF MountFs, MountSpecial, Persistence, SwitchRoot, At, GoOn, Again, Fail,
                             FailInto, Return
  <2>4. ASSUME ExecInit \/ ShellEnds \/ UNCHANGED vars PROVE Elsewhere
    BY <2>4, <2>p, Steps DEF ExecInit, ShellEnds, vars, At, Fail, FailInto
  <2>5. CASE Devices
    <3>1. /\ pc = 4 /\ procs = <<>> /\ procs' = Append(procs, Process("plain"))
          /\ cursor' = cursor /\ daemons' = daemons /\ outcome' # "init"
          /\ pc' = 5 \/ (pc' = 4 /\ outcome' = "panic")
      BY <2>5, <2>p, Steps DEF Devices, At, GoOn, Return, ProcsInv
    <3>2. Process("plain") \in ProcType
      BY DEF Process, ProcType
    <3>3. cursor = 0 /\ daemons = {}
      BY <3>1 DEF ProcsInv
    <3>4. procs' \in Seq(ProcType) /\ Len(procs') = 1 /\ procs'[1].kind = "plain"
      BY <2>p, <3>1, <3>2 DEF Process
    <3> QED BY <3>1, <3>3, <3>4 DEF ProcsInv, SortInv, FirstPassBegun
  <2>6. CASE StopDevices
    <3>1. pc = 23 /\ pc' = 24 /\ procs' = [procs EXCEPT ![1].termed = TRUE] /\ outcome' = "running"
          /\ cursor' = cursor /\ daemons' = daemons /\ cursor = 0
      BY <2>6, <2>p, Steps DEF StopDevices, At, GoOn, SortInv
    <3>2. Len(procs) > 0 /\ procs[1] \in ProcType
      BY <3>1, <2>t DEF ProcsInv
    <3>3. [procs[1] EXCEPT !.termed = TRUE] \in ProcType
      BY <3>2 DEF ProcType
    <3>4. /\ procs' \in Seq(ProcType) /\ Len(procs') = Len(procs)
          /\ procs'[1].kind = procs[1].kind
          /\ \A k \in 1 .. Len(procs) : k # 1 => procs'[k] = procs[k]
      <4>1. procs' = [procs EXCEPT ![1] = [procs[1] EXCEPT !.termed = TRUE]]
        BY <3>1
      <4>2. [procs[1] EXCEPT !.termed = TRUE].kind = procs[1].kind
        BY <3>2 DEF ProcType
      <4>3. 1 \in 1 .. Len(procs)
        BY <2>p, <3>2
      <4> QED BY <2>p, <3>3, <4>1, <4>2, <4>3
    <3> QED BY <2>p, <3>1, <3>2, <3>4 DEF ProcsInv, SortInv, FirstPassBegun
  <2>7. CASE PostMount
    <3>1. /\ pc = 19 /\ cursor' = cursor /\ daemons' = daemons /\ outcome' # "init" /\ cursor = 0
          /\ pc' \in {19, 20}
          /\ procs' = procs \/ \E kind \in {"plain", "daemon"} : procs' = Append(procs, Process(kind))
      BY <2>7, <2>p, Steps DEF PostMount, At, GoOn, Return, SortInv
    <3>2. CASE procs' = procs
      BY <2>p, <3>1, <3>2 DEF ProcsInv, SortInv, FirstPassBegun
    <3>3. ASSUME NEW kind \in {"plain", "daemon"}, procs' = Append(procs, Process(kind))
          PROVE  ProcsInv' /\ SortInv'
      <4>1. Process(kind) \in ProcType /\ ~Process(kind).termed
        BY DEF Process, ProcType
      <4>2. /\ procs' \in Seq(ProcType) /\ Len(procs') = Len(procs) + 1
            /\ ~procs'[Len(procs) + 1].termed
            /\ \A k \in 1 .. Len(procs) : procs'[k] = procs[k]
        BY <2>p, <3>3, <4>1
      <4>3. Len(procs) > 0
        BY <3>1 DEF ProcsInv
      <4> QED BY <2>p, <3>1, <4>2, <4>3 DEF ProcsInv, SortInv, FirstPassBegun
    <3> QED BY <3>1, <3>2, <3>3
  \* The passes: the next in line is the first above the cursor that lives.
  <2>m. ASSUME Ahead # {}
        PROVE  /\ Min(Ahead) \in 1 .. Len(procs) /\ Min(Ahead) > cursor /\ procs[Min(Ahead)].alive
               /\ \A k \in Alive : k < Min(Ahead) => k <= cursor
    <3>1. Ahead \in SUBSET Nat
      BY <2>p DEF Ahead, Alive
    <3>2. Min(Ahead) \in Ahead /\ \A y \in Ahead : Min(Ahead) <= y
      BY <2>m, <3>1, MinLeast
    <3>3. \A k \in Alive : k \in Nat /\ (k > cursor => k \in Ahead)
      BY <2>p DEF Ahead, Alive
    <3>4. \A k \in Alive : k < Min(Ahead) => k <= cursor
      <4> SUFFICES ASSUME NEW k \in Alive, k < Min(Ahead), k > cursor PROVE FALSE
        BY <2>p, <3>3
      <4>1. k \in Ahead /\ k \in Nat /\ Min(Ahead) \in Nat
        BY <3>1, <3>2, <3>3
      <4>2. Min(Ahead) <= k
        BY <3>2, <4>1
      <4> QED BY <4>1, <4>2
    <3>5. Min(Ahead) \in 1 .. Len(procs) /\ Min(Ahead) > cursor /\ procs[Min(Ahead)].alive
      BY <3>2 DEF Ahead, Alive
    <3> QED BY <3>4, <3>5
  <2>8. CASE Term
    <3>1. pc = 24 /\ outcome = "running"
      BY <2>8, <2>p, Steps DEF Term, At
    <3>2. daemons' = IF cursor = 0 THEN {k \in Alive : procs[k].kind = "daemon"} ELSE daemons
      BY <2>8 DEF Term
    <3>3. daemons' \subseteq 1 .. Len(procs)
      BY <3>2 DEF Alive, ProcsInv
    <3>4. \A k \in daemons' : procs[k].kind = "daemon" /\ procs[k].alive /\ ~procs[k].termed
      <4>1. CASE cursor = 0
        <5>1. \A k \in 1 .. Len(procs) : procs[k].termed => k = 1
          BY <3>1, <4>1 DEF SortInv, FirstPassBegun
        <5>2. Len(procs) > 0 => procs[1].kind = "plain"
          BY DEF ProcsInv
        <5> QED BY <2>p, <3>2, <4>1, <5>1, <5>2 DEF Alive
      <4>2. CASE cursor # 0
        BY <2>p, <3>1, <3>2, <4>2 DEF SortInv, FirstPassBegun
      <4> QED BY <4>1, <4>2
    <3>5. CASE Ahead = {} /\ GoOn /\ cursor' = 0 /\ procs' = procs
      <4>1. pc' = 25 /\ outcome' = "running" /\ cursor' = 0 /\ procs' = procs
        BY <3>1, <3>5 DEF GoOn
      <4>2. \A k \in 1 .. Len(procs) : ~(k <= 0)
        BY <2>p
      <4> QED BY <2>p, <3>1, <3>3, <3>4, <4>1, <4>2 DEF ProcsInv, SortInv, FirstPassBegun, Alive
    <3>6. CASE /\ Ahead # {} /\ cursor' = Min(Ahead) /\ UNCHANGED <<pc, i, outcome>>
               /\ procs' = IF Spared(Min(Ahead)) THEN procs
                           ELSE [procs EXCEPT ![Min(Ahead)].termed = TRUE]
      <4> DEFINE m == Min(Ahead)
      <4>1. /\ pc' = 24 /\ outcome' = "running" /\ cursor' = m
            /\ procs' = IF Spared(m) THEN procs ELSE [procs EXCEPT ![m].termed = TRUE]
        BY <3>1, <3>6
      <4>2. m \in 1 .. Len(procs) /\ m > 0
        BY <2>p, <2>m, <3>6
      <4> HIDE DEF m
      <4>3. [procs[m] EXCEPT !.termed = TRUE] \in ProcType
        BY <2>t, <4>2 DEF ProcType
      <4>4. [procs[m] EXCEPT !.termed = TRUE].kind = procs[m].kind
        BY <2>t, <4>2 DEF ProcType
      <4>5. /\ procs' \in Seq(ProcType) /\ Len(procs') = Len(procs)
            /\ \A k \in 1 .. Len(procs) : procs'[k].kind = procs[k].kind
            /\ \A k \in 1 .. Len(procs) : procs[k].kind = "daemon" => procs'[k] = procs[k]
        <5>1. CASE Spared(m)
          BY <2>p, <4>1, <5>1
        <5>2. CASE ~Spared(m)
          <6>1. procs' = [procs EXCEPT ![m] = [procs[m] EXCEPT !.termed = TRUE]]
            BY <4>1, <5>2
          <6>2. procs[m].kind # "daemon"
            BY <5>2 DEF Spared
          <6> QED BY <2>p, <4>2, <4>3, <4>4, <6>1, <6>2
        <5> QED BY <5>1, <5>2
      <4>6. ProcsInv'
        BY <2>p, <3>1, <3>3, <4>1, <4>2, <4>5 DEF ProcsInv
      <4>7. \A k \in daemons' : procs'[k] = procs[k]
        BY <3>3, <3>4, <4>5
      <4>8. FirstPassBegun' /\ pc' = 24
        BY <4>1, <4>2 DEF FirstPassBegun
      <4>9. SortInv'
        BY <3>4, <4>7, <4>8 DEF SortInv
      <4> QED BY <4>6, <4>9
    \* ... and where the pass fails, nobody is met.
    <3>7. CASE pc' = 24 /\ outcome' = "panic" /\ procs' = procs /\ cursor' = cursor
      <4>1. ProcsInv'
        BY <2>p, <3>1, <3>3, <3>7 DEF ProcsInv
      <4>2. SortInv'
        BY <3>1, <3>4, <3>7 DEF SortInv, FirstPassBegun
      <4> QED BY <4>1, <4>2
    <3>8. \/ Ahead = {} /\ GoOn /\ cursor' = 0 /\ procs' = procs
          \/ /\ Ahead # {} /\ cursor' = Min(Ahead) /\ UNCHANGED <<pc, i, outcome>>
             /\ procs' = IF Spared(Min(Ahead)) THEN procs
                         ELSE [procs EXCEPT ![Min(Ahead)].termed = TRUE]
          \/ pc' = 24 /\ outcome' = "panic" /\ procs' = procs /\ cursor' = cursor
      BY <2>8, <3>1 DEF Term, PassFails, Return
    <3> QED BY <3>5, <3>6, <3>7, <3>8
  <2>9. CASE Kill
    <3>1. pc = 25 /\ outcome = "running" /\ daemons' = daemons
      BY <2>9, <2>p, Steps DEF Kill, At
    <3>2. \A k \in daemons : procs[k].kind = "daemon" /\ procs[k].alive /\ ~procs[k].termed
      BY <3>1 DEF SortInv, FirstPassBegun
    <3>5. CASE Ahead = {} /\ GoOn /\ cursor' = cursor /\ procs' = procs
      <4>1. pc' = 26 /\ outcome' = "running" /\ cursor' = cursor /\ procs' = procs
        BY <3>1, <3>5 DEF GoOn
      <4>2. \A k \in Alive : k <= cursor
        BY <2>p, <3>5 DEF Ahead, Alive
      <4> QED BY <2>p, <3>1, <3>2, <4>1, <4>2 DEF ProcsInv, SortInv, FirstPassBegun, Alive
    <3>6. CASE /\ Ahead # {} /\ cursor' = Min(Ahead) /\ UNCHANGED <<pc, i, outcome>>
               /\ procs' = IF Spared(Min(Ahead)) THEN procs
                           ELSE [procs EXCEPT ![Min(Ahead)].alive = FALSE]
      <4> DEFINE m == Min(Ahead)
      <4>1. /\ pc' = 25 /\ outcome' = "running" /\ cursor' = m
            /\ procs' = IF Spared(m) THEN procs ELSE [procs EXCEPT ![m].alive = FALSE]
        BY <3>1, <3>6
      <4>2. m \in 1 .. Len(procs) /\ m > 0 /\ \A k \in Alive : k < m => k <= cursor
        BY <2>p, <2>m, <3>6
      <4> HIDE DEF m
      <4>3. [procs[m] EXCEPT !.alive = FALSE] \in ProcType
        BY <2>t, <4>2 DEF ProcType
      <4>4. /\ [procs[m] EXCEPT !.alive = FALSE].kind = procs[m].kind
            /\ ~[procs[m] EXCEPT !.alive = FALSE].alive
        BY <2>t, <4>2 DEF ProcType
      <4>5. /\ procs' \in Seq(ProcType) /\ Len(procs') = Len(procs)
            /\ \A k \in 1 .. Len(procs) : procs'[k].kind = procs[k].kind
            /\ \A k \in 1 .. Len(procs) : procs[k].kind = "daemon" => procs'[k] = procs[k]
            /\ \A k \in 1 .. Len(procs) : k # m => procs'[k] = procs[k]
            /\ procs'[m].alive => procs'[m].kind = "daemon"
        <5>1. CASE Spared(m)
          BY <2>p, <4>1, <5>1 DEF Spared
        <5>2. CASE ~Spared(m)
          <6>1. procs' = [procs EXCEPT ![m] = [procs[m] EXCEPT !.alive = FALSE]]
            BY <4>1, <5>2
          <6>2. procs[m].kind # "daemon"
            BY <5>2 DEF Spared
          <6> QED BY <2>p, <4>2, <4>3, <4>4, <6>1, <6>2
        <5> QED BY <5>1, <5>2
      <4>6. ProcsInv'
        BY <2>p, <3>1, <4>1, <4>2, <4>5 DEF ProcsInv
      <4>7. \A k \in Alive' : k <= m => procs'[k].kind # "plain"
        <5> SUFFICES ASSUME NEW k \in 1 .. Len(procs), procs'[k].alive, k <= m
                     PROVE  procs'[k].kind # "plain"
          BY <4>5 DEF Alive
        <5>1. CASE k = m
          BY <4>5, <5>1
        <5>2. CASE k # m
          <6>1. k \in Alive /\ k < m
            BY <2>p, <4>2, <4>5, <5>2 DEF Alive
          <6> QED BY <3>1, <4>2, <4>5, <5>2, <6>1 DEF SortInv
        <5> QED BY <5>1, <5>2
      <4>8. \A k \in daemons : procs'[k] = procs[k]
        BY <3>2, <4>5 DEF ProcsInv
      <4>9. FirstPassBegun' /\ pc' = 25
        BY <4>1 DEF FirstPassBegun
      <4>10. \A k \in daemons' : procs'[k].kind = "daemon" /\ procs'[k].alive /\ ~procs'[k].termed
        BY <3>1, <3>2, <4>8
      <4>11. \A k \in Alive' : k <= cursor' => procs'[k].kind # "plain"
        BY <4>1, <4>7
      <4>12. SortInv'
        BY <4>9, <4>10, <4>11 DEF SortInv
      <4> QED BY <4>6, <4>12
    <3>7. CASE pc' = 25 /\ outcome' = "panic" /\ procs' = procs /\ cursor' = cursor
      <4>1. ProcsInv'
        BY <2>p, <3>1, <3>7 DEF ProcsInv
      <4>2. SortInv'
        BY <3>1, <3>7 DEF SortInv, FirstPassBegun, Alive
      <4> QED BY <4>1, <4>2
    <3>8. \/ Ahead = {} /\ GoOn /\ cursor' = cursor /\ procs' = procs
          \/ /\ Ahead # {} /\ cursor' = Min(Ahead) /\ UNCHANGED <<pc, i, outcome>>
             /\ procs' = IF Spared(Min(Ahead)) THEN procs
                         ELSE [procs EXCEPT ![Min(Ahead)].alive = FALSE]
          \/ pc' = 25 /\ outcome' = "panic" /\ procs' = procs /\ cursor' = cursor
      BY <2>9, <3>1 DEF Kill, KillVictims, PassFails, Return
    <3> QED BY <3>5, <3>6, <3>7, <3>8
  <2>10. CASE Fork
    <3>1. /\ pc \in {24, 25} /\ outcome = "running" /\ UNCHANGED <<pc, outcome, cursor, daemons>>
      BY <2>10, <2>p, Steps DEF Fork, At
    <3>2. PICK kind \in {"plain", "daemon", "helper"} : procs' = Append(procs, Process(kind))
      <4>1. PICK k \in Alive :
              procs' = Append(procs, Process(IF procs[k].kind = "daemon" THEN "helper" ELSE procs[k].kind))
        BY <2>10 DEF Fork
      <4>2. procs[k].kind \in {"plain", "daemon", "helper"}
        BY <2>t DEF Alive, ProcType
      <4> QED BY <4>1, <4>2
    <3>3. Process(kind) \in ProcType /\ ~Process(kind).termed
      BY DEF Process, ProcType
    <3>4. /\ procs' \in Seq(ProcType) /\ Len(procs') = Len(procs) + 1
          /\ ~procs'[Len(procs) + 1].termed
          /\ \A k \in 1 .. Len(procs) : procs'[k] = procs[k]
      BY <2>p, <3>2, <3>3
    <3>5. Len(procs) > 0 /\ cursor \in 0 .. Len(procs) /\ daemons \subseteq 1 .. Len(procs)
      BY <3>1 DEF ProcsInv
    <3>6. ProcsInv'
      BY <2>p, <3>1, <3>4, <3>5 DEF ProcsInv
    <3>7. \A k \in Alive' : k <= cursor => k \in Alive /\ procs'[k] = procs[k]
      BY <2>p, <3>4, <3>5 DEF Alive
    <3>8. \A k \in 1 .. Len(procs') : procs'[k].termed => k \in 1 .. Len(procs) /\ procs[k].termed
      BY <2>p, <3>4
    <3>9. \A k \in daemons : procs'[k] = procs[k]
      BY <3>4, <3>5
    <3> QED BY <3>1, <3>6, <3>7, <3>8, <3>9 DEF SortInv, FirstPassBegun
  <2>11. CASE Exec
    <3>1. /\ pc \in {24, 25} /\ outcome = "running" /\ UNCHANGED <<pc, outcome, cursor, daemons>>
      BY <2>11, <2>p, Steps DEF Exec, At
    <3>2. PICK n \in Alive \ {1} : procs[n].kind = "plain" /\ procs' = [procs EXCEPT ![n].kind = "daemon"]
      BY <2>11 DEF Exec
    <3>3. n \in 1 .. Len(procs) /\ n # 1 /\ procs[n] \in ProcType
      BY <2>t, <3>2 DEF Alive
    <3> DEFINE p == [procs[n] EXCEPT !.kind = "daemon"]
    <3>4. /\ p \in ProcType /\ p.kind = "daemon" /\ p.termed = procs[n].termed
          /\ procs' = [procs EXCEPT ![n] = p]
      BY <3>2, <3>3 DEF ProcType
    <3> HIDE DEF p
    <3>5. /\ procs' \in Seq(ProcType) /\ Len(procs') = Len(procs) /\ procs'[n] = p
          /\ \A k \in 1 .. Len(procs) : k # n => procs'[k] = procs[k]
      BY <2>p, <3>3, <3>4
    <3>6. ProcsInv'
      BY <2>p, <3>1, <3>3, <3>5 DEF ProcsInv
    <3>7. FirstPassBegun => n \notin daemons
      BY <3>2 DEF SortInv
    <3>8. \A k \in daemons : k \in 1 .. Len(procs)
      BY DEF ProcsInv
    <3>9. \A k \in Alive' : k = n \/ (k \in Alive /\ procs'[k] = procs[k])
      BY <3>5 DEF Alive
    <3> QED BY <3>1, <3>3, <3>4, <3>5, <3>6, <3>7, <3>8, <3>9, ZenonT(60) DEF SortInv, FirstPassBegun
  <2>12. CASE Exits
    <3>1. /\ pc \in {24, 25} /\ outcome = "running" /\ UNCHANGED <<pc, outcome, cursor, daemons>>
      BY <2>12, <2>p, Steps DEF Exits, At
    <3>2. PICK n \in Alive : procs[n].termed /\ procs' = [procs EXCEPT ![n].alive = FALSE]
      BY <2>12 DEF Exits
    <3>3. n \in 1 .. Len(procs) /\ procs[n] \in ProcType
      BY <2>t, <3>2 DEF Alive
    <3> DEFINE p == [procs[n] EXCEPT !.alive = FALSE]
    <3>4. /\ p \in ProcType /\ ~p.alive /\ p.kind = procs[n].kind /\ p.termed = procs[n].termed
          /\ procs' = [procs EXCEPT ![n] = p]
      BY <3>2, <3>3 DEF ProcType
    <3> HIDE DEF p
    <3>5. /\ procs' \in Seq(ProcType) /\ Len(procs') = Len(procs) /\ procs'[n] = p
          /\ \A k \in 1 .. Len(procs) : k # n => procs'[k] = procs[k]
      BY <2>p, <3>3, <3>4
    <3>6. ProcsInv'
      BY <2>p, <3>1, <3>3, <3>4, <3>5 DEF ProcsInv
    <3>7. FirstPassBegun => n \notin daemons
      BY <3>2 DEF SortInv
    <3>8. \A k \in daemons : k \in 1 .. Len(procs)
      BY DEF ProcsInv
    <3>9. \A k \in Alive' : k \in Alive /\ procs'[k] = procs[k]
      BY <3>3, <3>4, <3>5 DEF Alive
    <3> QED BY <3>1, <3>3, <3>4, <3>5, <3>6, <3>7, <3>8, <3>9, ZenonT(60) DEF SortInv, FirstPassBegun
  <2> QED BY <2>s, <2>1, <2>2, <2>3, <2>4, <2>5, <2>6, <2>7, <2>8, <2>9, <2>10, <2>11, <2>12
          DEF Next, Run
<1> QED BY <1>1, <1>2, <1>3, PTL DEF Spec
=============================================================================
