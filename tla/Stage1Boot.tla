----------------------------- MODULE Stage1Boot -----------------------------
(***************************************************************************)
(* Stage 1 from the kernel's start of init to the start of the init of the   *)
(* new root: which step follows which, what each mounts or checks and where, *)
(* how the steps fail, and what becomes of the processes the hooks leave.    *)
(*                                                                           *)
(* Waiting for the root device is DeviceWait; here it ends well or in a      *)
(* timeout.  handle_lustrate is Lustrate; here it is one step.               *)
(***************************************************************************)
EXTENDS Integers, FiniteSets, FiniteSetsExt, SequencesExt, MountTree

CONSTANTS
  Filesystems,  \* sequence of [name, at, check]: fsInfo without the root
  Specials,     \* sequence of [name, at]: the lines of the early mount script
  Configs,      \* what the command line and the system may ask for: see ConfigOK
  FsckCodes,    \* exit codes of fsck; Signal if it is killed
  Signal,
  MaxPid,       \* bound: highest pid
  MaxFaults     \* bound: failing calls

ASSUME ConfigOK ==
  \A c \in Configs :
    /\ {c.shell, c.panic, c.debug1devices, c.debug1mounts, c.check, c.hibernated,
        c.persistence, c.initOnNix} \subseteq BOOLEAN
    /\ c.inits \in SUBSET STRING
ASSUME MountsOK ==
  /\ Filesystems \in Seq([name : STRING, at : Seq(STRING), check : BOOLEAN])
  /\ Specials \in Seq([name : STRING, at : Seq(STRING), check : BOOLEAN])
ASSUME BoundsOK == MaxPid \in Nat \ {0} /\ MaxFaults \in Nat /\ FsckCodes \ {Signal} \subseteq Nat

Target == <<"target">>  \* --target-root
Essential == <<"dev", "proc", "sys", "run">>
NameSet(s) == {s[k].name : k \in 1 .. Len(s)}

VARIABLES
  config,   \* ... and where init is: on which filesystem the system has it (initOnNix), and
            \* which hold something at its path, as exists() sees it
  pc, i,    \* the step of run, and the filesystem or line it is at
  outcome,  \* "running", "init" once the init of the new root runs, or how the boot failed
  tree,     \* the mounts
  fsck,     \* history: the exit code of fsck for the root, 0 before, ...
  checked,  \* history: ... and which filesystems were checked
  procs,    \* the processes other than init: what they are, and if they were signalled
  cursor,   \* where the pass over /proc is
  daemons,  \* history: the storage daemons there were when the first pass began
  faults

vars == <<config, pc, i, outcome, tree, fsck, checked, procs, cursor, daemons, faults>>
procVars == <<procs, cursor, daemons>>
fsckVars == <<fsck, checked>>
----------------------------------------------------------------------------
\* The order of run.  Steps that only read or prepare something and may fail are in
\* Fallible, those that cannot fail in Tolerant.
Order ==
  <<"setup", "preDevice", "modules", "devices", "preLVM", "lvm", "debug1devices", "postDevice",
    "resume", "postResume", "fsInfo", "root", "checkRoot", "mountRoot", "lustrate", "check",
    "filesystems", "special", "postMount", "rootRule", "iso", "persistence", "stopDevices",
    "term", "kill", "debug1mounts", "switch", "exec">>

Fallible == {"preDevice", "preLVM", "postDevice", "postResume", "fsInfo", "lustrate",
             "rootRule", "iso"}
Tolerant == {"modules", "lvm"}

At(step) == outcome = "running" /\ Order[pc] = step
GoOn == pc' = pc + 1 /\ i' = 1 /\ UNCHANGED outcome
Again == i' = i + 1 /\ UNCHANGED <<pc, outcome>>

Init ==
  /\ config \in Configs
  /\ pc = 1 /\ i = 1 /\ outcome = "running"
  /\ tree = [m \in {"initrd"} |-> Nowhere] /\ fsck = 0 /\ checked = {}
  /\ procs = <<>> /\ cursor = 0 /\ daemons = {} /\ faults = 0

\* fail: the recovery shell only for those who asked for it.
FailInto(c) == IF c.shell THEN "shell" ELSE IF c.panic THEN "panic" ELSE "reboot"
Fail == outcome' = FailInto(config) /\ UNCHANGED <<pc, i>>

\* ... and an error that run returns ends init, whatever was asked for.
Return == outcome' = "panic" /\ UNCHANGED <<pc, i>>

Fault == faults < MaxFaults /\ faults' = faults + 1
----------------------------------------------------------------------------
Step ==
  /\ \E s \in Fallible \cup Tolerant : At(s)
  /\ \/ GoOn /\ UNCHANGED faults
     \/ Order[pc] \in Fallible /\ Fault /\ Return
  /\ UNCHANGED <<config, tree, fsckVars, procVars>>

\* setup_environment to set_host_id: of the mounts only the first three have to succeed.
Early(name, at, needed) == [name |-> name, at |-> at, needed |-> needed]
EarlyMounts ==
  <<Early("proc", <<"proc">>, TRUE), Early("sys", <<"sys">>, TRUE), Early("dev", <<"dev">>, TRUE),
    Early("devpts", <<"dev", "pts">>, FALSE), Early("run", <<"run">>, FALSE),
    Early("tmpfs", <<"tmp">>, FALSE)>>

\* The filesystems of fsInfo have names of their own.
ASSUME NamesOK ==
  NameSet(Filesystems) \cap ({"initrd", "root", "store", "persistence"} \cup NameSet(EarlyMounts)) = {}

Setup ==
  /\ At("setup")
  /\ IF i > Len(EarlyMounts)
     THEN UNCHANGED tree /\ ((GoOn /\ UNCHANGED faults) \/ (Fault /\ Return))
     ELSE \/ /\ Again /\ UNCHANGED faults
             /\ tree' = Attach(tree, EarlyMounts[i].name, "initrd", EarlyMounts[i].at)
          \/ /\ Fault /\ UNCHANGED tree
             /\ IF EarlyMounts[i].needed THEN Return ELSE Again
  /\ UNCHANGED <<config, fsckVars, procVars>>

\* The device manager is started, has to be ready and to know the devices there are (a
\* settle that times out is a warning); in the end it is asked to exit.
Process(kind) == [kind |-> kind, alive |-> TRUE, termed |-> FALSE]
Devices ==
  /\ At("devices")
  /\ \/ GoOn /\ UNCHANGED faults
     \/ Fault /\ Return
  /\ procs' = Append(procs, Process("plain"))
  /\ UNCHANGED <<config, tree, fsckVars, cursor, daemons>>
StopDevices ==
  /\ At("stopDevices") /\ GoOn
  /\ procs' = [procs EXCEPT ![1].termed = TRUE]
  /\ UNCHANGED <<config, tree, fsckVars, cursor, daemons, faults>>

\* boot.debug1devices and boot.debug1mounts.
Checkpoint ==
  /\ \/ At("debug1devices") /\ IF config.debug1devices THEN Fail ELSE GoOn
     \/ At("debug1mounts") /\ IF config.debug1mounts THEN Fail ELSE GoOn
  /\ UNCHANGED <<config, tree, fsckVars, procVars, faults>>

\* handle_resume: the kernel starts the image if there is one, and is otherwise ignored.
Resume ==
  /\ At("resume")
  /\ \/ config.hibernated /\ outcome' = "resumed" /\ UNCHANGED <<pc, i, faults>>
     \/ ~config.hibernated /\ GoOn /\ UNCHANGED faults
     \/ config.hibernated /\ Fault /\ GoOn
  /\ UNCHANGED <<config, tree, fsckVars, procVars>>
----------------------------------------------------------------------------
\* The bits of an exit code of fsck.
Bit(code, b) == (code \div b) % 2 = 1

\* run_fsck: what becomes of an exit code.
\* Mutant: the codes are compared, not the bits.
VerdictCodes(code) ==
  IF code = Signal THEN "bad"
  ELSE CASE code = 2 -> "reboot" [] code = 4 -> "bad" [] code >= 8 -> "bad" [] OTHER -> "good"
Verdict(code) ==
  IF code = Signal THEN "bad"
  ELSE CASE Bit(code, 2) -> "reboot"
         [] ~Bit(code, 2) /\ (Bit(code, 4) \/ code >= 8) -> "bad"
         [] OTHER -> "good"

\* mount_root: the wait ends in the device or in a timeout.
FindRoot ==
  /\ At("root")
  /\ \/ GoOn /\ UNCHANGED faults
     \/ Fault /\ Fail
  /\ UNCHANGED <<config, tree, fsckVars, procVars>>

\* ... fsck, if the root is of a type that is checked; a reboot may not take effect.
CheckRoot ==
  /\ At("checkRoot")
  /\ IF ~config.check THEN GoOn /\ UNCHANGED fsckVars
     ELSE \E code \in FsckCodes :
            /\ fsck' = code /\ checked' = checked \cup {"root"}
            /\ CASE Verdict(code) = "good" -> GoOn
                 [] Verdict(code) = "bad"  -> Fail
                 [] OTHER -> Fail \/ (outcome' = "reboot" /\ UNCHANGED <<pc, i>>)
  /\ UNCHANGED <<config, tree, procVars, faults>>

MountRoot ==
  /\ At("mountRoot")
  /\ \/ GoOn /\ tree' = Attach(tree, "root", "initrd", Target) /\ UNCHANGED faults
     \/ Fault /\ Fail /\ UNCHANGED tree
  /\ UNCHANGED <<config, fsckVars, procVars>>

\* The other filesystems are checked, one after another; all that is not good is a warning,
\* unless reboot -f takes effect.
CheckFs ==
  /\ At("check")
  /\ IF i > Len(Filesystems) THEN GoOn /\ UNCHANGED checked
     ELSE IF ~Filesystems[i].check THEN Again /\ UNCHANGED checked
     ELSE \E code \in FsckCodes :
            /\ checked' = checked \cup {Filesystems[i].name}
            /\ \/ Again
               \/ Verdict(code) = "reboot" /\ outcome' = "reboot" /\ UNCHANGED <<pc, i>>
  /\ UNCHANGED <<config, tree, fsck, procVars, faults>>

\* mount_additional_filesystems: under the target root; errors are warnings.
MountFs ==
  /\ At("filesystems")
  /\ IF i > Len(Filesystems) THEN GoOn /\ UNCHANGED <<tree, faults>>
     ELSE /\ Again
          /\ \/ /\ tree' = Attach(tree, Filesystems[i].name, "initrd", Target \o Filesystems[i].at)
                /\ UNCHANGED faults
             \/ Fault /\ UNCHANGED tree
  /\ UNCHANGED <<config, fsckVars, procVars>>

\* special_mount_target: what is below a mount that will be moved is mounted there.
SpecialTarget(at) ==
  IF Head(at) \in Range(Essential) THEN at ELSE Target \o at

\* The early mount script: a line whose target is mounted is skipped; an error of
\* mount ends the boot as asked for, one of create_dir_all returns.
MountSpecial ==
  /\ At("special")
  /\ IF i > Len(Specials) THEN GoOn /\ UNCHANGED <<tree, faults>>
     ELSE LET target == SpecialTarget(Specials[i].at)
          IN IF IsMounted(tree, "initrd", target) THEN Again /\ UNCHANGED <<tree, faults>>
             ELSE \/ /\ Again /\ UNCHANGED faults
                     /\ tree' = Attach(tree, Specials[i].name, "initrd", target)
                  \/ Fault /\ (Fail \/ Return) /\ UNCHANGED tree
  /\ UNCHANGED <<config, fsckVars, procVars>>

\* The post-mount hook may leave a process; one that calls itself @... is a storage daemon.
PostMount ==
  /\ At("postMount")
  /\ \/ GoOn /\ UNCHANGED <<procs, faults>>
     \/ /\ Len(procs) + 1 < MaxPid /\ UNCHANGED <<pc, i, outcome, faults>>
        /\ \E kind \in {"plain", "daemon"} :
             procs' = Append(procs, Process(kind))
     \/ Fault /\ Return /\ UNCHANGED procs
  /\ UNCHANGED <<config, tree, fsckVars, cursor, daemons>>

\* handle_persistence: the device is mounted in /run, a directory of it over the root.
Persistence ==
  /\ At("persistence")
  /\ \/ ~config.persistence /\ GoOn /\ UNCHANGED <<tree, faults>>
     \/ /\ config.persistence /\ GoOn /\ UNCHANGED faults
        /\ LET t == Attach(tree, "store", "initrd", <<"run", "persistence">>)
           IN tree' \in {t, Attach(t, "persistence", "initrd", Target)}
     \/ config.persistence /\ Fault /\ Return /\ UNCHANGED tree
  /\ UNCHANGED <<config, fsckVars, procVars>>
----------------------------------------------------------------------------
\* kill_remaining_processes. The process at k has pid k + 1.
Alive == {k \in 1 .. Len(procs) : procs[k].alive}
Ahead == {k \in Alive : k > cursor}

KillVictims == Ahead

\* is_storage_daemon
SparedNone(k) == FALSE  \* Mutant: nobody is spared
Spared(k) == procs[k].kind = "daemon"

\* That /proc cannot be opened or read further ends either pass, and the boot.
PassFails == Fault /\ Return /\ UNCHANGED <<procs, cursor>>

Term ==
  /\ At("term")
  /\ daemons' = IF cursor = 0 THEN {k \in Alive : procs[k].kind = "daemon"} ELSE daemons
  /\ \/ Ahead = {} /\ GoOn /\ cursor' = 0 /\ UNCHANGED <<procs, faults>>
     \/ /\ Ahead # {} /\ cursor' = Min(Ahead) /\ UNCHANGED <<pc, i, outcome, faults>>
        /\ procs' = IF Spared(Min(Ahead)) THEN procs
                    ELSE [procs EXCEPT ![Min(Ahead)].termed = TRUE]
     \/ PassFails
  /\ UNCHANGED <<config, tree, fsckVars>>

\* Mutant: the pass is repeated until nobody is left.
KillAgain ==
  /\ At("kill")
  /\ \/ /\ KillVictims = {} /\ cursor' = 0 /\ UNCHANGED <<procs, faults>>
        /\ IF Alive = {} THEN GoOn ELSE UNCHANGED <<pc, i, outcome>>
     \/ /\ KillVictims # {} /\ cursor' = Min(KillVictims) /\ UNCHANGED <<pc, i, outcome, faults>>
        /\ procs' = IF Spared(Min(KillVictims)) THEN procs
                    ELSE [procs EXCEPT ![Min(KillVictims)].alive = FALSE]
     \/ PassFails
  /\ UNCHANGED <<config, tree, fsckVars, daemons>>
Kill ==
  /\ At("kill")
  /\ \/ KillVictims = {} /\ GoOn /\ UNCHANGED <<procs, cursor, faults>>
     \/ /\ KillVictims # {} /\ cursor' = Min(KillVictims) /\ UNCHANGED <<pc, i, outcome, faults>>
        /\ procs' = IF Spared(Min(KillVictims)) THEN procs
                    ELSE [procs EXCEPT ![Min(KillVictims)].alive = FALSE]
     \/ PassFails
  /\ UNCHANGED <<config, tree, fsckVars, daemons>>

\* What the processes do meanwhile: a daemon starts helpers under other names, others
\* start processes like themselves, become a daemon (not the device manager,
\* the first of them), or end when asked to.
Fork ==
  /\ At("term") \/ At("kill")
  /\ Len(procs) + 1 < MaxPid
  /\ \E k \in Alive :
       procs' = Append(procs, Process(IF procs[k].kind = "daemon" THEN "helper" ELSE procs[k].kind))
  /\ UNCHANGED <<config, pc, i, outcome, tree, fsckVars, cursor, daemons, faults>>

Exec ==
  /\ At("term") \/ At("kill")
  /\ \E k \in Alive \ {1} : procs[k].kind = "plain" /\ procs' = [procs EXCEPT ![k].kind = "daemon"]
  /\ UNCHANGED <<config, pc, i, outcome, tree, fsckVars, cursor, daemons, faults>>

Exits ==
  /\ At("term") \/ At("kill")
  /\ \E k \in Alive : procs[k].termed /\ procs' = [procs EXCEPT ![k].alive = FALSE]
  /\ UNCHANGED <<config, pc, i, outcome, tree, fsckVars, cursor, daemons, faults>>
----------------------------------------------------------------------------
\* switch_root: something has to exist at the path of init, on whatever filesystem the
\* path leads to now (an absolute link in it is followed in the initrd); then /dev, /proc, /sys and /run move below the new
\* root, on top of what may be mounted there. An error of moving one is passed over.
InitFs == IF config.initOnNix THEN "nix" ELSE "root"
InitAt == IF config.initOnNix THEN <<"nix">> ELSE <<>>
InitFound == MountAt(tree, "initrd", Target \o InitAt) \in config.inits

MoveEssential == tree' = Attach(tree, Essential[i], "initrd", Target \o <<Essential[i]>>)

\* Mutant: init is not looked for.
SwitchRootUnseen ==
  /\ At("switch")
  /\ \/ i > Len(Essential) /\ GoOn /\ UNCHANGED <<tree, faults>>
     \/ /\ i <= Len(Essential) /\ Essential[i] \in DOMAIN tree /\ Again /\ UNCHANGED faults
        /\ MoveEssential
     \/ i <= Len(Essential) /\ Essential[i] \notin DOMAIN tree /\ Again /\ UNCHANGED <<tree, faults>>
  /\ UNCHANGED <<config, fsckVars, procVars>>
SwitchRoot ==
  /\ At("switch")
  /\ \/ i = 1 /\ ~InitFound /\ Fail /\ UNCHANGED <<tree, faults>>
     \/ i > Len(Essential) /\ GoOn /\ UNCHANGED <<tree, faults>>
     \/ /\ i <= Len(Essential) /\ (i = 1 => InitFound) /\ Again
        /\ \/ Essential[i] \in DOMAIN tree /\ MoveEssential /\ UNCHANGED faults
           \/ Essential[i] \notin DOMAIN tree /\ UNCHANGED <<tree, faults>>
           \/ Fault /\ UNCHANGED tree
  /\ UNCHANGED <<config, fsckVars, procVars>>

\* The new root moves to /, and its init is executed there.
ExecInit ==
  /\ At("exec")
  /\ \/ outcome' = "init" /\ UNCHANGED <<pc, i, faults>>
     \/ Fault /\ Fail
  /\ UNCHANGED <<config, tree, fsckVars, procVars>>

\* start_recovery_shell: when the shell ends, the machine halts.
ShellEnds ==
  /\ outcome = "shell" /\ outcome' = "halt"
  /\ UNCHANGED <<config, pc, i, tree, fsckVars, procVars, faults>>

Run == Step \/ Setup \/ Devices \/ StopDevices \/ Checkpoint \/ Resume \/ FindRoot
       \/ CheckRoot \/ MountRoot \/ CheckFs \/ MountFs \/ MountSpecial \/ PostMount \/ Persistence \/ Term \/ Kill \/ SwitchRoot
       \/ ExecInit
Next == Run \/ Fork \/ Exec \/ Exits \/ ShellEnds

\* Stage 1 goes on; nothing is assumed about the processes.
Spec == Init /\ [][Next]_vars /\ WF_vars(Run)
----------------------------------------------------------------------------
Outcomes == {"running", "init", "resumed", "shell", "halt", "panic", "reboot"}
Mounts == {"initrd", "root", "store", "persistence"} \cup NameSet(EarlyMounts)
            \cup NameSet(Filesystems) \cup NameSet(Specials)

TypeOK ==
  /\ config \in Configs /\ pc \in 1 .. Len(Order) /\ outcome \in Outcomes
  /\ i \in 1 .. 1 + Len(EarlyMounts) + Len(Filesystems) + Len(Specials)
  /\ DOMAIN tree \subseteq Mounts /\ fsck \in FsckCodes /\ checked \subseteq Mounts
  /\ \A k \in 1 .. Len(procs) :
       procs[k] \in [kind : {"plain", "daemon", "helper"}, alive : BOOLEAN, termed : BOOLEAN]
  /\ cursor \in 0 .. Len(procs) /\ daemons \subseteq 1 .. Len(procs)
  /\ faults \in 0 .. MaxFaults

\* An image of hibernation is started before anything is checked or mounted: what is
\* mounted in it would otherwise be changed under its feet.
ResumeFirst ==
  outcome = "resumed" => checked = {} /\ DOMAIN tree \subseteq {"initrd"} \cup NameSet(EarlyMounts)

\* Lustrate moves aside what is in the root: no other filesystem may be mounted in it yet.
LustrateAlone == At("lustrate") => DOMAIN tree \cap NameSet(Filesystems) = {}

\* Nothing that needs a check is mounted without one, and the root not after one that
\* left errors, asked for a reboot or failed, in whatever combination of bits.
CheckedBeforeMounted ==
  /\ \A k \in 1 .. Len(Filesystems) :
       Filesystems[k].check /\ Filesystems[k].name \in DOMAIN tree => Filesystems[k].name \in checked
  /\ "root" \in DOMAIN tree /\ config.check => "root" \in checked /\ fsck \in {0, 1}

\* A filesystem is written to only when nothing earlier in the boot may still need it as
\* it was: by the image, by lustrate, by fsck.
StepsInOrder == ResumeFirst /\ LustrateAlone /\ CheckedBeforeMounted

\* When the init of the new root starts, it is the one that was looked for, after all that
\* was moved over it; and it is the one of the system, whatever other filesystem holds
\* something at its path: not one of the initrd, nor a stale one its filesystem covers. (The
\* exceptions: the persistence bind covers it with its own, and where mounting its
\* filesystem failed, a warning, what is there without it is started.)
NewRoot == MountAt(tree, "initrd", Target)
InitIsThere ==
  outcome = "init" =>
    LET found == MountAt(tree, NewRoot, InitAt)
    IN /\ NewRoot \in {"root", "persistence"} /\ found \in config.inits
       /\ found \in {InitFs, NewRoot}
       /\ found = InitFs \/ NewRoot = "persistence" \/ InitFs \notin DOMAIN tree

\* It finds every mount that was made for it where it was meant to be, whatever was
\* moved over it. (The exceptions: the persistence bind covers all that is mounted in the
\* root, /dev, /proc, /sys and /run cover what fsInfo has below them, and one of these
\* may fail to move.)
Stays(at) ==
  Head(at) \in Range(Essential) /\ (Head(at) \notin DOMAIN tree \/ tree[Head(at)].on = "initrd")
VisibleToInit ==
  outcome = "init" =>
    /\ \A m \in Range(Essential) : ~Stays(<<m>>) => MountAt(tree, NewRoot, <<m>>) = m
    /\ \A k \in 1 .. Len(Filesystems) :
         LET f == Filesystems[k]
         IN f.name \in DOMAIN tree /\ Head(f.at) \notin Range(Essential) /\ NewRoot = "root"
              => MountAt(tree, NewRoot, f.at) = f.name
    /\ \A k \in 1 .. Len(Specials) :
         LET f == Specials[k]
         IN f.name \in DOMAIN tree /\ ~Stays(f.at)
              /\ (NewRoot = "root" \/ Head(f.at) \in Range(Essential))
              => MountAt(tree, NewRoot, f.at) = f.name

\* The init of the new root is the right one and has its mounts.
InitReady == InitIsThere /\ VisibleToInit

\* No process of the initrd outlives it, the device manager included, but storage daemons
\* and what they start,
\* although processes start others while the passes over /proc go on.
NothingLeft == outcome = "init" => \A k \in Alive : procs[k].kind # "plain"

\* A storage daemon that was one when the first pass began is neither killed nor asked
\* to terminate: the root may hang on it.
DaemonsSpared ==
  outcome = "init" => \A k \in daemons : procs[k].alive /\ ~procs[k].termed

\* Of the processes of the initrd exactly those live on that may be needed.
ProcessesSorted == NothingLeft /\ DaemonsSpared

\* Every boot comes to an end, whatever fails and whatever fsck says.
BootEnds == <>(outcome # "running")
=============================================================================
