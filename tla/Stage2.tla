------------------------------- MODULE Stage2 -------------------------------
(***************************************************************************)
(* Stage 2: from its start to systemd.  Its own output goes through a helper *)
(* for part of the way; the links it makes are renamed into place; power may *)
(* fail at any step, and what is left in /usr/bin and /bin is met again.     *)
(* The mount options of / and /nix/store are MountFlags.                     *)
(***************************************************************************)
EXTENDS Integers, FiniteSets

CONSTANTS
  Configs,   \* options, environment and what is there: records of BOOLEAN fields
  Targets,   \* configurations a link may lead to
  Nothing,
  Attempts,  \* the last temporary name tried, 100 in the code
  MaxFaults, \* bound: failing calls in a boot, the death of the helper included
  MaxCuts    \* bound: power failures

Links == {"booted", "current", "env", "sh"}
Volatile == {"booted", "current"}  \* they are in /run

VARIABLES
  system, config,
  step,     \* index in Order
  outcome,  \* "off", "booting", or how the boot went
  out, err, \* where the standard output and error lead
  helper,   \* "none", "reads" or "gone"
  capture,  \* StdioGuard: "yes" if it has something to restore; "half" if dup2 failed between
  root,     \* "ro" or "rw"
  proc,     \* the special filesystems are mounted
  activated,
  links,    \* what each leads to
  temps,    \* numbers of the temporary names beside it
  made,     \* the number of the one atomic_symlink has just made
  faults,   \* of this boot, until it is done
  cuts

stdio == <<out, err, helper, capture>>
linkVars == <<links, temps, made>>
constant == <<system, config, cuts>>
stage2Vars == <<constant, step, outcome, stdio, root, proc, activated, linkVars, faults>>

Order == <<"remount", "mounts", "store", "dirs", "resolv", "config", "capture", "activate", "booted",
           "postBoot", "finish", "atomic", "current", "env", "sh", "kernel", "handOver">>
\* The options of lib.rs run, and the link each step makes.
LinkOf(s) == CASE s \in {"booted", "atomic"} -> "booted" [] OTHER -> s
Wanted(s) ==
  CASE s = "booted" -> TRUE [] s = "atomic" -> config.atomic [] s = "current" -> config.current
    [] OTHER -> config.fhs

At(s) == outcome = "booting" /\ Order[step] = s
GoOn == step' = step + 1 /\ UNCHANGED outcome
Fault == faults < MaxFaults /\ faults' = faults + 1

Init ==
  /\ system = Nothing /\ config \in Configs /\ step = 1 /\ outcome = "off"
  /\ out = "console" /\ err = "console" /\ helper = "none" /\ capture = "no"
  /\ root = "ro" /\ proc = FALSE /\ activated = FALSE
  /\ links = [p \in Links |-> Nothing] /\ temps = [p \in Links |-> {}] /\ made = Nothing
  /\ faults = 0 /\ cuts = 0

\* The kernel, stage 1 or the manager of a container starts it.
PowerOn(s) ==
  /\ outcome = "off" /\ outcome' = "booting" /\ system' = s
  /\ root' = (IF config.container THEN "rw" ELSE "ro") /\ proc' = config.proc
  /\ UNCHANGED <<config, cuts, step, stdio, activated, linkVars, faults>>

\* restore_stdio, when the guard is dropped.
RestoreOutOnly ==  \* Mutant: the standard error is forgotten.
  IF capture = "yes" THEN out' = "console" /\ capture' = "no" /\ UNCHANGED <<err, helper>>
  ELSE UNCHANGED stdio
Restore ==
  IF capture = "yes" THEN out' = "console" /\ err' = "console" /\ capture' = "no" /\ UNCHANGED helper
  ELSE UNCHANGED stdio
\* An error ends init, with the descriptors back in place.
Err == outcome' = "failed" /\ UNCHANGED step /\ Restore

\* log_message writes to the standard error and panics if that fails; the build aborts.
Heard == err = "console" \/ helper = "reads"
Logged == {"activate", "booted", "postBoot", "finish"}
Panic ==
  /\ \E s \in Logged : At(s) /\ made = Nothing /\ (s = "activate" => config.script)
  /\ ~Heard /\ outcome' = "panic"
  /\ UNCHANGED <<constant, step, stdio, root, proc, activated, linkVars, faults>>
----------------------------------------------------------------------------
Remount ==
  /\ At("remount")
  /\ \/ GoOn /\ UNCHANGED <<stdio, faults>> /\ root' = IF config.container THEN root ELSE "rw"
     \/ ~config.container /\ Fault /\ Err /\ UNCHANGED root
  /\ UNCHANGED <<constant, proc, activated, linkVars>>

\* The early mount script or the five mounts made without one.
Mounts ==
  /\ At("mounts")
  /\ \/ GoOn /\ UNCHANGED <<stdio, faults>> /\ proc' = (proc \/ ~config.inSystemd)
     \/ ~config.inSystemd /\ ~proc /\ Fault /\ Err /\ UNCHANGED proc
  /\ UNCHANGED <<constant, root, activated, linkVars>>

\* Steps that change none of this. setup_nix_store cannot fail; resolvconf is not asked under
\* systemd; the directories need a root that can be written.
Fails(s) ==
  CASE s = "dirs" -> TRUE [] s = "resolv" -> ~config.inSystemd [] s = "config" -> TRUE
    [] s = "kernel" -> TRUE [] OTHER -> FALSE
Step ==
  /\ \E s \in {"store", "dirs", "resolv", "config", "kernel"} :
       /\ At(s)
       /\ \/ GoOn /\ UNCHANGED <<stdio, faults>> /\ (s = "dirs" => root = "rw")
          \/ Fails(s) /\ Fault /\ Err
  /\ UNCHANGED <<constant, root, proc, activated, linkVars>>

\* capture_stdio: any of its calls may fail, which is a warning. After the first dup2 the
\* output leads into the pipe; only after the second is there a guard.
Capture ==
  /\ At("capture") /\ GoOn
  /\ \/ config.inSystemd /\ UNCHANGED <<stdio, faults>>
     \/ ~config.inSystemd /\ Fault /\ UNCHANGED stdio
     \/ ~config.inSystemd /\ Fault /\ out' = "pipe" /\ helper' = "reads" /\ capture' = "half" /\ UNCHANGED err
     \/ ~config.inSystemd /\ UNCHANGED faults
          /\ out' = "pipe" /\ err' = "pipe" /\ helper' = "reads" /\ capture' = "yes"
  /\ UNCHANGED <<constant, root, proc, activated, linkVars>>

\* The helper reads until nobody can write any more, or dies before.
HelperEnds ==
  /\ helper = "reads" /\ helper' = "gone"
  /\ \/ out = "console" /\ err = "console" /\ UNCHANGED faults
     \/ outcome = "booting" /\ Fault
  /\ UNCHANGED <<constant, step, outcome, out, err, capture, root, proc, activated, linkVars>>

\* The activation script: what it returns is a warning, and so is its absence unless strict.
Activate ==
  /\ At("activate")
  /\ \/ config.script /\ Heard /\ GoOn /\ activated' = TRUE /\ UNCHANGED <<stdio, faults>>
     \/ config.script /\ Heard /\ Fault /\ Err /\ UNCHANGED activated
     \/ ~config.script /\ config.strict /\ Err /\ UNCHANGED <<activated, faults>>
     \/ ~config.script /\ ~config.strict /\ GoOn /\ UNCHANGED <<activated, stdio, faults>>
  /\ UNCHANGED <<constant, root, proc, linkVars>>

PostBoot ==
  /\ At("postBoot")
  /\ \/ GoOn /\ UNCHANGED <<stdio, faults>>
     \/ Heard /\ Fault /\ Err
  /\ UNCHANGED <<constant, root, proc, activated, linkVars>>

\* The last message, and the guard is dropped.
Finish ==
  /\ At("finish") /\ Heard /\ GoOn /\ Restore
  /\ UNCHANGED <<constant, root, proc, activated, linkVars, faults>>
----------------------------------------------------------------------------
\* atomic_symlink: the first temporary name that is free, then the rename; an error
\* leaves the temporary link where it is.
LinkSteps == {"booted", "atomic", "current", "env", "sh"}
Free(p) == (0 .. Attempts) \ temps[p]
NamesFirst(p) == Free(p) \cap {0}  \* Mutant: the first is tried again and again
Names(p) == {i \in Free(p) : \A j \in Free(p) : i <= j}
ExhaustedEarly(p) == 0 \in temps[p]  \* Mutant: a name that is taken is an error
Exhausted(p) == Free(p) = {}
SkipLink ==
  /\ \E s \in LinkSteps : At(s) /\ ~Wanted(s)
  /\ GoOn /\ UNCHANGED <<constant, stdio, root, proc, activated, linkVars, faults>>
MakeTemp ==
  /\ \E s \in LinkSteps :
       LET p == LinkOf(s)
       IN /\ At(s) /\ Wanted(s) /\ made = Nothing /\ (s = "booted" => Heard)
          /\ \/ /\ made' \in Names(p) /\ temps' = [temps EXCEPT ![p] = @ \cup {made'}]
                /\ UNCHANGED <<step, outcome, stdio, faults>>
             \/ Exhausted(p) /\ Err /\ UNCHANGED <<made, temps, faults>>
             \/ Fault /\ Err /\ UNCHANGED <<made, temps>>
  /\ UNCHANGED <<constant, root, proc, activated, links>>
Rename ==
  /\ made # Nothing
  /\ \E s \in LinkSteps :
       LET p == LinkOf(s)
       IN /\ At(s)
          /\ \/ /\ links' = [links EXCEPT ![p] = system] /\ temps' = [temps EXCEPT ![p] = @ \ {made}]
                /\ GoOn /\ UNCHANGED <<stdio, faults>>
             \/ Fault /\ Err /\ UNCHANGED <<links, temps>>
  /\ made' = Nothing
  /\ UNCHANGED <<constant, root, proc, activated>>
----------------------------------------------------------------------------
\* run_and_handoff: prepare-root returns to systemd; otherwise systemd is executed, or
\* failing that a shell.
HandOver ==
  /\ At("handOver") /\ UNCHANGED step
  /\ \/ config.inSystemd /\ outcome' = "returned" /\ faults' = 0
     \/ ~config.inSystemd /\ outcome' = "systemd" /\ faults' = 0
     \/ ~config.inSystemd /\ Fault /\ outcome' \in {"shell", "failed"}
  /\ UNCHANGED <<constant, stdio, root, proc, activated, linkVars>>

\* The power fails, or a machine that did not boot is switched off: /run is gone.
PowerCut ==
  /\ outcome # "off" /\ cuts < MaxCuts /\ cuts' = cuts + 1 /\ outcome' = "off"
  /\ system' = Nothing /\ step' = 1 /\ root' = "ro" /\ proc' = FALSE /\ activated' = FALSE /\ faults' = 0
  /\ out' = "console" /\ err' = "console" /\ helper' = "none" /\ capture' = "no"
  /\ links' = [p \in Links |-> IF p \in Volatile THEN Nothing ELSE links[p]]
  /\ temps' = [p \in Links |-> IF p \in Volatile THEN {} ELSE temps[p]]
  /\ made' = Nothing /\ UNCHANGED config

Run == Remount \/ Mounts \/ Step \/ Capture \/ Activate \/ PostBoot \/ Finish \/ Panic
         \/ SkipLink \/ MakeTemp \/ Rename \/ HandOver
Next == Run \/ HelperEnds \/ PowerCut \/ \E s \in Targets : PowerOn(s)

\* Init and its children go on; nothing is assumed about the helper.
Spec == Init /\ [][Next]_stage2Vars /\ WF_stage2Vars(Run)
----------------------------------------------------------------------------
Stage2TypeOK ==
  /\ system \in Targets \cup {Nothing} /\ config \in Configs /\ step \in DOMAIN Order
  /\ outcome \in {"off", "booting", "systemd", "returned", "shell", "failed", "panic"}
  /\ out \in {"console", "pipe"} /\ err \in {"console", "pipe"}
  /\ helper \in {"none", "reads", "gone"} /\ capture \in {"no", "yes", "half"}
  /\ root \in {"ro", "rw"} /\ proc \in BOOLEAN /\ activated \in BOOLEAN
  /\ links \in [Links -> Targets \cup {Nothing}] /\ temps \in [Links -> SUBSET (0 .. Attempts)]
  /\ made \in 0 .. Attempts \cup {Nothing} /\ faults \in 0 .. MaxFaults /\ cuts \in 0 .. MaxCuts

Up == outcome \in {"systemd", "returned"}

\* systemd starts with the console on both descriptors (unless one of the two calls that
\* redirect them failed, which nothing undoes), the special filesystems, a root
\* that can be written, the activation behind it, and every link it was promised.
HandOverReady ==
  Up =>
    /\ err = "console" /\ (out = "console" \/ capture = "half")
    /\ root = "rw" /\ (proc \/ config.inSystemd) /\ (activated \/ ~config.script)
    /\ links["booted"] = system /\ (config.current => links["current"] = system)
    /\ config.fhs => links["env"] = system /\ links["sh"] = system

\* A boot in which no call fails fails only for a reason: activation is asked for and not there, or every
\* temporary name in /usr/bin or /bin is left from boots that were cut short; /run starts empty.
FailsForAReason ==
  outcome \in {"failed", "panic", "shell"} /\ faults = 0 =>
    \/ config.strict /\ ~config.script
    \/ \E p \in Links \ Volatile : temps[p] = 0 .. Attempts /\ cuts > Attempts

\* Every boot comes to an end.
BootEnds == outcome = "booting" ~> outcome # "booting"
=============================================================================
