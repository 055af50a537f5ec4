------------------------------ MODULE BootPath ------------------------------
(***************************************************************************)
(* What a machine without a boot loader of its own boots: /sbin/init, which  *)
(* init-script-builder writes while the machine is up, starts stage 2 of the *)
(* configuration it names. Power fails at any step of the one or the other.  *)
(***************************************************************************)
EXTENDS InitScript

CONSTANTS Configs, Attempts, MaxFaults, MaxCuts  \* of Stage2

ASSUME ConfigOK ==
  \A c \in Configs :
    {c.container, c.inSystemd, c.proc, c.script, c.strict, c.atomic, c.current, c.fhs}
      \subseteq BOOLEAN
ASSUME BootBoundsOK == {Attempts, MaxFaults, MaxCuts} \subseteq Nat /\ Nothing \notin 0 .. Attempts

VARIABLES system, config, step, outcome, out, err, helper, capture, root, proc, activated,
          links, temps, made, faults, cuts

stage2Vars == <<system, config, step, outcome, out, err, helper, capture, root, proc, activated,
                links, temps, made, faults, cuts>>
S == INSTANCE Stage2 WITH Targets <- Systems

PathInit == Init /\ S!Init

\* The builder, garbage collection and rebuilding need a machine that is up, or the medium
\* that installs it. (Bound: after the last power failure but one there are only boots.)
Installing == outcome = "off" /\ (sbin.file = NoFile \/ at # "idle")
WhileUp == ((S!Up /\ cuts + 1 < MaxCuts) \/ Installing) /\ Next /\ UNCHANGED stage2Vars

\* The launcher executes the init of its configuration; the initrd of a systemd stage 1
\* is told one by the kernel command line.
Boot ==
  /\ \/ ~config.inSystemd /\ sbin.file # NoFile /\ S!PowerOn(sbin.file.does)
     \/ config.inSystemd /\ \E s \in wanted : S!PowerOn(s)
  /\ at = "idle" /\ UNCHANGED builderVars

\* Power failing takes the builder with it.
Cut ==
  /\ S!PowerCut /\ Ends
  /\ UNCHANGED <<profile, fileVars, fails, wanted>>

Stage2Step == (S!Run \/ S!HelperEnds) /\ UNCHANGED builderVars

pathVars == <<builderVars, stage2Vars>>
PathNext == WhileUp \/ Boot \/ Cut \/ Stage2Step
PathSpec == PathInit /\ [][PathNext]_pathVars /\ WF_pathVars(S!Run /\ UNCHANGED builderVars)
----------------------------------------------------------------------------
PathTypeOK == BuilderTypeOK /\ S!Stage2TypeOK

\* What stage 2 promises, and what it says when it fails, on whatever the builder has left.
HandOverReady == S!HandOverReady
FailsForAReason == S!FailsForAReason
BootEnds == S!BootEnds
=============================================================================
