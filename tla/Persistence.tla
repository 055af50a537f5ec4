---------------------------- MODULE Persistence ----------------------------
(***************************************************************************)
(* The persistence utility (src/crates/persistence/src/lib.rs): it switches *)
(* a root filesystem from the projections recorded in its runtime state to  *)
(* those of a new plan, or puts the recorded ones back when a step fails.   *)
(*                                                                          *)
(* A projection makes an object of a mounted store visible at a target path *)
(* of the root, as a bind mount or as a symlink.  One action is one system  *)
(* call that changes the filesystem (or one read-only check that decides    *)
(* which call comes next), so that a crash, a failing call and an           *)
(* administrator working on the same paths can come between any two.        *)
(*                                                                          *)
(* Abstractions.  A path is a target; Below is the nesting of targets, and  *)
(* it stands for the component-count sort, which only matters between       *)
(* nested paths.  Sources exist (prepare makes missing ones), lie on their  *)
(* stores and do not nest.  Owners and modes are left out: failing to set   *)
(* them is the fault "prepare".                                             *)
(***************************************************************************)
EXTENDS Naturals, FiniteSets

CONSTANTS
  Targets,        \* target paths
  Below,          \* <<t, u>>: path t lies strictly below path u
  Sources,        \* objects of the stores
  Options,        \* mount option lists of the plans
  Plans,          \* plans the NixOS module may hand over ({} is --clear)
  Preexisting,    \* nodes the administrator may own before the first run
  Root, Foreign,  \* the root filesystem; an object that is no source
  Nil,            \* no such thing
  FaultKinds,     \* which calls may fail for a reason of their own
  IdleActs,       \* what the administrator may do between two runs
  BusyActs,       \* what the administrator may do during a run
  MaxRuns, MaxFaults, MaxCrashes, MaxReboots, MaxActs  \* bounds

Methods == {"bind", "symlink"}
Kinds   == {"dir", "file"}

\* An Entry of the plan or of the runtime state.
Entry == [source : Sources, target : Targets, kind : Kinds, method : Methods,
          options : Options, placeholder : BOOLEAN]

\* A filesystem a path can resolve into, and the places of the targets in it.
Bases == Sources \cup {Root, Foreign}
Locs  == Bases \X Targets

\* What a directory entry holds and who put it there.
NodeType == [type : {"absent", "dir", "file", "link"},
             to : Sources \cup {Foreign, Nil}, by : {"core", "parent", "user", "none"}]
NoNode       == [type |-> "absent", to |-> Nil, by |-> "none"]
Made(k)      == [type |-> k, to |-> Nil, by |-> "core"]      \* a placeholder
ParentDir    == [type |-> "dir", to |-> Nil, by |-> "parent"]  \* by ensure_parent
LinkTo(s)    == [type |-> "link", to |-> s, by |-> "core"]
UserData(k)  == [type |-> k, to |-> Nil, by |-> "user"]
UserLink     == [type |-> "link", to |-> Foreign, by |-> "user"]

\* A mount hangs at a target inside the mounts at the targets `under`.
MountType == [at : Targets, under : SUBSET Targets, src : Sources \cup {Foreign},
              kind : Kinds, opts : Options \cup {Nil}]

ASSUME ConstantsOK ==
  /\ Below \subseteq Targets \X Targets
  /\ \A t \in Targets : <<t, t>> \notin Below
  /\ \A t, u, v \in Targets : <<t, u>> \in Below /\ <<u, v>> \in Below
                              => <<t, v>> \in Below
  /\ \A t, u, v \in Targets : <<t, u>> \in Below /\ <<t, v>> \in Below
                              => u = v \/ <<u, v>> \in Below \/ <<v, u>> \in Below
  /\ Plans \subseteq SUBSET Entry
  /\ \A p \in Plans : \A e \in p : ~e.placeholder
  /\ Preexisting \subseteq Locs \X Kinds
  /\ Root \notin Sources \cup {Foreign, Nil}
  /\ Foreign \notin Sources \cup {Nil}
  /\ Nil \notin Sources \cup Options
  /\ {MaxRuns, MaxFaults, MaxCrashes, MaxReboots, MaxActs} \subseteq Nat

VARIABLES
  fs,         \* Locs -> NodeType: the directory entries, mounts aside
  mounts,     \* the mount table
  state,      \* /run/nixos-core/persistence.json
  pc,         \* where the running utility is; "idle" when none runs
  phase,      \* "switch", or the failure path: "rollback" or "restore"
  previous,   \* in memory: the entries of the state file
  plan,       \* in memory: the entries of the new plan
  todo,       \* the entries the current loop has still to handle
  cur,        \* the entry being handled, Nil between two of them
  activated,  \* the entries this run has projected
  quarantine, \* the node renamed to .nixos-core-stale-<pid>
  strays,     \* quarantined nodes no run will look at again
  outcome,    \* how the last run ended, what it was asked for (a history variable)
  spent       \* use made of each bound

memory == <<phase, previous, plan, todo, cur, activated>>
vars   == <<fs, mounts, state, pc, memory, quarantine, strays, outcome, spent>>
----------------------------------------------------------------------------
(* Path resolution.                                                         *)

Above(t) == {u \in Targets : <<t, u>> \in Below}

\* C holds exactly the ancestors of t at which a walk to t crosses a mount.
IsChain(t, C) ==
  \A u \in Above(t) :
    (u \in C) <=> \E m \in mounts : m.at = u /\ m.under = C \cap Above(u)

Chain(t) == UNION {C \in SUBSET Above(t) : IsChain(t, C)}

MountAt(t) == {m \in mounts : m.at = t /\ m.under = Chain(t)}

\* The filesystem that holds the directory entry of t: that of the innermost mount.
Innermost(t) == {m \in mounts : m.at \in Chain(t) /\ m.under = Chain(t) \ {m.at}}
BaseOf(t)    == IF Innermost(t) = {} THEN Root ELSE (CHOOSE m \in Innermost(t) : TRUE).src

Loc(t) == <<BaseOf(t), t>>

\* What a walk finds at t: the root of a mount, or the directory entry.
Node(t) == IF MountAt(t) = {} THEN fs[Loc(t)]
           ELSE Made((CHOOSE m \in MountAt(t) : TRUE).kind)

Mounted(t)       == MountAt(t) # {}

\* Mutant: whatever is mounted passes for the projection.
MountedFromAny(t, s) == MountAt(t) # {}

MountedFrom(t, s) == \E m \in MountAt(t) : m.src = s
WalkFails(t)     == \E u \in Above(t) : Node(u).type \in {"file", "link"}
ParentMissing(t) == \E u \in Above(t) : Node(u).type = "absent"

\* open_node refuses symlinks and, for a directory entry, files.
OpenFails(e) ==
  \/ WalkFails(e.target)
  \/ Node(e.target).type = "link"
  \/ e.kind = "dir" /\ Node(e.target).type = "file"
WrongKind(e) == Node(e.target).type \notin {"absent", e.kind}

OwnLink(e) == ~WalkFails(e.target) /\ Node(e.target).type = "link"
                                   /\ Node(e.target).to = e.source
----------------------------------------------------------------------------
(* Plans.                                                                   *)

\* validate_and_sort: unique paths, nothing nested below a symlink.
ValidPlan(p) ==
  /\ \A e, f \in p : e # f => e.source # f.source /\ e.target # f.target
  /\ \A e, f \in p : e.method = "symlink" => <<f.target, e.target>> \notin Below

SameProjection(l, r) ==
  /\ l.source = r.source /\ l.target = r.target
  /\ l.kind = r.kind /\ l.method = r.method
  /\ l.method = "symlink" \/ l.options = r.options

\* Mutant: who made the bind target is forgotten from one run to the next.
InheritNothing(p, old) == p

InheritPlaceholders(p, old) ==
  {[e EXCEPT !.placeholder = \E o \in old : o.placeholder /\ SameProjection(o, e)]
     : e \in p}

\* Mutant: stale when some new entry differs, instead of every one.
StaleEntriesAny(old, new) == {o \in old : \E n \in new : ~SameProjection(o, n)}

StaleEntries(old, new) == {o \in old : \A n \in new : ~SameProjection(o, n)}

\* Mutant: what lies below a bind that goes or comes stays where it is.
RemovalOrderStaleOnly(old, new) == StaleEntries(old, new)

\* Stale entries, and all that is projected below a bind that goes or comes.
RemovalOrder(old, new) ==
  LET changing == {e.target : e \in {x \in StaleEntries(old, new)
                                           \cup StaleEntries(new, old)
                                       : x.method = "bind"}}
  IN StaleEntries(old, new)
       \cup {o \in old : \E u \in changing : <<o.target, u>> \in Below}

Overlap(t, u) == t = u \/ <<t, u>> \in Below \/ <<u, t>> \in Below

PreflightTarget(e) ==
  IF e.method = "bind"
  THEN /\ ~OpenFails(e) /\ ~WrongKind(e)
       /\ ~Mounted(e.target) \/ MountedFrom(e.target, e.source)
  ELSE /\ ~WalkFails(e.target)
       /\ Node(e.target).type = "absent" \/ OwnLink(e)

PreflightRemoval(e) ==
  IF e.method = "symlink" THEN ~WalkFails(e.target)
  ELSE ~OpenFails(e) /\ (Mounted(e.target) => MountedFrom(e.target, e.source))

Preflight(old, new) ==
  LET removed == RemovalOrder(old, new) IN
  /\ \A e \in new :
       (\A o \in removed : ~Overlap(o.target, e.target)) => PreflightTarget(e)
  /\ \A e \in removed : PreflightRemoval(e)

Bare(es)   == {[e EXCEPT !.placeholder = FALSE] : e \in es}
\* Mutant: the removal order is not sorted.
DeepestUnsorted(e) == TRUE

Deepest(e) == \A f \in todo : <<f.target, e.target>> \notin Below
Topmost(e) == \A f \in todo : <<e.target, f.target>> \notin Below
----------------------------------------------------------------------------
(* Control.                                                                 *)

\* A call fails for a reason of its own (EPERM, ENOSPC, EBUSY ...).
Fault(k) == /\ k \in FaultKinds /\ spent.faults < MaxFaults
            /\ spent' = [spent EXCEPT !.faults = @ + 1]
NoFault  == UNCHANGED spent

Forget == /\ phase' = "switch" /\ previous' = {} /\ plan' = {}
          /\ todo' = {} /\ cur' = Nil /\ activated' = {}

\* torn is a history variable: the plans that killed runs, or a reboot, may have
\* left something of, and that no later run has completed.
Torn(how) ==
  CASE how = "crashed"  -> outcome.torn \cup {outcome.goal}
    [] how = "rebooted" -> outcome.torn \cup ({Bare(state)} \ {{}})
                             \cup {p \in {outcome.goal} : pc # "idle"}
    [] how = "ok" /\ outcome.torn = {outcome.goal} -> {}
    [] OTHER -> outcome.torn

End(how) == /\ pc' = "idle" /\ Forget
            /\ outcome' = [outcome EXCEPT !.how = how, !.torn = Torn(how)]

Go(where) == pc' = where /\ UNCHANGED outcome

\* Mutant: restore projects the recorded entries without taking the new ones away.
FailKeepsNew(removing) ==
  \/ /\ phase = "switch"
     /\ Go("prepare") /\ phase' = "rollback" /\ todo' = previous /\ cur' = Nil
     /\ UNCHANGED <<previous, plan, activated>>
  \/ /\ phase # "switch"
     /\ End("lost")

\* A failed step: rollback(project(previous)) or rollback(restore(...)); a
\* failure of those ends the run.  `removing` tells which loop of the switch failed.
Fail(removing) ==
  \/ /\ phase = "switch" /\ removing
     /\ Go("prepare") /\ phase' = "rollback" /\ todo' = previous /\ cur' = Nil
     /\ UNCHANGED <<previous, plan, activated>>
  \/ /\ phase = "switch" /\ ~removing
     /\ Go("reconcile") /\ phase' = "restore" /\ todo' = activated /\ cur' = Nil
     /\ UNCHANGED <<previous, plan, activated>>
  \/ /\ phase # "switch"
     /\ End("lost")

\* Mutant: the entry in hand is not remembered.
EnterBlind(where, e) == Go(where) /\ UNCHANGED memory

Enter(where, e) == /\ Go(where) /\ cur' = e
                   /\ UNCHANGED <<phase, previous, plan, todo, activated>>

\* Mutant: the loop does not move on.
DoneAgain(where, e) ==
  /\ Go(where) /\ cur' = Nil
  /\ UNCHANGED <<phase, previous, plan, todo, activated>>

\* The loop over todo is through with e.
Done(where, e) ==
  /\ Go(where) /\ cur' = Nil
  /\ todo' = {f \in todo : f.target # e.target}
  /\ UNCHANGED <<phase, previous, plan, activated>>

disk == <<fs, mounts, state, quarantine, strays>>

\* run, up to and with preflight.
Start(p) ==
  LET new == InheritPlaceholders(p, state) IN
  /\ pc = "idle" /\ spent.runs < MaxRuns
  /\ ValidPlan(p) /\ Preflight(state, new)
  /\ pc' = "reconcile" /\ outcome' = [outcome EXCEPT !.how = "running", !.goal = p]
  /\ phase' = "switch"
  /\ previous' = state /\ plan' = new /\ todo' = RemovalOrder(state, new)
  /\ cur' = Nil /\ activated' = {}
  /\ spent' = [spent EXCEPT !.runs = @ + 1]
  /\ UNCHANGED disk

Refuse(p) ==
  /\ pc = "idle" /\ spent.runs < MaxRuns
  /\ ~(ValidPlan(p) /\ Preflight(state, InheritPlaceholders(p, state)))
  /\ pc' = pc /\ UNCHANGED memory
  /\ outcome' = [outcome EXCEPT !.how = "refused", !.goal = p]
  /\ spent' = [spent EXCEPT !.runs = @ + 1]
  /\ UNCHANGED disk
----------------------------------------------------------------------------
(* reconcile: take projections away, the deepest first.                     *)

\* remove_bind and remove_owned_symlink up to their first change.
BeginRemoval(e) ==
  /\ pc = "reconcile" /\ e \in todo /\ Deepest(e)
  /\ \/ e.method = "bind" /\ ~OpenFails(e) /\ MountedFrom(e.target, e.source)
        /\ Enter("umount", e)
     \/ e.method = "symlink" /\ OwnLink(e) /\ Enter("quarantine", e)
  /\ NoFault /\ UNCHANGED disk

SkipRemoval(e) ==
  /\ pc = "reconcile" /\ e \in todo /\ Deepest(e)
  /\ \/ e.method = "bind" /\ ~OpenFails(e) /\ ~Mounted(e.target)
     \/ e.method = "symlink" /\ ~WalkFails(e.target) /\ ~OwnLink(e)
  /\ Done("reconcile", e)
  /\ NoFault /\ UNCHANGED disk

RefuseRemoval(e) ==
  /\ pc = "reconcile" /\ e \in todo /\ Deepest(e)
  /\ \/ WalkFails(e.target)
     \/ /\ e.method = "bind"
        /\ \/ OpenFails(e)
           \/ Mounted(e.target) /\ ~MountedFrom(e.target, e.source)
  /\ Fail(TRUE)
  /\ NoFault /\ UNCHANGED disk

\* Something is mounted inside what is mounted at t: EBUSY.
Busy(t) == \E n \in MountAt(t), m \in mounts :
             t \in m.under /\ m.under \cap Above(t) = n.under

\* umount2, in the removal loop or to discard a bind that could not be completed.
Umount ==
  /\ pc \in {"umount", "discard"}
  /\ Mounted(cur.target) /\ ~Busy(cur.target)
  /\ mounts' = mounts \ MountAt(cur.target)
  /\ Enter(IF pc = "umount" THEN "unlink" ELSE "discard unlink", cur)
  /\ NoFault /\ UNCHANGED <<fs, state, quarantine, strays>>

UmountFails ==
  /\ pc \in {"umount", "discard"}
  /\ \/ (~Mounted(cur.target) \/ Busy(cur.target)) /\ NoFault
     \/ Fault("umount")
  /\ Fail(pc = "umount")
  /\ UNCHANGED disk

HasChildren(l) == \E u \in Targets : <<u, l[2]>> \in Below
                                   /\ fs[<<l[1], u>>].type # "absent"

\* Mutant: the placeholder flag is not looked at.
RemovableUnflagged(e) ==
  /\ ~Mounted(e.target)
  /\ \/ e.kind = "dir" /\ Node(e.target).type = "dir"
     \/ e.kind = "file" /\ Node(e.target).type \in {"file", "link"}

\* unlinkat takes the placeholder away; a directory with something in it stays. One of the
\* user's stands for a directory with something in it: an empty one that came to be at a
\* flagged path would go too, and nothing in it with it.
Removable(e) ==
  /\ e.placeholder /\ ~Mounted(e.target)
  /\ \/ /\ e.kind = "dir" /\ Node(e.target).type = "dir"
        /\ Node(e.target).by # "user" /\ ~HasChildren(Loc(e.target))
     \/ e.kind = "file" /\ Node(e.target).type \in {"file", "link"}

UnlinkFails(e) ==
  /\ e.placeholder
  /\ \/ Mounted(e.target)
     \/ e.kind = "dir" /\ Node(e.target).type \in {"file", "link"}
     \/ e.kind = "file" /\ Node(e.target).type = "dir"

\* forget and remove_placeholder; a failing forget still removes the placeholder.
Unlink ==
  /\ pc \in {"unlink", "discard unlink"}
  /\ fs' = IF Removable(cur) THEN [fs EXCEPT ![Loc(cur.target)] = NoNode] ELSE fs
  /\ \/ /\ NoFault
        /\ IF pc = "discard unlink" \/ UnlinkFails(cur) THEN Fail(pc = "unlink")
           ELSE Done("reconcile", cur)
     \/ Fault("forget") /\ Fail(pc = "unlink")
  /\ UNCHANGED <<mounts, state, quarantine, strays>>

\* remove_owned_symlink: move what is at the target out of the way ...
Quarantine ==
  /\ pc = "quarantine"
  /\ \/ /\ NoFault /\ ~Mounted(cur.target) /\ Node(cur.target).type # "absent"
        /\ quarantine' = Node(cur.target)
        /\ fs' = [fs EXCEPT ![Loc(cur.target)] = NoNode]
        /\ Enter("inspect", cur)
     \/ /\ NoFault /\ (Mounted(cur.target) \/ Node(cur.target).type = "absent")
        /\ Fail(TRUE) /\ UNCHANGED <<fs, quarantine>>
     \/ Fault("rename") /\ Fail(TRUE) /\ UNCHANGED <<fs, quarantine>>
  /\ UNCHANGED <<mounts, state, strays>>

\* Mutant: the quarantined node is taken for the one that was looked at before.
StillOursUnread == TRUE

\* The quarantined node is the link that was to be removed.
StillOurs == quarantine.type = "link" /\ quarantine.to = cur.source

\* ... look at it again, and remove it or put it back without replacing anything.
Inspect ==
  /\ pc = "inspect" /\ quarantine' = NoNode
  /\ \/ StillOurs /\ NoFault /\ Done("reconcile", cur) /\ UNCHANGED <<fs, strays>>
     \/ /\ StillOurs /\ Fault("unlink") /\ Fail(TRUE)
        /\ strays' = strays \cup {quarantine} /\ UNCHANGED fs
     \/ /\ ~StillOurs /\ Node(cur.target).type = "absent"
        /\ fs' = [fs EXCEPT ![Loc(cur.target)] = quarantine]
        /\ NoFault /\ Fail(TRUE) /\ UNCHANGED strays
     \/ /\ ~StillOurs /\ Node(cur.target).type # "absent"
        /\ strays' = strays \cup {quarantine}
        /\ NoFault /\ Fail(TRUE) /\ UNCHANGED fs
  /\ UNCHANGED <<mounts, state>>

EndReconcile ==
  /\ pc = "reconcile" /\ todo = {}
  /\ \/ phase = "switch" /\ Go("stores") /\ UNCHANGED todo
     \/ phase = "restore" /\ Go("prepare") /\ todo' = previous
  /\ NoFault /\ UNCHANGED <<disk, phase, previous, plan, cur, activated>>
----------------------------------------------------------------------------
(* project: make projections, the topmost first.                            *)

CheckStores ==
  /\ pc = "stores"
  /\ \/ /\ NoFault /\ Go("prepare") /\ todo' = plan
        /\ UNCHANGED <<phase, previous, plan, cur, activated>>
     \/ Fault("stores") /\ Fail(FALSE)
  /\ UNCHANGED disk

WithParents(t) ==
  [l \in Locs |-> IF \E u \in Above(t) : Node(u).type = "absent" /\ l = Loc(u)
                  THEN ParentDir ELSE fs[l]]

\* The loop works on the plan, or on the recorded entries when it restores them.
Replace(es, e, f) == {IF x = e THEN f ELSE x : x \in es}

\* prepare: parents and, for a bind, the node to mount on.
Prepare(e) ==
  LET makes == e.method = "bind" /\ Node(e.target).type = "absent"
      f     == [e EXCEPT !.placeholder = @ \/ makes]
  IN /\ pc = "prepare" /\ e \in todo /\ Topmost(e)
     /\ ~WalkFails(e.target)
     /\ e.method = "bind" => ~OpenFails(e) /\ ~WrongKind(e)
     /\ fs' = IF makes THEN [WithParents(e.target) EXCEPT ![Loc(e.target)] = Made(e.kind)]
              ELSE WithParents(e.target)
     /\ Go("activate") /\ cur' = f /\ todo' = Replace(todo, e, f)
     /\ IF phase = "switch"
        THEN plan' = Replace(plan, e, f) /\ UNCHANGED previous
        ELSE previous' = Replace(previous, e, f) /\ UNCHANGED plan
     /\ NoFault /\ UNCHANGED <<mounts, state, quarantine, strays, phase, activated>>

PrepareFails(e) ==
  /\ pc = "prepare" /\ e \in todo /\ Topmost(e)
  /\ \/ /\ \/ WalkFails(e.target)
           \/ e.method = "bind" /\ (OpenFails(e) \/ WrongKind(e))
        /\ NoFault /\ UNCHANGED fs
     \/ Fault("prepare") /\ ~WalkFails(e.target) /\ fs' \in {fs, WithParents(e.target)}
  /\ Fail(FALSE)
  /\ UNCHANGED <<mounts, state, quarantine, strays>>

\* The mount or symlink call cannot succeed whatever its own fate.
ActivateRefused(e) ==
  IF e.method = "bind"
  THEN \/ OpenFails(e) \/ Node(e.target).type # e.kind
       \/ Mounted(e.target) /\ ~MountedFrom(e.target, e.source)
  ELSE \/ WalkFails(e.target) \/ ParentMissing(e.target)
       \/ Node(e.target).type # "absent" /\ ~OwnLink(e)

AlreadyThere(e) == IF e.method = "bind" THEN MountedFrom(e.target, e.source)
                                        ELSE OwnLink(e)

NewMount(e) == [at |-> e.target, under |-> Chain(e.target), src |-> e.source,
                kind |-> e.kind, opts |-> Nil]

Activated == /\ Go("prepare") /\ cur' = Nil
             /\ todo' = {f \in todo : f.target # cur.target}
             /\ activated' = activated \cup {cur}
             /\ UNCHANGED <<phase, previous, plan>>

\* bind up to mount, or link.
Activate ==
  /\ pc = "activate" /\ ~ActivateRefused(cur)
  /\ \/ AlreadyThere(cur) /\ Done("prepare", cur) /\ UNCHANGED <<fs, mounts>>
     \/ /\ ~AlreadyThere(cur) /\ cur.method = "bind"
        /\ mounts' = mounts \cup {NewMount(cur)}
        /\ Enter("apply", cur) /\ UNCHANGED fs
     \/ /\ ~AlreadyThere(cur) /\ cur.method = "symlink"
        /\ fs' = [fs EXCEPT ![Loc(cur.target)] = LinkTo(cur.source)]
        /\ Activated /\ UNCHANGED mounts
  /\ NoFault /\ UNCHANGED <<state, quarantine, strays>>

ActivateFails ==
  /\ pc = "activate"
  /\ \/ ActivateRefused(cur) /\ NoFault
     \/ /\ ~ActivateRefused(cur) /\ ~AlreadyThere(cur)
        /\ Fault(IF cur.method = "bind" THEN "mount" ELSE "link")
  /\ Fail(FALSE)
  /\ UNCHANGED disk

\* bind after mount: options.apply and options.record.
Apply ==
  /\ pc = "apply" /\ MountedFrom(cur.target, cur.source)
  /\ mounts' = {IF m \in MountAt(cur.target) THEN [m EXCEPT !.opts = cur.options] ELSE m
                  : m \in mounts}
  /\ Activated
  /\ NoFault /\ UNCHANGED <<fs, state, quarantine, strays>>

ApplyFails ==
  /\ pc = "apply"
  /\ \/ ~MountedFrom(cur.target, cur.source) /\ NoFault
     \/ Fault("apply")
  /\ Enter("discard", cur)
  /\ UNCHANGED disk

EndProject ==
  /\ pc = "prepare" /\ todo = {}
  /\ \/ /\ phase = "switch" /\ Go("write")
        /\ UNCHANGED memory
     \/ phase # "switch" /\ End("restored")
  /\ NoFault /\ UNCHANGED disk

\* Mutant: a commit that reports an error has renamed the file all the same.
WriteStateDirty ==
  /\ pc = "write" /\ state' = plan
  /\ \/ NoFault /\ End("ok")
     \/ Fault("write") /\ Fail(FALSE)
  /\ UNCHANGED <<fs, mounts, quarantine, strays>>

\* write_state: the rename commits.
WriteState ==
  /\ pc = "write"
  /\ \/ NoFault /\ state' = plan /\ End("ok")
     \/ Fault("write") /\ Fail(FALSE) /\ UNCHANGED state
  /\ UNCHANGED <<fs, mounts, quarantine, strays>>
----------------------------------------------------------------------------
(* The environment.                                                         *)

Abandon(how) ==
  /\ End(how)
  /\ strays' = strays \cup ({quarantine} \ {NoNode}) /\ quarantine' = NoNode

\* The utility is killed.
Crash == /\ pc # "idle" /\ spent.crashes < MaxCrashes
         /\ spent' = [spent EXCEPT !.crashes = @ + 1]
         /\ Abandon("crashed") /\ UNCHANGED <<fs, mounts, state>>

\* The machine restarts: mounts and /run are gone, the persistent root is not.
Reboot == /\ spent.reboots < MaxReboots
          /\ spent' = [spent EXCEPT !.reboots = @ + 1]
          /\ Abandon("rebooted") /\ mounts' = {} /\ state' = {} /\ UNCHANGED fs

Admin(act) == /\ act \in (IF pc = "idle" THEN IdleActs ELSE BusyActs)
              /\ spent.acts < MaxActs
              /\ spent' = [spent EXCEPT !.acts = @ + 1]
              /\ UNCHANGED <<state, pc, memory, quarantine, strays, outcome>>

Reachable(t) == ~WalkFails(t) /\ ~ParentMissing(t)

AdminLink(t) ==       \* ln -sfn
  /\ Admin("link") /\ Reachable(t) /\ Node(t).type \in {"absent", "link"}
  /\ fs' = [fs EXCEPT ![Loc(t)] = UserLink] /\ UNCHANGED mounts
AdminWrite(t, k) ==   \* a new object, or data put into a placeholder
  /\ Admin("write") /\ Reachable(t) /\ ~Mounted(t)
  /\ Node(t) \in {NoNode, Made(k)}
  /\ fs' = [fs EXCEPT ![Loc(t)] = UserData(k)] /\ UNCHANGED mounts
AdminMount(t) ==
  /\ Admin("mount") /\ Reachable(t) /\ ~Mounted(t) /\ Node(t).type = "dir"
  /\ mounts' = mounts \cup {[at |-> t, under |-> Chain(t), src |-> Foreign,
                             kind |-> "dir", opts |-> Nil]}
  /\ UNCHANGED fs
AdminUnmount(t) ==
  /\ Admin("umount") /\ ~WalkFails(t) /\ Mounted(t) /\ ~Busy(t)
  /\ mounts' = mounts \ MountAt(t) /\ UNCHANGED fs

\* The user's objects are where they can be: in directories that exist.
InitialNodes ==
  {N \in SUBSET Preexisting :
     /\ \A x, y \in N : x[1] = y[1] => x = y
     /\ \A x \in N : \A u \in Above(x[1][2]) : <<<<x[1][1], u>>, "dir">> \in N}

Init ==
  /\ \E N \in InitialNodes :
       fs = [l \in Locs |-> IF \E k \in Kinds : <<l, k>> \in N
                            THEN UserData(CHOOSE k \in Kinds : <<l, k>> \in N)
                            ELSE NoNode]
  /\ mounts = {} /\ state = {} /\ pc = "idle"
  /\ phase = "switch" /\ previous = {} /\ plan = {} /\ todo = {} /\ cur = Nil
  /\ activated = {} /\ quarantine = NoNode /\ strays = {}
  /\ outcome = [how |-> "none", goal |-> {}, torn |-> {}]
  /\ spent = [runs |-> 0, faults |-> 0, crashes |-> 0, reboots |-> 0, acts |-> 0]

Remove == \/ \E e \in todo : BeginRemoval(e) \/ SkipRemoval(e) \/ RefuseRemoval(e)
          \/ Umount \/ UmountFails \/ Unlink \/ Quarantine \/ Inspect \/ EndReconcile
Project == \/ CheckStores \/ \E e \in todo : Prepare(e) \/ PrepareFails(e)
           \/ Activate \/ ActivateFails \/ Apply \/ ApplyFails
           \/ EndProject \/ WriteState
Step    == Remove \/ Project
Run     == \E p \in Plans : Start(p) \/ Refuse(p)
Environment ==
  \/ Crash \/ Reboot
  \/ \E t \in Targets : \/ AdminLink(t) \/ AdminMount(t) \/ AdminUnmount(t)
                        \/ \E k \in Kinds : AdminWrite(t, k)

Next == Run \/ Step \/ Environment

Spec     == Init /\ [][Next]_vars
FairSpec == Spec /\ WF_vars(Step)
----------------------------------------------------------------------------
(* Properties.                                                              *)

DiskType == /\ fs \in [Locs -> NodeType] /\ mounts \subseteq MountType
            /\ state \subseteq Entry
            /\ quarantine \in NodeType /\ strays \subseteq NodeType

MemoryType ==
  /\ phase \in {"switch", "rollback", "restore"}
  /\ previous \subseteq Entry /\ plan \subseteq Entry
  /\ todo \subseteq Entry /\ activated \subseteq Entry
  /\ cur \in Entry \cup {Nil}

Between == {"idle", "reconcile", "stores", "prepare", "write"}  \* no entry in hand
Within  == {"umount", "unlink", "quarantine", "inspect", "activate", "apply",
            "discard", "discard unlink"}

ControlType ==
  /\ pc \in Between \cup Within
  /\ pc \in Within => cur \in Entry
  /\ outcome \in [how : {"none", "running", "ok", "refused", "restored", "lost",
                          "crashed", "rebooted"},
                   goal : SUBSET Entry, torn : SUBSET SUBSET Entry]
  /\ spent \in [runs : Nat, faults : Nat, crashes : Nat, reboots : Nat, acts : Nat]

TypeOK == DiskType /\ MemoryType /\ ControlType

Projected(e) ==
  IF e.method = "bind"
  THEN \E m \in MountAt(e.target) : m.src = e.source /\ m.opts = e.options
  ELSE OwnLink(e)

\* No mount of a store and no link of ours but those of es, and none hidden.
NothingElse(es) ==
  /\ \A m \in mounts : m.src \in Sources =>
       m \in MountAt(m.at) /\ \E e \in es : e.target = m.at /\ e.source = m.src
  /\ \A l \in Locs : fs[l].type = "link" /\ fs[l].by = "core" =>
       \E e \in es : e.method = "symlink" /\ Loc(e.target) = l

InPlace(es) == (\A e \in es : Projected(e)) /\ NothingElse(es)

\* A run that succeeds has recorded the plan it was given, every entry of it is
\* visible at its target with its own options, none shadowed by a parent that
\* arrived later, and no earlier projection is left (run, reconcile, project).
SwitchComplete ==
  outcome.how = "ok" => Bare(state) = outcome.goal /\ InPlace(state)

\* A run that fails leaves the recorded plan, and only it, in place (rollback
\* and restore in run; README: "restores the recorded plan").
FailureRestores == outcome.how \in {"refused", "restored"} => InPlace(state)

\* Between runs the root shows the plan asked for or the one recorded before, and no mix.
PlanOrRecorded == SwitchComplete /\ FailureRestores

\* One failing call never costs the recorded projections: the failure path of
\* run then succeeds (README: "restores the recorded plan if a new projection or
\* state commit fails").  It needs paths that keep to one kind: the directory that
\* ensure_parent makes above a new entry stays when the run fails, and a recorded link
\* at that path cannot come back.
OneFaultIsRestored == outcome.how # "lost"

\* The removal order never asks for an unmount that its own projections, mounted
\* inside, would make fail with EBUSY (removal_order).
NeverBusyOfItself == pc = "umount" => ~Busy(cur.target)

\* A bind target the utility created is there only while an entry of the state
\* file says so (README: "a bind target nixos-core created goes away with its
\* projection").
NoOrphanPlaceholder ==
  pc = "idle" =>
    \A l \in Locs : fs[l].by = "core" /\ fs[l].type # "link" =>
      \E e \in state : e.placeholder /\ e.target = l[2]

\* Whatever runs were killed before, a run that succeeds serves its plan, and after
\* a retry of the plan whose runs were killed nothing else is left in place
\* (bind and link take what is already there for done, mount options not looked at).
RetryCompletes ==
  outcome.how = "ok" /\ spent.acts = 0 =>
    /\ \A e \in state : AlreadyThere(e)
    /\ outcome.torn = {} => NothingElse(state)

UtilityStep == pc # "idle" /\ spent'.acts = spent.acts /\ spent'.reboots = spent.reboots

\* What the user keeps at a target is hidden by a bind mount, and neither removed
\* nor overwritten by any step of the utility; a link may be moved to the
\* quarantine name (README: "Existing bind targets are hidden, not copied").
HiddenTargetsSurvive ==
  [][UtilityStep => \A l \in Locs : fs[l].by = "user" => fs'[l] = fs[l]
                                                       \/ quarantine' = fs[l]]_vars

\* A node of the user that was caught in the quarantine goes back to its target,
\* or stays under the quarantine name: it is never unlinked (remove_owned_symlink).
GivesBack == quarantine.by = "user" => \/ quarantine' = quarantine
                                       \/ quarantine \in strays'
                                       \/ \E l \in Locs : fs'[l] = quarantine
QuarantineGivesBack == [][GivesBack]_vars

\* The utility never unmounts what somebody else has mounted (README: "A stale
\* bind mount is removed only when its target still resolves to the recorded
\* source").
KeepsForeign == UtilityStep => \A m \in mounts : m.src = Foreign => m \in mounts'
ForeignMountsKept == [][KeepsForeign]_vars

\* What QuarantineGivesBack rests on: the quarantine is empty but for one step of the
\* removal, and a link of the user cannot be mistaken for one to a source.
UserNode(n) == n.by = "user" => n.type # "absent" /\ (n.type = "link" => n.to = Foreign)
QuarantineInv == /\ pc # "inspect" => quarantine = NoNode
                 /\ UserNode(quarantine) /\ \A l \in Locs : UserNode(fs[l])

\* What ForeignMountsKept rests on: one mount per place, and from the check of its
\* source to the unmount the mount in hand is the utility's own.
MountsInv == /\ \A m, n \in mounts : m.at = n.at /\ m.under = n.under => m = n
             /\ pc \in {"umount", "apply", "discard"} =>
                  \A m \in MountAt(cur.target) : m.src = cur.source

\* Every run ends, the failure paths of a failing run included.
RunsEnd == pc # "idle" ~> pc = "idle"

\* Between two runs the root serves what its projections say; during a run, which
\* AtomicSwitch does not show, it counts as serving what is recorded.
Served == IF pc = "idle"
          THEN {e \in (UNION Plans) \cup Bare(state) : Projected(e)}
          ELSE Bare(state)
Abstract == INSTANCE AtomicSwitch WITH recorded <- Bare(state), served <- Served

\* The utility implements the atomic switch of plans.
ImplementsAtomicSwitch == Abstract!Spec
=============================================================================
