------------------------- MODULE PersistenceProofs -------------------------
(* Theorems about Persistence, for every tree of targets and every plan.    *)
EXTENDS Persistence, FiniteSetTheorems, WellFoundedInduction, TLAPS

\* The constant nodes are nodes; a location is a directory entry of the model, whatever is
\* mounted, and the node that a walk finds there is one.
LEMMA NodesTyped ==
  /\ NoNode \in NodeType /\ ParentDir \in NodeType /\ UserLink \in NodeType
  /\ \A k \in Kinds : Made(k) \in NodeType /\ UserData(k) \in NodeType
  /\ \A s \in Sources : LinkTo(s) \in NodeType
  /\ mounts \subseteq MountType => \A t \in Targets : Loc(t) \in Locs
  /\ mounts \subseteq MountType /\ fs \in [Locs -> NodeType] => \A t \in Targets : Node(t) \in NodeType
\* A location is a directory entry of the model, whatever is mounted.
<1>1. ASSUME NEW t \in Targets, mounts \subseteq MountType
      PROVE  Loc(t) \in Locs
  <2>1. BaseOf(t) \in Bases
    <3>1. CASE Innermost(t) = {}
      BY <3>1 DEF BaseOf, Bases
    <3>2. CASE Innermost(t) # {}
      <4>1. (CHOOSE m \in Innermost(t) : TRUE) \in MountType
        BY <1>1, <3>2 DEF Innermost
      <4>2. QED BY <3>2, <4>1 DEF BaseOf, Bases, MountType
    <3>3. QED BY <3>1, <3>2
  <2>2. QED BY <2>1 DEF Loc, Locs
\* The constant nodes.
<1>2. /\ NoNode \in NodeType /\ ParentDir \in NodeType /\ UserLink \in NodeType
      /\ \A k \in Kinds : Made(k) \in NodeType /\ UserData(k) \in NodeType
      /\ \A s \in Sources : LinkTo(s) \in NodeType
  BY DEF NoNode, ParentDir, UserLink, Made, UserData, LinkTo, NodeType, Kinds
\* The node a walk finds is one.
<1>3. ASSUME NEW t \in Targets, mounts \subseteq MountType, fs \in [Locs -> NodeType]
      PROVE  Node(t) \in NodeType
  <2>1. CASE MountAt(t) = {}
    BY <1>3, <2>1, <1>1 DEF Node
  <2>2. CASE MountAt(t) # {}
    <3>1. (CHOOSE m \in MountAt(t) : TRUE) \in MountType
      BY <1>3, <2>2 DEF MountAt
    <3>2. (CHOOSE m \in MountAt(t) : TRUE).kind \in Kinds
      BY <3>1 DEF MountType
    <3>3. Made((CHOOSE m \in MountAt(t) : TRUE).kind) \in NodeType
      BY <3>2 DEF Made, NodeType, Kinds
    <3>4. QED BY <2>2, <3>3 DEF Node
  <2>3. QED BY <2>1, <2>2
<1> QED BY <1>1, <1>2, <1>3
-----------------------------------------------------------------------------
(* Type correctness.  First the pieces of control the actions are made of.  *)

\* Control stays typed through a failure, an entry and the end of one.
LEMMA ControlTyped ==
  ASSUME TypeOK, spent' \in [runs : Nat, faults : Nat, crashes : Nat,
                             reboots : Nat, acts : Nat]
  PROVE  /\ \A r \in BOOLEAN : Fail(r) => MemoryType' /\ ControlType'
         /\ \A w \in Within, e \in Entry : Enter(w, e) => MemoryType' /\ ControlType'
         /\ \A w \in Between, e \in Entry : Done(w, e) => MemoryType' /\ ControlType'
         /\ \A how \in {"ok", "refused", "restored", "lost", "crashed", "rebooted"} :
              End(how) => MemoryType' /\ ControlType'
\* Ending a run leaves well-typed memory.
<1>e. ASSUME TypeOK, NEW how \in {"ok", "refused", "restored", "lost", "crashed", "rebooted"},
             End(how)
      PROVE  MemoryType' /\ pc' \in Between /\ outcome' \in
               [how : {"none", "running", "ok", "refused", "restored", "lost",
                       "crashed", "rebooted"},
                goal : SUBSET Entry, torn : SUBSET SUBSET Entry]
  <2>1. Torn(how) \in SUBSET SUBSET Entry
    <3>1. outcome.torn \in SUBSET SUBSET Entry /\ outcome.goal \in SUBSET Entry
      BY DEF TypeOK, ControlType
    <3>2. Bare(state) \in SUBSET Entry
      BY DEF TypeOK, DiskType, Bare, Entry
    <3>3. QED BY <3>1, <3>2 DEF Torn
  <2>2. MemoryType' /\ pc' \in Between
    BY <1>e DEF End, Forget, MemoryType, Between
  <2>3. QED BY <1>e, <2>1, <2>2 DEF End, TypeOK, ControlType
<1>1. ASSUME NEW how \in {"ok", "refused", "restored", "lost", "crashed", "rebooted"},
             End(how)
      PROVE  MemoryType' /\ ControlType'
  BY <1>1, <1>e DEF ControlType, Between, Within
<1>2. ASSUME NEW r \in BOOLEAN, Fail(r)
      PROVE  MemoryType' /\ ControlType'
  <2>1. CASE phase # "switch"
    BY <1>1, <1>2, <2>1 DEF Fail
  <2>2. CASE phase = "switch"
    BY <1>2, <2>2 DEF Fail, Go, TypeOK, MemoryType, ControlType, Between, Within
  <2>3. QED BY <2>1, <2>2
<1>3. ASSUME NEW w \in Within, NEW e \in Entry, Enter(w, e)
      PROVE  MemoryType' /\ ControlType'
  BY <1>3 DEF Enter, Go, TypeOK, MemoryType, ControlType
<1>4. ASSUME NEW w \in Between, NEW e \in Entry, Done(w, e)
      PROVE  MemoryType' /\ ControlType'
  BY <1>4 DEF Done, Go, TypeOK, MemoryType, ControlType, Between, Within
<1>5. QED BY <1>1, <1>2, <1>3, <1>4

\* Every action uses up its bounds in natural numbers.
LEMMA SpentTyped ==
  ASSUME TypeOK
  PROVE  /\ NoFault => spent' \in [runs : Nat, faults : Nat, crashes : Nat,
                                   reboots : Nat, acts : Nat]
         /\ \A k : Fault(k) => spent' \in [runs : Nat, faults : Nat, crashes : Nat,
                                            reboots : Nat, acts : Nat]
BY DEF TypeOK, ControlType, NoFault, Fault

\* Every reachable state of the utility and its environment is well typed.
THEOREM TypeCorrect == Spec => []TypeOK
<1>1. Init => TypeOK
  <2> SUFFICES ASSUME Init PROVE TypeOK
    OBVIOUS
  <2>1. PICK N \in InitialNodes :
          fs = [l \in Locs |-> IF \E k \in Kinds : <<l, k>> \in N
                               THEN UserData(CHOOSE k \in Kinds : <<l, k>> \in N)
                               ELSE NoNode]
    BY DEF Init
  <2>2. fs \in [Locs -> NodeType]
    BY <2>1, NodesTyped
  <2>3. QED BY <2>2, NodesTyped DEF Init, TypeOK, DiskType, MemoryType, ControlType,
     Between, Within
\* Every step keeps the types.
<1>s. TypeOK /\ [Next]_vars => TypeOK'
  \* A step of the removal loop keeps the types.
  <2>1. TypeOK /\ Remove => TypeOK'
    <3> SUFFICES ASSUME TypeOK, Remove PROVE TypeOK'
      OBVIOUS
    <3>a. fs \in [Locs -> NodeType] /\ mounts \subseteq MountType /\ todo \subseteq Entry
      BY DEF TypeOK, DiskType, MemoryType
    <3>b. pc \in Within => /\ cur \in Entry /\ cur.target \in Targets
                           /\ Node(cur.target) \in NodeType /\ Loc(cur.target) \in Locs
      BY <3>a, NodesTyped DEF TypeOK, ControlType, Entry
    <3>1. ASSUME NEW e \in todo, BeginRemoval(e)
          PROVE  TypeOK'
      <4>1. DiskType'
        BY <3>1 DEF BeginRemoval, disk, TypeOK, DiskType
      <4>2. e \in Entry /\ "umount" \in Within /\ "quarantine" \in Within
        BY <3>a DEF Within
      <4>3. QED BY <3>1, <4>1, <4>2, SpentTyped, ControlTyped DEF BeginRemoval, TypeOK
    <3>2. ASSUME NEW e \in todo, SkipRemoval(e) \/ RefuseRemoval(e)
          PROVE  TypeOK'
      <4>1. DiskType'
        BY <3>2 DEF SkipRemoval, RefuseRemoval, disk, TypeOK, DiskType
      <4>2. e \in Entry /\ "reconcile" \in Between
        BY <3>a DEF Between
      <4>3. QED BY <3>2, <4>1, <4>2, SpentTyped, ControlTyped DEF SkipRemoval, RefuseRemoval, TypeOK
    <3>3. CASE Umount
      <4>1. DiskType'
        BY <3>3 DEF Umount, TypeOK, DiskType
      <4>2. pc \in Within /\ (IF pc = "umount" THEN "unlink" ELSE "discard unlink") \in Within
        BY <3>3 DEF Umount, Within
      <4>3. QED BY <3>3, <3>b, <4>1, <4>2, SpentTyped, ControlTyped DEF Umount, TypeOK
    <3>4. CASE UmountFails
      <4>1. DiskType'
        BY <3>4 DEF UmountFails, disk, TypeOK, DiskType
      <4>2. QED BY <3>4, <4>1, SpentTyped, ControlTyped DEF UmountFails, TypeOK
    <3>5. CASE Unlink
      <4>1. pc \in Within /\ "reconcile" \in Between /\ (pc = "unlink") \in BOOLEAN
        BY <3>5 DEF Unlink, Within, Between
      <4>2. DiskType'
        BY <3>5, <3>a, NodesTyped DEF Unlink, TypeOK, DiskType
      <4>3. QED BY <3>5, <3>b, <4>1, <4>2, SpentTyped, ControlTyped DEF Unlink, TypeOK
    <3>6. CASE Quarantine
      <4>1. pc \in Within /\ "inspect" \in Within
        BY <3>6 DEF Quarantine, Within
      <4>2. DiskType'
        BY <3>6, <3>a, <3>b, <4>1, NodesTyped DEF Quarantine, TypeOK, DiskType
      <4>3. QED BY <3>6, <3>b, <4>1, <4>2, SpentTyped, ControlTyped DEF Quarantine, TypeOK
    <3>7. CASE Inspect
      <4>1. pc \in Within /\ "reconcile" \in Between
        BY <3>7 DEF Inspect, Within, Between
      <4>2. DiskType'
        BY <3>7, <3>a, NodesTyped DEF Inspect, TypeOK, DiskType
      <4>3. QED BY <3>7, <3>b, <4>1, <4>2, SpentTyped, ControlTyped DEF Inspect, TypeOK
    <3>8. CASE EndReconcile
      BY <3>8 DEF EndReconcile, Go, NoFault, disk, TypeOK, DiskType, MemoryType, ControlType,
         Between, Within
    <3>9. QED BY <3>1, <3>2, <3>3, <3>4, <3>5, <3>6, <3>7, <3>8 DEF Remove
  \* So does a step of the projection loop and of the commit.
  <2>2. TypeOK /\ Project => TypeOK'
    <3> SUFFICES ASSUME TypeOK, Project PROVE TypeOK'
      OBVIOUS
    <3>a. fs \in [Locs -> NodeType] /\ mounts \subseteq MountType /\ todo \subseteq Entry
      BY DEF TypeOK, DiskType, MemoryType
    <3>b. pc \in Within => /\ cur \in Entry /\ cur.target \in Targets
                           /\ Node(cur.target) \in NodeType /\ Loc(cur.target) \in Locs
      BY <3>a, NodesTyped DEF TypeOK, ControlType, Entry
    <3>c. \A t : WithParents(t) \in [Locs -> NodeType]
      BY <3>a, NodesTyped DEF WithParents
    <3>d. pc \in Within /\ Activated => /\ MemoryType' /\ pc' \in Between
                                          /\ UNCHANGED outcome
      BY <3>b DEF Activated, Go, TypeOK, MemoryType, Between
    <3>1. CASE CheckStores
      <4>1. CASE Fault("stores") /\ Fail(FALSE)
        <5>1. DiskType'
          BY <3>1 DEF CheckStores, disk, TypeOK, DiskType
        <5>2. QED BY <4>1, <5>1, SpentTyped, ControlTyped DEF TypeOK
      <4>2. CASE ~(Fault("stores") /\ Fail(FALSE))
        BY <3>1, <4>2 DEF CheckStores, Go, NoFault, disk, TypeOK, DiskType, MemoryType,
           ControlType, Between, Within
      <4>3. QED BY <4>1, <4>2
    <3>2. ASSUME NEW e \in todo, Prepare(e)
          PROVE  TypeOK'
      <4> DEFINE makes == e.method = "bind" /\ Node(e.target).type = "absent"
                 f == [e EXCEPT !.placeholder = @ \/ makes]
      <4>1. e \in Entry /\ f \in Entry
        BY <3>a DEF Entry
      <4>2. \A es : es \subseteq Entry => Replace(es, e, f) \subseteq Entry
        BY <4>1 DEF Replace
      <4>3. Made(e.kind) \in NodeType
        BY <4>1, NodesTyped DEF Entry
      <4>4. /\ fs' = IF makes THEN [WithParents(e.target) EXCEPT ![Loc(e.target)] = Made(e.kind)]
                     ELSE WithParents(e.target)
            /\ Go("activate") /\ cur' = f /\ todo' = Replace(todo, e, f)
            /\ IF phase = "switch"
               THEN plan' = Replace(plan, e, f) /\ UNCHANGED previous
               ELSE previous' = Replace(previous, e, f) /\ UNCHANGED plan
            /\ NoFault /\ UNCHANGED <<mounts, state, quarantine, strays, phase, activated>>
        BY <3>2 DEF Prepare
      <4> HIDE DEF f, makes
      <4>5. fs' \in [Locs -> NodeType]
        BY <3>c, <4>3, <4>4
      <4>6. DiskType'
        BY <4>4, <4>5 DEF TypeOK, DiskType
      <4>7. MemoryType'
        BY <4>1, <4>2, <4>4 DEF TypeOK, MemoryType
      <4>8. ControlType'
        BY <4>1, <4>4 DEF Go, NoFault, TypeOK, ControlType, Between, Within
      <4>9. QED BY <4>6, <4>7, <4>8 DEF TypeOK
    <3>3. ASSUME NEW e \in todo, PrepareFails(e)
          PROVE  TypeOK'
      <4>1. DiskType'
        BY <3>3, <3>a, <3>c DEF PrepareFails, TypeOK, DiskType
      <4>2. QED BY <3>3, <4>1, SpentTyped, ControlTyped DEF PrepareFails, TypeOK
    <3>4. CASE Activate
      <4>1. pc \in Within /\ "prepare" \in Between /\ "apply" \in Within
        BY <3>4 DEF Activate, Within, Between
      <4>2. NewMount(cur) \in MountType
        BY <3>b, <4>1 DEF Chain, Above, NewMount, MountType, Entry
      <4>3. LinkTo(cur.source) \in NodeType
        BY <3>b, <4>1, NodesTyped DEF Entry
      <4>4. DiskType'
        BY <3>4, <3>a, <4>2, <4>3 DEF Activate, TypeOK, DiskType
      <4>5. CASE Activated
        BY <3>4, <3>d, <4>1, <4>4, <4>5 DEF Activate, NoFault, TypeOK, ControlType, Between, Within
      <4>6. CASE ~Activated
        BY <3>4, <3>b, <4>1, <4>4, <4>6, SpentTyped, ControlTyped DEF Activate, TypeOK
      <4>7. QED BY <4>5, <4>6
    <3>5. CASE ActivateFails
      <4>1. DiskType'
        BY <3>5 DEF ActivateFails, disk, TypeOK, DiskType
      <4>2. QED BY <3>5, <4>1, SpentTyped, ControlTyped DEF ActivateFails, TypeOK
    <3>6. CASE Apply
      <4>1. pc \in Within
        BY <3>6 DEF Apply, Within
      <4>2. \A m \in mounts : [m EXCEPT !.opts = cur.options] \in MountType
        BY <3>a, <3>b, <4>1 DEF MountType, Entry
      <4>3. DiskType'
        BY <3>6, <3>a, <4>2 DEF Apply, TypeOK, DiskType
      <4>4. QED BY <3>6, <3>d, <4>1, <4>3 DEF Apply, NoFault, TypeOK, ControlType, Between, Within
    <3>7. CASE ApplyFails
      <4>1. DiskType'
        BY <3>7 DEF ApplyFails, disk, TypeOK, DiskType
      <4>2. pc \in Within /\ "discard" \in Within
        BY <3>7 DEF ApplyFails, Within
      <4>3. QED BY <3>7, <3>b, <4>1, <4>2, SpentTyped, ControlTyped DEF ApplyFails, TypeOK
    <3>8. CASE EndProject
      <4>1. DiskType'
        BY <3>8 DEF EndProject, disk, TypeOK, DiskType
      <4>2. CASE End("restored")
        BY <3>8, <4>1, <4>2, SpentTyped, ControlTyped DEF EndProject, TypeOK
      <4>3. CASE ~End("restored")
        BY <3>8, <4>1, <4>3 DEF EndProject, Go, NoFault, memory, TypeOK, MemoryType,
           ControlType, Between, Within
      <4>4. QED BY <4>2, <4>3
    <3>9. CASE WriteState
      <4>1. DiskType'
        BY <3>9 DEF WriteState, TypeOK, DiskType, MemoryType
      <4>2. QED BY <3>9, <4>1, SpentTyped, ControlTyped DEF WriteState, TypeOK
    <3>10. QED BY <3>1, <3>2, <3>3, <3>4, <3>5, <3>6, <3>7, <3>8, <3>9 DEF Project
  \* So does the start of a run and what the environment does.
  <2>3. TypeOK /\ (Run \/ Environment) => TypeOK'
    <3> SUFFICES ASSUME TypeOK, Run \/ Environment PROVE TypeOK'
      OBVIOUS
    <3>a. fs \in [Locs -> NodeType] /\ mounts \subseteq MountType
      BY DEF TypeOK, DiskType
    <3>b. ASSUME NEW p \in SUBSET Entry, NEW how \in {"running", "refused"}
          PROVE  [outcome EXCEPT !.how = how, !.goal = p] \in
                   [how : {"none", "running", "ok", "refused", "restored", "lost",
                           "crashed", "rebooted"},
                    goal : SUBSET Entry, torn : SUBSET SUBSET Entry]
      BY <3>b DEF TypeOK, ControlType
    <3>c. [spent EXCEPT !.runs = @ + 1] \in
            [runs : Nat, faults : Nat, crashes : Nat, reboots : Nat, acts : Nat]
      BY DEF TypeOK, ControlType
    <3>1. ASSUME NEW p \in Plans, Start(p)
          PROVE  TypeOK'
      <4>1. DiskType'
        BY <3>1 DEF Start, disk, TypeOK, DiskType
      <4>2. p \subseteq Entry
        BY ConstantsOK
      <4>3. InheritPlaceholders(p, state) \subseteq Entry
        BY <4>2 DEF InheritPlaceholders, Entry
      <4>4. \A old, new : RemovalOrder(old, new) \subseteq old
        BY DEF RemovalOrder, StaleEntries
      <4>5. MemoryType'
        BY <3>1, <4>3, <4>4 DEF Start, MemoryType, TypeOK, DiskType
      <4>6. ControlType'
        BY <3>1, <3>b, <3>c, <4>2 DEF Start, ControlType, Between, Within
      <4>7. QED BY <4>1, <4>5, <4>6 DEF TypeOK
    <3>2. ASSUME NEW p \in Plans, Refuse(p)
          PROVE  TypeOK'
      <4>1. p \subseteq Entry
        BY ConstantsOK
      <4>2. DiskType' /\ MemoryType'
        BY <3>2 DEF Refuse, disk, memory, TypeOK, DiskType, MemoryType
      <4>3. ControlType'
        BY <3>2, <3>b, <3>c, <4>1 DEF Refuse, ControlType, Between, Within
      <4>4. QED BY <4>2, <4>3 DEF TypeOK
    <3>3. CASE Crash
      BY <3>3, ControlTyped, NodesTyped DEF Crash, Abandon, TypeOK, DiskType, ControlType
    <3>4. CASE Reboot
      BY <3>4, ControlTyped, NodesTyped DEF Reboot, Abandon, TypeOK, DiskType, ControlType
    <3>5. ASSUME NEW act, Admin(act)
          PROVE  MemoryType' /\ ControlType' /\ UNCHANGED <<state, quarantine, strays>>
      BY <3>5 DEF Admin, memory, TypeOK, MemoryType, ControlType
    <3>6. ASSUME NEW t \in Targets, AdminLink(t)
          PROVE  TypeOK'
      BY <3>6, <3>5, <3>a, NodesTyped DEF AdminLink, TypeOK, DiskType
    <3>7. ASSUME NEW t \in Targets, NEW k \in Kinds, AdminWrite(t, k)
          PROVE  TypeOK'
      BY <3>7, <3>5, <3>a, NodesTyped DEF AdminWrite, TypeOK, DiskType
    <3>8. ASSUME NEW t \in Targets, AdminMount(t)
          PROVE  TypeOK'
      <4>1. [at |-> t, under |-> Chain(t), src |-> Foreign, kind |-> "dir", opts |-> Nil]
              \in MountType
        BY DEF Chain, Above, MountType, Kinds
      <4>2. QED BY <3>8, <3>5, <3>a, <4>1 DEF AdminMount, TypeOK, DiskType
    <3>9. ASSUME NEW t \in Targets, AdminUnmount(t)
          PROVE  TypeOK'
      BY <3>9, <3>5, <3>a DEF AdminUnmount, TypeOK, DiskType
    <3>10. QED BY <3>1, <3>2, <3>3, <3>4, <3>6, <3>7, <3>8, <3>9 DEF Run, Environment
  <2>4. UNCHANGED vars /\ TypeOK => TypeOK'
    BY DEF vars, memory, TypeOK, DiskType, MemoryType, ControlType
  <2>5. QED BY <2>1, <2>2, <2>3, <2>4 DEF Next, Step
<1>2. QED BY <1>1, <1>s, PTL DEF Spec
-----------------------------------------------------------------------------
(* The quarantine of remove_owned_symlink loses nothing of the user's.      *)

\* Failing, ending and finishing an entry leave the steps that hold one.
LEMMA ControlLeaves ==
  /\ \A r : Fail(r) => pc' \in Between
  /\ \A how : End(how) => pc' = "idle"
BY DEF Fail, End, Go, Between

\* The constant nodes are what they seem; what a walk finds is a mount root or a directory
\* entry.
LEMMA UserNodes ==
  /\ UserNode(NoNode) /\ UserNode(ParentDir) /\ UserNode(UserLink)
  /\ \A k \in Kinds : UserNode(Made(k)) /\ UserNode(UserData(k))
  /\ \A s \in Sources : UserNode(LinkTo(s))
  /\ TypeOK /\ QuarantineInv => \A t \in Targets : UserNode(Node(t))
<1>1. /\ UserNode(NoNode) /\ UserNode(ParentDir) /\ UserNode(UserLink)
      /\ \A k \in Kinds : UserNode(Made(k)) /\ UserNode(UserData(k))
      /\ \A s \in Sources : UserNode(LinkTo(s))
  BY DEF UserNode, NoNode, ParentDir, UserLink, Made, UserData, LinkTo, Kinds
\* What a walk finds is a mount root or a directory entry.
<1>2. ASSUME TypeOK, QuarantineInv, NEW t \in Targets
      PROVE  UserNode(Node(t))
  <2>1. CASE MountAt(t) = {}
    BY <1>2, <2>1, NodesTyped DEF Node, QuarantineInv, TypeOK, DiskType
  <2>2. CASE MountAt(t) # {}
    <3>1. (CHOOSE m \in MountAt(t) : TRUE) \in MountType
      BY <1>2, <2>2 DEF MountAt, TypeOK, DiskType
    <3>2. (CHOOSE m \in MountAt(t) : TRUE).kind \in Kinds
      BY <3>1 DEF MountType
    <3>3. QED BY <2>2, <3>2, <1>1 DEF Node
  <2>3. QED BY <2>1, <2>2
<1> QED BY <1>1, <1>2

\* Whatever the administrator does between the look at a symlink and its removal,
\* a node of the user that ends up in the quarantine is put back or left there.
THEOREM QuarantineSafe == Spec => QuarantineGivesBack
<1>1. Init => QuarantineInv
  <2> SUFFICES ASSUME Init PROVE QuarantineInv
    OBVIOUS
  <2>1. \A l \in Locs : UserNode(fs[l])
    <3>1. PICK N \in InitialNodes :
            fs = [l \in Locs |-> IF \E k \in Kinds : <<l, k>> \in N
                                 THEN UserData(CHOOSE k \in Kinds : <<l, k>> \in N)
                                 ELSE NoNode]
      BY DEF Init
    <3>2. QED BY <3>1, UserNodes
  <2>2. QED BY <2>1, UserNodes DEF Init, QuarantineInv
<1>2. TypeOK /\ QuarantineInv /\ [Next]_vars => [GivesBack]_vars
  <2> SUFFICES ASSUME TypeOK, QuarantineInv, Next, quarantine.by = "user"
               PROVE  \/ quarantine' = quarantine
                      \/ quarantine \in strays'
                      \/ \E l \in Locs : fs'[l] = quarantine
    BY DEF GivesBack
  <2>1. pc = "inspect"
    BY DEF QuarantineInv, NoNode
  <2>2. cur \in Entry /\ Loc(cur.target) \in Locs /\ fs \in [Locs -> NodeType]
    BY <2>1, NodesTyped DEF TypeOK, DiskType, ControlType, Within, Entry
  <2>3. CASE Inspect
    <3>1. ~StillOurs
      BY <2>2, ConstantsOK DEF StillOurs, QuarantineInv, UserNode, Entry
    <3>2. QED BY <2>2, <2>3, <3>1 DEF Inspect
  <2>4. CASE Crash \/ Reboot
    BY <2>4 DEF Crash, Reboot, Abandon, NoNode
  <2>5. CASE ~Inspect /\ ~Crash /\ ~Reboot
    BY <2>1, <2>5 DEF Next, Run, Start, Refuse, Step, Remove, Project, Environment,
       BeginRemoval, SkipRemoval, RefuseRemoval, Umount, UmountFails, Unlink, Quarantine,
       EndReconcile, CheckStores, Prepare, PrepareFails, Activate, ActivateFails, Apply,
       ApplyFails, EndProject, WriteState, AdminLink, AdminMount, AdminUnmount,
       AdminWrite, Admin
  <2>6. QED BY <2>3, <2>4, <2>5
\* No step breaks the quarantine's invariant.
<1>q. TypeOK /\ QuarantineInv /\ [Next]_vars => QuarantineInv'
  \* No step of the removal loop breaks the quarantine's invariant.
  <2>1. TypeOK /\ QuarantineInv /\ Remove => QuarantineInv'
    <3> SUFFICES ASSUME TypeOK, QuarantineInv, Remove PROVE QuarantineInv'
      OBVIOUS
    <3>a. fs \in [Locs -> NodeType] /\ mounts \subseteq MountType
      BY DEF TypeOK, DiskType
    <3>b. pc \in Within => cur.target \in Targets /\ Loc(cur.target) \in Locs
      BY <3>a, NodesTyped DEF TypeOK, ControlType, Entry
    <3>1. CASE \/ \E e \in todo : BeginRemoval(e) \/ SkipRemoval(e) \/ RefuseRemoval(e)
               \/ Umount \/ UmountFails \/ EndReconcile
      <4>1. UNCHANGED <<fs, quarantine>> /\ pc # "inspect"
        BY <3>1 DEF BeginRemoval, SkipRemoval, RefuseRemoval, Umount, UmountFails,
           EndReconcile, disk
      <4>2. QED BY <4>1 DEF QuarantineInv, UserNode
    <3>2. CASE Unlink
      <4>1. UNCHANGED quarantine /\ pc # "inspect"
        BY <3>2 DEF Unlink
      <4>2. \A l \in Locs : UserNode(fs'[l])
        BY <3>2, <3>a, UserNodes DEF Unlink, QuarantineInv
      <4>3. QED BY <4>1, <4>2 DEF QuarantineInv, UserNode
    <3>3. CASE Quarantine
      <4>1. pc \in Within /\ pc # "inspect" /\ cur.target \in Targets
        BY <3>3, <3>b DEF Quarantine, Within
      <4>2. CASE UNCHANGED <<fs, quarantine>>
        BY <4>1, <4>2 DEF QuarantineInv, UserNode
      <4>3. CASE /\ quarantine' = Node(cur.target) /\ Enter("inspect", cur)
                 /\ fs' = [fs EXCEPT ![Loc(cur.target)] = NoNode]
        <5>1. \A l \in Locs : UserNode(fs'[l])
          BY <4>3, <3>a, UserNodes DEF QuarantineInv
        <5>2. UserNode(quarantine') /\ pc' = "inspect"
          BY <4>1, <4>3, UserNodes DEF Enter, Go
        <5>3. QED BY <5>1, <5>2 DEF QuarantineInv, UserNode
      <4>4. QED BY <3>3, <4>2, <4>3 DEF Quarantine
    <3>4. CASE Inspect
      <4>1. quarantine' = NoNode
        BY <3>4 DEF Inspect
      <4>2. \A l \in Locs : UserNode(fs'[l])
        BY <3>4, <3>a DEF Inspect, QuarantineInv
      <4>3. QED BY <4>1, <4>2, UserNodes DEF QuarantineInv, UserNode
    <3>5. QED BY <3>1, <3>2, <3>3, <3>4 DEF Remove
  \* Nor does a step of the projection loop.
  <2>2. TypeOK /\ QuarantineInv /\ Project => QuarantineInv'
    <3> SUFFICES ASSUME TypeOK, QuarantineInv, Project PROVE QuarantineInv'
      OBVIOUS
    <3>a. fs \in [Locs -> NodeType] /\ todo \subseteq Entry
      BY DEF TypeOK, DiskType, MemoryType
    <3>b. \A t : /\ WithParents(t) \in [Locs -> NodeType]
                 /\ \A l \in Locs : UserNode(WithParents(t)[l])
      BY <3>a, NodesTyped, UserNodes DEF WithParents, QuarantineInv
    <3>1. UNCHANGED quarantine /\ pc # "inspect"
      BY DEF Project, CheckStores, Prepare, PrepareFails, Activate, ActivateFails, Apply,
         ApplyFails, EndProject, WriteState, disk
    <3>2. \A l \in Locs : UserNode(fs'[l])
      <4>1. CASE UNCHANGED fs
        BY <4>1 DEF QuarantineInv
      <4>2. ASSUME NEW e \in todo, Prepare(e)
            PROVE  \A l \in Locs : UserNode(fs'[l])
        <5>1. UserNode(Made(e.kind))
          BY <3>a, UserNodes DEF Entry
        <5>2. QED BY <4>2, <5>1, <3>b DEF Prepare
      <4>3. ASSUME NEW e \in todo, PrepareFails(e)
            PROVE  \A l \in Locs : UserNode(fs'[l])
        BY <4>3, <3>b DEF PrepareFails, QuarantineInv
      <4>4. CASE Activate
        <5>1. cur.source \in Sources
          BY <4>4 DEF Activate, TypeOK, ControlType, Within, Entry
        <5>2. QED BY <4>4, <5>1, <3>a, UserNodes DEF Activate, QuarantineInv
      <4>5. QED BY <4>1, <4>2, <4>3, <4>4 DEF Project, CheckStores, ActivateFails, Apply,
         ApplyFails, EndProject, WriteState, disk
    <3>3. QED BY <3>1, <3>2 DEF QuarantineInv, UserNode
  \* Nor the start of a run, nor the environment.
  <2>3. TypeOK /\ QuarantineInv /\ (Run \/ Environment) => QuarantineInv'
    <3> SUFFICES ASSUME TypeOK, QuarantineInv, Run \/ Environment PROVE QuarantineInv'
      OBVIOUS
    <3>a. fs \in [Locs -> NodeType]
      BY DEF TypeOK, DiskType
    <3>1. CASE Run
      BY <3>1 DEF Run, Start, Refuse, disk, QuarantineInv, UserNode
    <3>2. CASE Crash \/ Reboot
      BY <3>2, UserNodes DEF Crash, Reboot, Abandon, QuarantineInv, UserNode
    <3>3. ASSUME NEW t \in Targets, NEW k \in Kinds,
                 AdminLink(t) \/ AdminMount(t) \/ AdminUnmount(t) \/ AdminWrite(t, k)
          PROVE  QuarantineInv'
      <4>1. UNCHANGED <<quarantine, pc>>
        BY <3>3 DEF AdminLink, AdminMount, AdminUnmount, AdminWrite, Admin
      <4>2. \A l \in Locs : UserNode(fs'[l])
        BY <3>3, <3>a, UserNodes DEF AdminLink, AdminMount, AdminUnmount, AdminWrite,
           QuarantineInv
      <4>3. QED BY <4>1, <4>2 DEF QuarantineInv, UserNode
    <3>4. QED BY <3>1, <3>2, <3>3 DEF Environment, Kinds
  <2>4. QuarantineInv /\ UNCHANGED vars => QuarantineInv'
    BY DEF vars, QuarantineInv, UserNode
  <2>5. QED BY <2>1, <2>2, <2>3, <2>4 DEF Next, Step
<1>3. QED BY <1>1, <1>2, <1>q, TypeCorrect, PTL DEF Spec, QuarantineGivesBack
-----------------------------------------------------------------------------
(* The utility unmounts only what it has mounted.                           *)

\* The steps that change the mount table, or take an entry in hand, keep MountsInv.
LEMMA MountsStep ==
  ASSUME BusyActs \cap {"mount", "umount"} = {}
  PROVE  TypeOK /\ MountsInv /\ [Next]_vars => MountsInv'
\* What is mounted at t, or beside it, does not change how a walk gets there.
<1>c. ASSUME NEW t,
             \A u \in Above(t) : \A U : (\E m \in mounts : m.at = u /\ m.under = U)
                                     <=> (\E m \in mounts' : m.at = u /\ m.under = U)
      PROVE  Chain(t)' = Chain(t)
  <2>1. ASSUME NEW C PROVE IsChain(t, C)' <=> IsChain(t, C)
    <3>1. \A u \in Above(t) : (\E m \in mounts : m.at = u /\ m.under = C \cap Above(u))
                              <=> (\E m \in mounts' : m.at = u /\ m.under = C \cap Above(u))
      BY <1>c
    <3>2. QED BY <3>1 DEF IsChain, Above
  <2>2. QED BY <2>1 DEF Chain, Above
<1> SUFFICES ASSUME TypeOK, MountsInv, [Next]_vars PROVE MountsInv'
  OBVIOUS
\* One mount per place: what is mounted at t from s is all that is mounted at t.
<1>o. ASSUME NEW t, NEW s, MountedFrom(t, s)
      PROVE  \A m \in MountAt(t) : m.src = s
  BY <1>o DEF MountsInv, MountedFrom, MountAt
<1> DEFINE Held == {"umount", "apply", "discard"}
           Single == \A m, n \in mounts : m.at = n.at /\ m.under = n.under => m = n
<1>a. mounts \subseteq MountType /\ todo \subseteq Entry /\ Single
  BY DEF TypeOK, DiskType, MemoryType, MountsInv
<1>b. \A r : Fail(r) => pc' \notin Held
  BY ControlLeaves DEF Between
<1>1. CASE UNCHANGED mounts /\ pc' \notin Held
  BY <1>1, <1>a DEF MountsInv
<1>2. CASE UNCHANGED <<mounts, pc, cur>>
  BY <1>2 DEF MountsInv, MountAt, Chain, IsChain
<1>3. ASSUME NEW e \in todo, BeginRemoval(e)
      PROVE  MountsInv'
  <2>1. CASE MountedFrom(e.target, e.source) /\ Enter("umount", e)
    <3>1. \A m \in MountAt(e.target) : m.src = e.source
      BY <2>1, <1>o
    <3>2. UNCHANGED mounts /\ cur' = e
      BY <1>3, <2>1 DEF BeginRemoval, disk, Enter
    <3>3. MountAt(e.target)' = MountAt(e.target)
      BY <3>2 DEF MountAt, Chain, IsChain
    <3>4. \A m \in MountAt(cur.target)' : m.src = cur'.source
      BY <3>1, <3>2, <3>3
    <3>5. QED BY <3>2, <3>4, <1>a, Zenon DEF MountsInv
  <2>2. CASE Enter("quarantine", e)
    BY <1>1, <1>3, <2>2 DEF BeginRemoval, disk, Enter, Go
  <2>3. QED BY <1>3, <2>1, <2>2 DEF BeginRemoval
<1>4. CASE Umount
  <2>1. mounts' \subseteq mounts /\ pc' \notin Held
    BY <1>4 DEF Umount, Enter, Go
  <2>2. QED BY <2>1, <1>a DEF MountsInv
<1>5. CASE Activate
  <2>1. CASE UNCHANGED mounts /\ (Done("prepare", cur) \/ Activated)
    <3>1. pc' \notin Held
      BY <2>1 DEF Done, Activated, Go
    <3>2. QED BY <1>1, <2>1, <3>1
  <2>2. CASE ~AlreadyThere(cur) /\ cur.method = "bind"
             /\ mounts' = mounts \cup {NewMount(cur)} /\ Enter("apply", cur)
    <3>1. MountAt(cur.target) = {}
      BY <1>5, <2>2 DEF Activate, ActivateRefused, AlreadyThere, Mounted
    <3>2. PICK t \in Targets : t = cur.target
      BY <1>5 DEF Activate, TypeOK, ControlType, Within, Entry
    <3>3. NewMount(cur).at = t /\ NewMount(cur).under = Chain(t)
          /\ NewMount(cur).src = cur.source /\ cur' = cur
      BY <2>2, <3>2 DEF NewMount, Enter
    <3>4. t \notin Above(t)
      BY ConstantsOK DEF Above
    <3>5. Chain(t)' = Chain(t)
      <4>1. \A u \in Above(t) : \A U : (\E m \in mounts : m.at = u /\ m.under = U)
                                       <=> (\E m \in mounts' : m.at = u /\ m.under = U)
        BY <2>2, <3>3, <3>4
      <4>2. QED BY <4>1, <1>c
    <3>6. \A m \in mounts : ~(m.at = t /\ m.under = Chain(t))
      BY <3>1, <3>2 DEF MountAt
    <3>7. \A m, n \in mounts' : m.at = n.at /\ m.under = n.under => m = n
      BY <1>a, <2>2, <3>3, <3>6
    <3>8. \A m \in MountAt(t)' : m = NewMount(cur)
      BY <2>2, <3>5, <3>6 DEF MountAt
    <3>9. QED BY <3>2, <3>3, <3>7, <3>8 DEF MountsInv
  <2>3. QED BY <1>5, <2>1, <2>2 DEF Activate
<1>6. CASE Apply
  <2>1. pc' = "prepare"
    BY <1>6 DEF Apply, Activated, Go
  <2>2. ASSUME NEW m \in MountType
        PROVE  /\ [m EXCEPT !.opts = cur.options].at = m.at
               /\ [m EXCEPT !.opts = cur.options].under = m.under
    BY DEF MountType
  <2> DEFINE g(m) == IF m \in MountAt(cur.target) THEN [m EXCEPT !.opts = cur.options]
                                                  ELSE m
  <2>3. \A m \in mounts : g(m).at = m.at /\ g(m).under = m.under
    BY <1>a, <2>2
  <2>4. mounts' = {g(m) : m \in mounts}
    BY <1>6 DEF Apply
  <2> HIDE DEF g
  <2>5. \A m, n \in mounts' : m.at = n.at /\ m.under = n.under => m = n
    BY <1>a, <2>3, <2>4
  <2>6. QED BY <2>1, <2>5 DEF MountsInv
<1>7. CASE ApplyFails
  <2>1. UNCHANGED <<mounts, cur>> /\ pc \in Held
    BY <1>7 DEF ApplyFails, disk, Enter
  <2>2. QED BY <2>1 DEF MountsInv, MountAt, Chain, IsChain
<1>8. CASE Crash \/ Reboot
  <2>1. pc' = "idle" /\ (UNCHANGED mounts \/ mounts' = {})
    BY <1>8, ControlLeaves DEF Crash, Reboot, Abandon
  <2>2. QED BY <2>1, <1>a DEF MountsInv
<1>9. ASSUME NEW t \in Targets, AdminMount(t) \/ AdminUnmount(t)
      PROVE  MountsInv'
  <2>1. pc' = "idle"
    BY <1>9 DEF AdminMount, AdminUnmount, Admin
  <2>2. \A m, n \in mounts' : m.at = n.at /\ m.under = n.under => m = n
    BY <1>9, <1>a DEF AdminMount, AdminUnmount, Mounted, MountAt
  <2>3. QED BY <2>1, <2>2 DEF MountsInv
<1>10. CASE Run
  BY <1>1, <1>10 DEF Run, Start, Refuse, disk
<1>11. ASSUME NEW t \in Targets, NEW k \in Kinds, AdminLink(t) \/ AdminWrite(t, k)
       PROVE  MountsInv'
  BY <1>2, <1>11 DEF AdminLink, AdminWrite, Admin, memory
<1>12. CASE \/ \E e \in todo : SkipRemoval(e) \/ RefuseRemoval(e)
            \/ UmountFails \/ Unlink \/ Quarantine \/ Inspect \/ EndReconcile
  <2>1. UNCHANGED mounts /\ pc' \notin Held
    BY <1>12, <1>b DEF SkipRemoval, RefuseRemoval, UmountFails, Unlink, Quarantine,
       Inspect, EndReconcile, disk, Done, Enter, Go
  <2>2. QED BY <1>1, <2>1
<1>13. CASE \/ \E e \in todo : Prepare(e) \/ PrepareFails(e)
            \/ CheckStores \/ ActivateFails \/ EndProject \/ WriteState
  <2>1. UNCHANGED mounts /\ pc' \notin Held
    BY <1>13, <1>b, ControlLeaves DEF Prepare, PrepareFails, CheckStores, ActivateFails,
       EndProject, WriteState, disk, Go
  <2>2. QED BY <1>1, <2>1
<1>14. CASE UNCHANGED vars
  BY <1>2, <1>14 DEF vars, memory
<1>15. QED
  BY <1>3, <1>4, <1>5, <1>6, <1>7, <1>8, <1>9, <1>10, <1>11, <1>12, <1>13, <1>14
  DEF Next, Step, Remove, Project, Environment, Kinds

\* If the administrator leaves the mounts alone while the utility runs, it never
\* unmounts what somebody else has mounted, whatever was mounted before the run.
THEOREM ForeignMountsSafe ==
  ASSUME BusyActs \cap {"mount", "umount"} = {}
  PROVE  Spec => ForeignMountsKept
<1>1. Init => MountsInv
  BY DEF Init, MountsInv
<1>2. TypeOK /\ MountsInv /\ [Next]_vars => [KeepsForeign]_vars
  <2> SUFFICES ASSUME TypeOK, MountsInv, Next, UtilityStep,
                      NEW m \in mounts, m.src = Foreign
               PROVE  m \in mounts'
    BY DEF KeepsForeign
  <2>1. CASE UNCHANGED mounts
    BY <2>1
  <2>2. pc \in Within => cur.source # Foreign
    BY ConstantsOK DEF TypeOK, ControlType, Entry
  <2>3. CASE Umount
    <3>1. pc \in Within /\ m \notin MountAt(cur.target)
      BY <2>2, <2>3 DEF Umount, Within, MountsInv
    <3>2. QED BY <2>3, <3>1 DEF Umount
  <2>4. CASE Apply
    <3>1. pc \in Within /\ m \notin MountAt(cur.target)
      BY <2>2, <2>4 DEF Apply, Within, MountsInv
    <3>2. QED BY <2>4, <3>1 DEF Apply
  <2>5. CASE Activate
    BY <2>5 DEF Activate
  <2>6. ~Reboot /\ \A t \in Targets : ~AdminMount(t) /\ ~AdminUnmount(t)
    BY DEF UtilityStep, Reboot, AdminMount, AdminUnmount, Admin, TypeOK, ControlType
  <2>7. CASE ~(Umount \/ Apply \/ Activate)
    BY <2>6, <2>7 DEF Next, Run, Start, Refuse, Step, Remove, Project, Environment,
       BeginRemoval, SkipRemoval, RefuseRemoval, UmountFails, Unlink, Quarantine, Inspect,
       EndReconcile, CheckStores, Prepare, PrepareFails, ActivateFails, ApplyFails,
       EndProject, WriteState, Crash, AdminLink, AdminWrite, disk
  <2>8. QED BY <2>3, <2>4, <2>5, <2>7
<1>3. QED BY <1>1, <1>2, MountsStep, TypeCorrect, PTL DEF Spec, ForeignMountsKept
----------------------------------------------------------------------------
(* The switch of plans.  While nobody else is at work, no utility is killed *)
(* and no run is lost, three things hold between any two system calls: what *)
(* is shown is held by an entry that may be in place (UpperInv), what the   *)
(* loops have done is in place (LowerInv), and mounts are nested as their   *)
(* targets are, none below a path that is to be mounted (NestInv,           *)
(* ClosedInv).  At the end of a run the entries held are those of the plan, *)
(* or of the state file, and the first two meet.                            *)

\* The targets something is mounted at.
Up == {m.at : m \in mounts}

Removing == pc \in {"reconcile", "umount", "unlink", "quarantine", "inspect"}
Making   == pc \in {"prepare", "activate", "apply", "discard", "discard unlink", "write"}

\* The recorded entries that the new plan leaves alone, and the list project works on.
Kept    == previous \ RemovalOrder(previous, plan)
Working == IF phase = "switch" THEN plan ELSE previous

\* The entries whose projections may be in place.
Holding == IF pc = "idle" THEN state
           ELSE IF Removing THEN Kept \cup todo
           ELSE IF phase = "switch" THEN Kept \cup activated
           ELSE previous

MountOf(e) == \E m \in mounts : m.at = e.target /\ m.src = e.source

\* A mount, or a link, that a walk to a target below t would come upon.
ShownBelow(t) == \/ \E m \in mounts : <<m.at, t>> \in Below
                 \/ \E l \in Locs : fs[l].type = "link" /\ <<l[2], t>> \in Below

\* Mounts are nested as their targets are, one per target.
NestInv ==
  /\ \A m \in mounts : m.under = Up \cap Above(m.at)
  /\ \A m, n \in mounts : m.at = n.at => m = n

\* Nothing is shown that is not held.
UpperInv ==
  /\ \A m \in mounts :
       \/ \E e \in Holding : /\ e.method = "bind" /\ e.target = m.at
                             /\ e.source = m.src /\ e.options = m.opts
       \/ pc \in {"apply", "discard"} /\ m.at = cur.target /\ m.src = cur.source
  /\ \A l \in Locs : fs[l].type = "link" =>
       /\ l = Loc(l[2])
       /\ \E e \in Holding : e.method = "symlink" /\ e.target = l[2] /\ e.source = fs[l].to

\* What is done is shown.
LowerInv ==
  /\ pc = "idle" => \A e \in state : Projected(e)
  /\ Making => \A e \in Working \ todo : Projected(e)
  /\ pc # "idle" /\ (phase = "switch" \/ Removing) =>
       \A e \in Kept : e.method = "bind" => MountOf(e)

\* Where a recorded bind is to be mounted again, nothing is shown below.
ClosedInv ==
  pc # "idle" /\ (phase = "switch" <=> Removing) =>
    \A e \in previous : e.method = "bind" /\ e.target \notin Up => ~ShownBelow(e.target)

\* The loops.
OrderInv ==
  pc # "idle" =>
  /\ Removing => todo \subseteq (IF phase = "switch" THEN RemovalOrder(previous, plan) ELSE plan)
  /\ Making => /\ todo \subseteq Working
               /\ \A e \in todo, f \in Working \ todo : <<f.target, e.target>> \notin Below
  /\ phase = "switch" =>
       /\ Removing \/ pc = "stores" => activated = {}
       /\ activated \subseteq plan /\ activated \cap todo = {}
  /\ \A a \in activated, o \in Kept : phase = "switch" /\ a.method = "bind" => a.target # o.target
  /\ \A a \in todo, o \in Kept : Removing /\ a.method = "bind" => a.target # o.target
  /\ pc \in {"stores", "write"} => phase = "switch" /\ todo = {}
  /\ phase = "rollback" => ~Removing

\* The entry in hand.
HandInv ==
  /\ pc \in Within => cur \in todo
  /\ pc \in {"umount", "unlink", "apply", "discard", "discard unlink"} => cur.method = "bind"
  /\ pc \in {"quarantine", "inspect"} => cur.method = "symlink"
  /\ pc \in {"umount", "unlink", "quarantine", "inspect"} => Deepest(cur)
  /\ pc \in {"activate", "apply", "discard", "discard unlink"} => Topmost(cur)
  /\ pc \in {"umount", "apply", "discard"} => MountOf(cur)
  /\ pc \in {"unlink", "discard unlink"} => cur.target \notin Up
  /\ pc = "quarantine" => OwnLink(cur)
  /\ pc = "inspect" => /\ quarantine.type = "link" /\ quarantine.to = cur.source
                       /\ \A l \in Locs : l[2] = cur.target => fs[l].type # "link"
  /\ pc \in {"apply", "discard"} /\ phase = "switch" =>
       \A o \in Kept \cup activated : cur.target # o.target
  /\ pc = "discard" => "apply" \in FaultKinds /\ spent.faults >= 1

\* The plans.
PlanInv ==
  /\ ValidPlan(state) /\ Bare(state) \in Plans \cup {{}}
  /\ outcome.how = "ok" => Bare(state) = outcome.goal
  /\ pc # "idle" =>
     /\ Bare(previous) = Bare(state)
     /\ Bare(plan) = outcome.goal /\ outcome.goal \in Plans
     /\ ValidPlan(previous) /\ ValidPlan(plan)
     /\ outcome.how = "running"

Whole == /\ NestInv /\ UpperInv /\ LowerInv /\ ClosedInv
         /\ OrderInv /\ HandInv /\ PlanInv

\* A failing bind is being taken back while the recorded plan is restored: the run is lost.
Hopeless == phase # "switch" /\ pc \in {"discard", "discard unlink"}

Atomic == IF Hopeless THEN outcome.how = "running" ELSE Whole

\* Nobody else is at work, and nothing kills the utility or restarts the machine.
Undisturbed == IdleActs = {} /\ BusyActs = {} /\ MaxCrashes = 0 /\ MaxReboots = 0

\* No run both fails to set the options of a mount and to take that mount away.
BindsTakenBack == MaxFaults <= 1 \/ ~({"apply", "umount"} \subseteq FaultKinds)
----------------------------------------------------------------------------
(* What a walk meets.                                                       *)

\* What a walk to t meets where mounts are nested as their targets are: those mounted
\* above t; and at t, the root of the one mount there or the directory entry.
Walks(t) ==
  /\ Chain(t) = Up \cap Above(t)
  /\ MountAt(t) = {m \in mounts : m.at = t}
  /\ Mounted(t) <=> t \in Up
  /\ Busy(t) => \E m \in mounts : <<m.at, t>> \in Below
  /\ \A m \in mounts : m.at = t => Node(t) = Made(m.kind)
  /\ t \notin Up => Node(t) = fs[Loc(t)]
  /\ \A m \in Innermost(t) : BaseOf(t) = m.src

Geometry == \A t \in Targets : Walks(t)

\* Where mounts are nested as their targets are, Chain, MountAt and Node are what a reader
\* would take them for.
LEMMA NestedWalks == TypeOK /\ NestInv => Geometry
<1> SUFFICES ASSUME TypeOK, NestInv, NEW t \in Targets
             PROVE  Walks(t)
  BY DEF Geometry
<1> DEFINE C0 == Up \cap Above(t)
<1>0. mounts \subseteq MountType
  BY DEF TypeOK, DiskType
<1>1. Chain(t) = C0
  <2>1. ASSUME NEW u \in Above(t)
        PROVE  C0 \cap Above(u) = Up \cap Above(u)
    BY ConstantsOK DEF Above
  <2>2. IsChain(t, C0)
    <3> SUFFICES ASSUME NEW u \in Above(t)
                 PROVE  (u \in C0) <=> \E m \in mounts : m.at = u /\ m.under = C0 \cap Above(u)
      BY DEF IsChain
    <3>1. (\E m \in mounts : m.at = u) <=> u \in Up
      BY DEF Up
    <3>2. \A m \in mounts : m.at = u => m.under = C0 \cap Above(u)
      BY <2>1 DEF NestInv
    <3>3. QED BY <3>1, <3>2
  <2>3. \A D \in SUBSET Above(t) : IsChain(t, D) => D \subseteq C0
    BY DEF IsChain, Up
  <2>4. C0 \in SUBSET Above(t)
    OBVIOUS
  <2> HIDE DEF C0
  <2>5. QED BY <2>2, <2>3, <2>4 DEF Chain
<1>2. MountAt(t) = {m \in mounts : m.at = t}
  BY <1>1 DEF MountAt, NestInv
<1>3. Mounted(t) <=> t \in Up
  BY <1>2 DEF Mounted, Up
<1>4. Busy(t) => \E m \in mounts : <<m.at, t>> \in Below
  <2>1. ASSUME NEW m \in mounts, t \in m.under PROVE <<m.at, t>> \in Below
    BY <2>1 DEF NestInv, Above
  <2>2. QED BY <2>1 DEF Busy
<1>5. \A m \in mounts : m.at = t => Node(t) = Made(m.kind)
  <2> SUFFICES ASSUME NEW m \in mounts, m.at = t PROVE Node(t) = Made(m.kind)
    OBVIOUS
  <2>1. MountAt(t) = {m}
    BY <1>2 DEF NestInv
  <2>2. (CHOOSE n \in MountAt(t) : TRUE) = m
    BY <2>1
  <2>3. QED BY <2>1, <2>2 DEF Node
<1>6. t \notin Up => Node(t) = fs[Loc(t)]
  BY <1>3 DEF Mounted, Node
<1>7. ASSUME NEW m \in Innermost(t) PROVE BaseOf(t) = m.src
  <2>1. ASSUME NEW n \in Innermost(t) PROVE n = m
    <3>1. /\ m \in mounts /\ n \in mounts
          /\ m.at \in C0 /\ n.at \in C0
          /\ m.under = C0 \ {m.at} /\ n.under = C0 \ {n.at}
      BY <1>1 DEF Innermost
    <3>2. m.under = Up \cap Above(m.at) /\ n.under = Up \cap Above(n.at)
      BY <3>1 DEF NestInv
    <3>3. CASE m.at # n.at
      <4>1. n.at \in Above(m.at) /\ m.at \in Above(n.at)
        BY <3>1, <3>2, <3>3
      <4>2. m.at \in Targets /\ n.at \in Targets
        BY <4>1 DEF Above
      <4>3. QED BY <4>1, <4>2, ConstantsOK DEF Above
    <3>4. CASE m.at = n.at
      BY <3>1, <3>4 DEF NestInv
    <3>5. QED BY <3>3, <3>4
  <2>2. Innermost(t) = {m}
    BY <2>1
  <2>3. QED BY <2>2 DEF BaseOf
<1> QED BY <1>1, <1>2, <1>3, <1>4, <1>5, <1>6, <1>7 DEF Walks

\* The same is mounted at u before and after.
SameAt(u) == \A s, k : (\E m \in mounts : m.at = u /\ m.src = s /\ m.kind = k)
                       <=> (\E m \in mounts' : m.at = u /\ m.src = s /\ m.kind = k)

\* Where a walk to t ends depends on what is mounted above t.
LEMMA Steady ==
  ASSUME TypeOK, TypeOK', NestInv, NestInv', NEW t \in Targets,
         \A u \in Above(t) : SameAt(u)
  PROVE  Loc(t)' = Loc(t)
<1>g. Walks(t) /\ Walks(t)'
  <2>1. Geometry /\ Geometry'
    BY NestedWalks, PTL
  <2>2. QED BY <2>1 DEF Geometry
<1>1. ASSUME NEW u \in Above(t) PROVE u \in Up <=> u \in Up'
  <2>1. SameAt(u)
    OBVIOUS
  <2>2. ASSUME NEW m \in mounts, m.at = u PROVE u \in Up'
    BY <2>1, <2>2 DEF SameAt, Up
  <2>3. ASSUME NEW m \in mounts', m.at = u PROVE u \in Up
    BY <2>1, <2>3 DEF SameAt, Up
  <2>4. QED BY <2>2, <2>3 DEF Up
<1> DEFINE C == Up \cap Above(t)
           D == Up' \cap Above(t)
<1>2. C = D
  BY <1>1
<1>3. Chain(t) = C /\ Chain(t)' = D
  <2>1. Chain(t) = C
    BY <1>g DEF Walks
  <2>2. (Chain(t) = Up \cap Above(t))'
    BY <1>g DEF Walks
  <2>3. Above(t)' = Above(t)
    BY DEF Above
  <2>4. QED BY <2>1, <2>2, <2>3
<1>4. ASSUME NEW u \in Above(t) PROVE Up \cap Above(u) = Up' \cap Above(u)
  <2>1. Above(u) \subseteq Above(t)
    BY ConstantsOK DEF Above
  <2>2. QED BY <2>1, <1>1
<1>5. ASSUME NEW m \in Innermost(t)
      PROVE  \E n \in Innermost(t)' : n.src = m.src
  <2>1. m \in mounts /\ m.at \in C /\ m.under = C \ {m.at}
    BY <1>3 DEF Innermost
  <2>2. SameAt(m.at)
    BY <2>1
  <2>3. PICK n \in mounts' : n.at = m.at /\ n.src = m.src
    BY <2>1, <2>2 DEF SameAt
  <2>4. n.under = Up' \cap Above(n.at)'
    BY <2>3 DEF NestInv
  <2>5. m.under = Up \cap Above(m.at)
    BY <2>1 DEF NestInv
  <2>6. Above(n.at)' = Above(m.at)
    BY <2>3 DEF Above
  <2>7. n.under = m.under
    BY <2>1, <2>4, <2>5, <2>6, <1>4
  <2>8. n \in Innermost(t)'
    BY <2>1, <2>3, <2>7, <1>2, <1>3 DEF Innermost
  <2>9. QED BY <2>3, <2>8
<1>6. ASSUME NEW n \in Innermost(t)'
      PROVE  \E m \in Innermost(t) : m.src = n.src
  <2>1. n \in mounts' /\ n.at \in D /\ n.under = D \ {n.at}
    BY <1>3 DEF Innermost
  <2>2. SameAt(n.at)
    BY <2>1
  <2>3. PICK m \in mounts : n.at = m.at /\ n.src = m.src
    BY <2>1, <2>2 DEF SameAt
  <2>4. n.under = Up' \cap Above(n.at)'
    BY <2>1 DEF NestInv
  <2>5. m.under = Up \cap Above(m.at)
    BY <2>3 DEF NestInv
  <2>6. Above(n.at)' = Above(m.at)
    BY <2>3 DEF Above
  <2>7. n.under = m.under
    BY <2>1, <2>3, <2>4, <2>5, <2>6, <1>4
  <2>8. m \in Innermost(t)
    BY <2>1, <2>3, <2>7, <1>2, <1>3 DEF Innermost
  <2>9. QED BY <2>3, <2>8
<1>7. BaseOf(t)' = BaseOf(t)
  <2>1. CASE Innermost(t) = {}
    <3>1. Innermost(t)' = {}
      BY <2>1, <1>6
    <3>2. QED BY <2>1, <3>1 DEF BaseOf
  <2>2. CASE Innermost(t) # {}
    <3>1. PICK m \in Innermost(t) : TRUE
      BY <2>2
    <3>2. PICK n \in Innermost(t)' : n.src = m.src
      BY <1>5
    <3>3. BaseOf(t) = m.src
      BY <3>1, <1>g DEF Walks
    <3>4. BaseOf(t)' = n.src
      <4>1. (\A k \in Innermost(t) : BaseOf(t) = k.src)'
        BY <1>g DEF Walks
      <4>2. QED BY <4>1, <3>2
    <3>5. QED BY <3>2, <3>3, <3>4
  <2>3. QED BY <2>1, <2>2
<1>8. QED BY <1>7 DEF Loc
----------------------------------------------------------------------------
(* Projections, removal orders and flags.                                   *)

\* A projection that is in place stays so while the walk to it meets the same mounts and
\* nothing new that is no directory, and what is at its target is left alone.
LEMMA StaysProjected ==
  ASSUME TypeOK, TypeOK', NestInv, NestInv', NEW e \in Entry, Projected(e),
         \A u \in Above(e.target) : SameAt(u),
         e.method = "bind" => \A m \in mounts : m.at = e.target => m \in mounts',
         e.method = "symlink" =>
           /\ SameAt(e.target) /\ fs'[Loc(e.target)] = fs[Loc(e.target)]
           /\ \A u \in Above(e.target) : \/ fs'[Loc(u)] = fs[Loc(u)]
                                         \/ fs'[Loc(u)].type \notin {"file", "link"}
  PROVE  Projected(e)'
<1>g. Geometry /\ Geometry'
  BY NestedWalks, PTL
<1>t. e.target \in Targets /\ e.method \in Methods
  BY DEF Entry
<1>w. /\ \A u \in Targets : Walks(u) /\ Walks(u)'
      /\ \A u : Above(u)' = Above(u) /\ Above(u) \subseteq Targets
  BY <1>g DEF Geometry, Above
<1>1. CASE e.method = "bind"
  <2>1. PICK m \in MountAt(e.target) : m.src = e.source /\ m.opts = e.options
    BY <1>1 DEF Projected
  <2>2. m \in mounts /\ m.at = e.target
    BY <2>1 DEF MountAt
  <2>3. m \in MountAt(e.target)'
    <3>1. (MountAt(e.target) = {n \in mounts : n.at = e.target})'
      BY <1>w, <1>t DEF Walks
    <3>2. QED BY <2>2, <1>1, <3>1
  <2>4. QED BY <2>1, <2>3, <1>1 DEF Projected
<1>2. CASE e.method = "symlink"
  <2> DEFINE t == e.target
  <2>1. ~WalkFails(t) /\ Node(t).type = "link" /\ Node(t).to = e.source
    BY <1>2 DEF Projected, OwnLink
  <2>l. \A u \in Above(t) \cup {t} : Loc(u)' = Loc(u)
    <3>1. \A u \in Above(t) \cup {t} : u \in Targets /\ Above(u) \subseteq Above(t)
      BY <1>w, <1>t, ConstantsOK DEF Above
    <3>2. QED BY <3>1, Steady
  <2>k. \A m \in mounts \cup mounts' : m.kind \in {"dir", "file"} /\ Made(m.kind).type = m.kind
    BY DEF TypeOK, DiskType, MountType, Kinds, Made
  <2>u. \A u \in Above(t) \cup {t} : u \in Up <=> u \in Up'
    <3> SUFFICES ASSUME NEW u \in Above(t) \cup {t} PROVE u \in Up <=> u \in Up'
      OBVIOUS
    <3>1. SameAt(u)
      BY <1>2
    <3>2. ASSUME NEW m \in mounts, m.at = u PROVE u \in Up'
      BY <3>1, <3>2 DEF SameAt, Up
    <3>3. ASSUME NEW m \in mounts', m.at = u PROVE u \in Up
      <4>1. \E n \in mounts : n.at = u /\ n.src = m.src /\ n.kind = m.kind
        BY <3>1, <3>3 DEF SameAt
      <4>2. QED BY <4>1 DEF Up
    <3>4. QED BY <3>2, <3>3 DEF Up
  <2>2. t \notin Up
    <3> SUFFICES ASSUME t \in Up PROVE FALSE
      OBVIOUS
    <3>1. PICK m \in mounts : m.at = t
      BY DEF Up
    <3>2. Node(t) = Made(m.kind)
      BY <3>1, <1>t, <1>w DEF Walks
    <3>3. QED BY <3>2, <2>1, <2>k
  <2>3. Node(t) = fs[Loc(t)]
    BY <2>2, <1>t, <1>w DEF Walks
  <2>4. Node(t)' = fs'[Loc(t)]
    <3>1. t \notin Up'
      BY <2>2, <2>u
    <3>2. (t \notin Up => Node(t) = fs[Loc(t)])'
      BY <1>t, <1>w DEF Walks
    <3>3. QED BY <3>1, <3>2, <2>l
  <2>5. Node(t)' = Node(t)
    BY <2>3, <2>4, <1>2
  <2>6. ASSUME NEW u \in Above(t) PROVE Node(u)'.type \notin {"file", "link"}
    <3>0. u \in Targets /\ Node(u).type \notin {"file", "link"}
      BY <2>1, <1>w DEF WalkFails
    <3>1. CASE u \in Up'
      <4>1. PICK m \in mounts' : m.at = u
        BY <3>1 DEF Up
      <4>2. PICK n \in mounts : n.at = u /\ n.kind = m.kind
        BY <4>1 DEF SameAt
      <4>3. Node(u) = Made(n.kind)
        BY <3>0, <4>2, <1>w DEF Walks
      <4>4. Node(u)' = Made(m.kind)
        <5>1. (\A k \in mounts : k.at = u => Node(u) = Made(k.kind))'
          BY <3>0, <1>w DEF Walks
        <5>2. Made(m.kind)' = Made(m.kind)
          BY DEF Made
        <5>3. QED BY <5>1, <4>1 DEF Made
      <4>5. QED BY <4>2, <4>3, <4>4, <3>0
    <3>2. CASE u \notin Up'
      <4>1. Node(u) = fs[Loc(u)]
        BY <3>0, <3>2, <2>u, <1>w DEF Walks
      <4>2. Node(u)' = fs'[Loc(u)]
        <5>1. (u \notin Up => Node(u) = fs[Loc(u)])'
          BY <3>0, <1>w DEF Walks
        <5>2. QED BY <5>1, <3>2, <2>l
      <4>3. QED BY <4>1, <4>2, <3>0, <1>2
    <3>3. QED BY <3>1, <3>2
  <2>7. ~WalkFails(t)'
    BY <2>6, <1>w DEF WalkFails
  <2>8. QED BY <1>2, <2>1, <2>5, <2>7 DEF Projected, OwnLink
<1>3. QED BY <1>1, <1>2, <1>t DEF Methods

\* What the removal order leaves is in the new plan too, and with a bind that goes or
\* comes all that is projected below it goes.
LEMMA Removals ==
  ASSUME NEW old \in SUBSET Entry, NEW new \in SUBSET Entry, ValidPlan(new)
  PROVE  /\ RemovalOrder(old, new) \subseteq old
         /\ \A o \in old \ RemovalOrder(old, new) : \E n \in new : SameProjection(o, n)
         /\ \A o \in old \ RemovalOrder(old, new), n \in new :
              o.target = n.target => SameProjection(o, n)
         /\ \A e \in RemovalOrder(old, new), f \in old :
              e.method = "bind" /\ <<f.target, e.target>> \in Below
                => f \in RemovalOrder(old, new)
         /\ \A e \in new, f \in old :
              /\ e.method = "bind" /\ <<f.target, e.target>> \in Below
              /\ \A o \in old \ RemovalOrder(old, new) : o.target # e.target
              => f \in RemovalOrder(old, new)
<1> DEFINE gone == RemovalOrder(old, new)
           S == StaleEntries(old, new)
           T == StaleEntries(new, old)
           Shifts(u) == \E x \in S \cup T : x.method = "bind" /\ x.target = u
<1>0. /\ \A e \in old \cup new : e.target \in Targets
      /\ \A t, u, v \in Targets : <<t, u>> \in Below /\ <<u, v>> \in Below => <<t, v>> \in Below
  BY ConstantsOK DEF Entry
<1>1. \A o : o \in gone <=> o \in old /\ (o \in S \/ \E u : Shifts(u) /\ <<o.target, u>> \in Below)
  BY DEF RemovalOrder, StaleEntries
<1>2. S \subseteq old /\ T \subseteq new /\ \A o \in old : o \notin S => \E n \in new : SameProjection(o, n)
  BY DEF StaleEntries
<1>3. \A n \in new : n \notin T => \E o \in old : SameProjection(n, o)
  BY DEF StaleEntries
<1> HIDE DEF gone, S, T
<1>4. ASSUME NEW o \in old \ gone PROVE \E n \in new : SameProjection(o, n)
  BY <1>1, <1>2
<1>5. ASSUME NEW o \in old \ gone, NEW n \in new, o.target = n.target
      PROVE  SameProjection(o, n)
  <2>1. PICK x \in new : SameProjection(o, x)
    BY <1>4
  <2>2. x.target = n.target
    BY <2>1, <1>5 DEF SameProjection
  <2>3. x = n
    BY <2>2 DEF ValidPlan
  <2>4. QED BY <2>1, <2>3
<1>6. ASSUME NEW u, Shifts(u), NEW e \in old \cup new, NEW f \in old, u \in Targets,
             <<e.target, u>> \in Below \/ e.target = u,
             <<f.target, e.target>> \in Below
      PROVE  f \in gone
  <2>1. <<f.target, u>> \in Below
    BY <1>6, <1>0
  <2>2. QED BY <2>1, <1>1, <1>6
<1>s. \A u : Shifts(u) => u \in Targets
  BY <1>0, <1>2
<1>7. ASSUME NEW e \in gone, NEW f \in old, e.method = "bind", <<f.target, e.target>> \in Below
      PROVE  f \in gone
  <2>1. CASE e \in S
    BY <2>1, <1>7, <1>6, <1>1, <1>s
  <2>2. CASE e \notin S
    BY <2>2, <1>7, <1>6, <1>1, <1>s
  <2>3. QED BY <2>1, <2>2
<1>8. ASSUME NEW e \in new, NEW f \in old, e.method = "bind", <<f.target, e.target>> \in Below,
             \A o \in old \ gone : o.target # e.target
      PROVE  f \in gone
  <2>1. CASE e \in T
    <3>1. Shifts(e.target)
      BY <2>1, <1>8
    <3>2. QED BY <3>1, <1>8, <1>6, <1>s
  <2>2. CASE e \notin T
    <3>1. PICK o \in old : SameProjection(e, o)
      BY <2>2, <1>3
    <3>2. o.target = e.target /\ o.method = "bind"
      BY <3>1, <1>8 DEF SameProjection
    <3>3. o \in gone
      BY <3>2, <1>8
    <3>4. QED BY <3>2, <3>3, <1>7, <1>8
  <2>3. QED BY <2>1, <2>2
<1>9. gone \subseteq old
  BY <1>1
<1> QED BY <1>4, <1>5, <1>7, <1>8, <1>9 DEF gone

\* The placeholder flag of an entry matters to no plan and no removal order.
LEMMA Flags ==
  ASSUME NEW es \in SUBSET Entry, NEW e \in es, NEW b \in BOOLEAN
  PROVE  LET f == [e EXCEPT !.placeholder = b] IN
         /\ f \in Entry /\ f.source = e.source /\ f.target = e.target /\ f.kind = e.kind
         /\ f.method = e.method /\ f.options = e.options
         /\ \A x : x \in Replace(es, e, f) <=> x = f \/ (x \in es /\ x # e)
         /\ Replace(es, e, f) \subseteq Entry
         /\ Bare(Replace(es, e, f)) = Bare(es)
         /\ ValidPlan(es) => ValidPlan(Replace(es, e, f))
         /\ \A old \in SUBSET Entry : RemovalOrder(old, Replace(es, e, f)) = RemovalOrder(old, es)
<1> DEFINE f == [e EXCEPT !.placeholder = b]
           fs2 == Replace(es, e, f)
<1>1. /\ f \in Entry /\ f.source = e.source /\ f.target = e.target /\ f.kind = e.kind
      /\ f.method = e.method /\ f.options = e.options
  BY DEF Entry
<1>b. [f EXCEPT !.placeholder = FALSE] = [e EXCEPT !.placeholder = FALSE]
  BY DEF Entry
<1> HIDE DEF f
<1>2. \A x : x \in fs2 <=> x = f \/ (x \in es /\ x # e)
  BY DEF Replace
<1> HIDE DEF fs2
<1>3. fs2 \subseteq Entry
  BY <1>1, <1>2
<1>4. Bare(fs2) = Bare(es)
  BY <1>2, <1>b DEF Bare
<1>5. ASSUME ValidPlan(es) PROVE ValidPlan(fs2)
  <2>1. \A x, y \in fs2 : x # y => x.source # y.source /\ x.target # y.target
    BY <1>1, <1>2, <1>5 DEF ValidPlan
  <2>2. \A x, y \in fs2 : x.method = "symlink" => <<y.target, x.target>> \notin Below
    BY <1>1, <1>2, <1>5 DEF ValidPlan
  <2>3. QED BY <2>1, <2>2 DEF ValidPlan
<1>6. ASSUME NEW old \in SUBSET Entry
      PROVE  RemovalOrder(old, fs2) = RemovalOrder(old, es)
  <2>1. \A x : (SameProjection(x, f) <=> SameProjection(x, e))
               /\ (SameProjection(f, x) <=> SameProjection(e, x))
    BY <1>1 DEF SameProjection
  <2>2. StaleEntries(old, fs2) = StaleEntries(old, es)
    BY <1>2, <2>1 DEF StaleEntries
  <2>3. \A u : (\E x \in StaleEntries(fs2, old) : x.method = "bind" /\ x.target = u)
                <=> (\E x \in StaleEntries(es, old) : x.method = "bind" /\ x.target = u)
    <3> SUFFICES ASSUME NEW u
                 PROVE  (\E x \in fs2 : x \in StaleEntries(fs2, old) /\ x.method = "bind" /\ x.target = u)
                 <=> (\E x \in es : x \in StaleEntries(es, old) /\ x.method = "bind" /\ x.target = u)
      BY DEF StaleEntries
    <3>1. \A x : x \in fs2 => (x \in StaleEntries(fs2, old) <=> \A n \in old : ~SameProjection(x, n))
      BY DEF StaleEntries
    <3>2. \A x : x \in es => (x \in StaleEntries(es, old) <=> \A n \in old : ~SameProjection(x, n))
      BY DEF StaleEntries
    <3>3. QED BY <3>1, <3>2, <1>1, <1>2, <2>1
  <2> DEFINE Moved(new) == {x.target : x \in {y \in StaleEntries(old, new) \cup StaleEntries(new, old)
                                                 : y.method = "bind"}}
  <2>4. Moved(fs2) = Moved(es)
    <3>1. \A u : u \in Moved(fs2) <=> u \in Moved(es)
      BY <2>2, <2>3
    <3>2. QED BY <3>1
  <2>5. \A new : RemovalOrder(old, new) = StaleEntries(old, new)
                    \cup {o \in old : \E u \in Moved(new) : <<o.target, u>> \in Below}
    BY DEF RemovalOrder
  <2> HIDE DEF Moved
  <2>6. QED BY <2>2, <2>4, <2>5
<1> QED BY <1>1, <1>2, <1>3, <1>4, <1>5, <1>6 DEF f, fs2

\* Nor do the flags a new plan inherits.
LEMMA Inherits ==
  ASSUME NEW p \in Plans, NEW old \in SUBSET Entry, ValidPlan(p)
  PROVE  /\ InheritPlaceholders(p, old) \subseteq Entry
         /\ Bare(InheritPlaceholders(p, old)) = p
         /\ ValidPlan(InheritPlaceholders(p, old))
<1> DEFINE i(e) == [e EXCEPT !.placeholder = \E o \in old : o.placeholder /\ SameProjection(o, e)]
<1>0. p \subseteq Entry /\ \A e \in p : ~e.placeholder
  BY ConstantsOK
<1>1. \A e \in p : /\ i(e) \in Entry /\ i(e).source = e.source /\ i(e).target = e.target
                   /\ i(e).method = e.method
                   /\ [i(e) EXCEPT !.placeholder = FALSE] = e
  BY <1>0 DEF Entry
<1>2. InheritPlaceholders(p, old) = {i(e) : e \in p}
  BY DEF InheritPlaceholders
<1> HIDE DEF i
<1> DEFINE bare(e) == [e EXCEPT !.placeholder = FALSE]
<1>b. \A e \in p : bare(i(e)) = e
  BY <1>1
<1>c. \A es : Bare(es) = {bare(e) : e \in es}
  BY DEF Bare
<1> HIDE DEF bare
<1>3. Bare({i(e) : e \in p}) = p
  <2>1. Bare({i(e) : e \in p}) = {bare(i(e)) : e \in p}
    BY <1>c
  <2>2. QED BY <2>1, <1>b
<1>4. ValidPlan({i(e) : e \in p})
  BY <1>1 DEF ValidPlan
<1> QED BY <1>1, <1>2, <1>3, <1>4
----------------------------------------------------------------------------
(* The entries that may be in place.                                        *)

Alike(x, y) == /\ x.source = y.source /\ x.method = y.method
               /\ x.method = "symlink" \/ x.options = y.options

\* Entries that may be in place at one target ask for the same projection there, and
\* where an entry is to be taken away or put in place nothing is shown below it.
LEMMA Held ==
  ASSUME TypeOK, Whole
  PROVE  /\ Holding \subseteq Entry
         /\ \A x, y \in Holding : x.target = y.target => Alike(x, y)
         /\ pc # "idle" => \A o \in Kept, n \in plan : o.target = n.target => SameProjection(o, n)
         /\ pc = "umount" => ~ShownBelow(cur.target)
         /\ Making /\ phase = "switch" /\ cur \in todo /\ cur.method = "bind"
              /\ (\A o \in Kept : o.target # cur.target) => ~ShownBelow(cur.target)
<1>t. previous \subseteq Entry /\ plan \subseteq Entry /\ todo \subseteq Entry /\ state \subseteq Entry
  BY DEF TypeOK, DiskType, MemoryType
<1>i. OrderInv /\ PlanInv /\ UpperInv /\ HandInv
  BY DEF Whole
<1> DEFINE gone == RemovalOrder(previous, plan)
<1>r. pc # "idle" =>
        /\ gone \subseteq previous
        /\ \A o \in previous \ gone, n \in plan : o.target = n.target => SameProjection(o, n)
        /\ \A e \in gone, f \in previous :
             e.method = "bind" /\ <<f.target, e.target>> \in Below => f \in gone
        /\ \A e \in plan, f \in previous :
             /\ e.method = "bind" /\ <<f.target, e.target>> \in Below
             /\ \A o \in previous \ gone : o.target # e.target
             => f \in gone
  BY <1>t, <1>i, Removals DEF PlanInv
<1> HIDE DEF gone
<1>k. Kept = previous \ gone
  BY DEF Kept, gone
<1>v. /\ \A x, y \in state : x.target = y.target => x = y
      /\ pc # "idle" => /\ \A x, y \in previous : x.target = y.target => x = y
                        /\ \A x, y \in plan : x.target = y.target => x = y
  BY <1>i DEF PlanInv, ValidPlan
<1>s. ASSUME pc # "idle", NEW o \in Kept, NEW n \in plan, o.target = n.target
      PROVE  SameProjection(o, n)
  BY <1>s, <1>k, <1>r
<1>h. /\ pc = "idle" => Holding = state
      /\ pc # "idle" /\ Removing => Holding = Kept \cup todo
      /\ pc # "idle" /\ ~Removing /\ phase = "switch" => Holding = Kept \cup activated
      /\ pc # "idle" /\ ~Removing /\ phase # "switch" => Holding = previous
  BY DEF Holding
<1>p. pc # "idle" =>
        \/ Holding \subseteq previous
        \/ Holding \subseteq Kept \cup plan
  BY <1>h, <1>i, <1>k, <1>r DEF OrderInv, gone
<1>1. Holding \subseteq Entry
  BY <1>t, <1>p, <1>h, <1>k
<1>2. ASSUME NEW x \in Holding, NEW y \in Holding, x.target = y.target
      PROVE  Alike(x, y)
  <2>1. CASE pc = "idle"
    BY <2>1, <1>2, <1>h, <1>v DEF Alike
  <2>2. CASE pc # "idle" /\ Holding \subseteq previous
    BY <2>2, <1>2, <1>v DEF Alike
  <2>3. CASE pc # "idle" /\ Holding \subseteq Kept \cup plan
    <3>1. CASE x \in Kept /\ y \in Kept
      BY <2>3, <3>1, <1>2, <1>k, <1>v DEF Alike
    <3>2. CASE x \in plan /\ y \in plan
      BY <2>3, <3>2, <1>2, <1>v DEF Alike
    <3>3. CASE x \in Kept /\ y \in plan
      BY <2>3, <3>3, <1>2, <1>s DEF Alike, SameProjection
    <3>4. CASE y \in Kept /\ x \in plan
      BY <2>3, <3>4, <1>2, <1>s DEF Alike, SameProjection
    <3>5. QED BY <2>3, <3>1, <3>2, <3>3, <3>4
  <2>4. QED BY <2>1, <2>2, <2>3, <1>p
\* What is shown below t is held, and t is not below itself.
<1>b. ASSUME NEW t \in Targets, ShownBelow(t), pc \in {"apply", "discard"} => t = cur.target
      PROVE  \E h \in Holding : <<h.target, t>> \in Below
  <2>1. <<t, t>> \notin Below
    BY ConstantsOK
  <2>2. ASSUME NEW m \in mounts, <<m.at, t>> \in Below
        PROVE  \E h \in Holding : <<h.target, t>> \in Below
    BY <2>1, <2>2, <1>b, <1>i DEF UpperInv
  <2>3. ASSUME NEW l \in Locs, fs[l].type = "link", <<l[2], t>> \in Below
        PROVE  \E h \in Holding : <<h.target, t>> \in Below
    BY <2>3, <1>i DEF UpperInv
  <2>4. QED BY <1>b, <2>2, <2>3 DEF ShownBelow
<1>3. ASSUME pc = "umount" PROVE ~ShownBelow(cur.target)
  <2> SUFFICES ASSUME ShownBelow(cur.target) PROVE FALSE
    OBVIOUS
  <2>1. /\ cur \in todo /\ cur.method = "bind" /\ Deepest(cur) /\ cur.target \in Targets
        /\ Removing /\ pc # "idle"
    BY <1>3, <1>i, <1>t DEF HandInv, Within, Removing, Entry
  <2>2. PICK h \in Holding : <<h.target, cur.target>> \in Below
    BY <2>1, <1>b, <1>3
  <2>3. h \in Kept
    BY <2>1, <2>2, <1>h DEF Deepest
  <2>4. CASE phase = "switch"
    <3>1. cur \in gone
      BY <2>1, <2>4, <1>i DEF OrderInv, gone
    <3>2. QED BY <2>1, <2>2, <2>3, <3>1, <1>k, <1>r
  <2>5. CASE phase # "switch"
    <3>1. cur \in plan /\ \A o \in Kept : o.target # cur.target
      BY <2>1, <2>5, <1>i DEF OrderInv
    <3>2. QED BY <2>1, <2>2, <2>3, <3>1, <1>k, <1>r
  <2>6. QED BY <2>4, <2>5
<1>4. ASSUME Making, phase = "switch", cur \in todo, cur.method = "bind",
             \A o \in Kept : o.target # cur.target
      PROVE  ~ShownBelow(cur.target)
  <2> SUFFICES ASSUME ShownBelow(cur.target) PROVE FALSE
    OBVIOUS
  <2>1. cur.target \in Targets /\ pc # "idle" /\ ~Removing
    BY <1>4, <1>t DEF Entry, Making, Removing
  <2>2. PICK h \in Holding : <<h.target, cur.target>> \in Below
    BY <2>1, <1>b
  <2>3. /\ cur \in plan /\ activated \subseteq plan /\ activated \cap todo = {}
        /\ \A f \in plan \ todo : <<f.target, cur.target>> \notin Below
    BY <1>4, <2>1, <1>i DEF OrderInv, Working
  <2>4. h \in Kept
    BY <2>1, <2>2, <2>3, <1>4, <1>h
  <2>5. QED BY <2>1, <2>2, <2>3, <2>4, <1>4, <1>k, <1>r
<1> QED BY <1>1, <1>2, <1>s, <1>3, <1>4
----------------------------------------------------------------------------
(* Steps that change no mount.                                              *)

LinksOnlyGo == \A l \in Locs : fs'[l].type = "link" => fs[l].type = "link" /\ fs'[l] = fs[l]

\* A walk meets the same where the mount table is the same.
LEMMA MountsSame ==
  ASSUME mounts' = mounts
  PROVE  /\ Up' = Up /\ NestInv' <=> NestInv
         /\ \A t : Loc(t)' = Loc(t) /\ MountAt(t)' = MountAt(t)
         /\ \A e : MountOf(e)' <=> MountOf(e)
         /\ LinksOnlyGo => \A t : ShownBelow(t)' => ShownBelow(t)
         /\ fs' = fs => \A e : (Projected(e)' <=> Projected(e)) /\ (OwnLink(e)' <=> OwnLink(e))
<1>1. Up' = Up
  BY DEF Up
<1>2. NestInv' <=> NestInv
  BY <1>1 DEF NestInv, Above
<1>3. ASSUME NEW t PROVE Chain(t)' = Chain(t)
  BY DEF Chain, IsChain, Above
<1>4. ASSUME NEW t PROVE Loc(t)' = Loc(t) /\ MountAt(t)' = MountAt(t)
  <2>1. Innermost(t)' = Innermost(t)
    BY <1>3 DEF Innermost
  <2>2. BaseOf(t)' = BaseOf(t)
    BY <2>1 DEF BaseOf
  <2>3. QED BY <2>2, <1>3 DEF Loc, MountAt
<1>5. \A e : MountOf(e)' <=> MountOf(e)
  BY DEF MountOf
<1>6. LinksOnlyGo => \A t : ShownBelow(t)' => ShownBelow(t)
  BY DEF LinksOnlyGo, ShownBelow
<1>7. ASSUME fs' = fs, NEW e PROVE (Projected(e)' <=> Projected(e)) /\ (OwnLink(e)' <=> OwnLink(e))
  <2>1. ASSUME NEW t PROVE Node(t)' = Node(t)
    <3>1. MountAt(t)' = MountAt(t) /\ fs'[Loc(t)'] = fs[Loc(t)]
      BY <1>4, <1>7
    <3>2. QED BY <3>1 DEF Node, Made
  <2>2. OwnLink(e)' <=> OwnLink(e)
    BY <2>1 DEF OwnLink, WalkFails, Above
  <2>3. QED BY <2>2, <1>4 DEF Projected
<1> QED BY <1>1, <1>2, <1>4, <1>5, <1>6, <1>7

\* A failing step starts the failure path with what is in place in order.
LEMMA FailKeeps ==
  ASSUME TypeOK, TypeOK', Whole, pc # "idle", pc \notin {"apply", "discard"},
         Fail(Removing), Removing \/ Making \/ pc = "stores", outcome'.how # "lost",
         mounts' = mounts, state' = state, LinksOnlyGo
  PROVE  Whole'
<1>i. NestInv /\ UpperInv /\ LowerInv /\ ClosedInv /\ OrderInv /\ HandInv /\ PlanInv
  BY DEF Whole
<1>m. /\ Up' = Up /\ NestInv'
      /\ \A t : Loc(t)' = Loc(t)
      /\ \A e : MountOf(e)' <=> MountOf(e)
      /\ \A t : ShownBelow(t)' => ShownBelow(t)
  BY <1>i, MountsSame
<1>s. phase = "switch"
  <2>1. End("lost") => outcome'.how = "lost"
    BY DEF End, TypeOK, ControlType
  <2>2. QED BY <2>1 DEF Fail
<1>c. UNCHANGED <<previous, plan, activated, outcome>> /\ cur' = Nil
  BY <1>s DEF Fail, Go
<1>k. Kept' = Kept
  BY <1>c DEF Kept
<1>p. PlanInv'
  BY <1>i, <1>c DEF PlanInv
<1>u. ASSUME Holding \subseteq Holding', pc' \notin {"apply", "discard"} PROVE UpperInv'
  <2>1. ASSUME NEW m \in mounts'
        PROVE  \E e \in Holding' : /\ e.method = "bind" /\ e.target = m.at
                                   /\ e.source = m.src /\ e.options = m.opts
    BY <1>i, <1>u DEF UpperInv
  <2>2. ASSUME NEW l \in Locs, fs'[l].type = "link"
        PROVE  /\ l = Loc(l[2])'
               /\ \E e \in Holding' : e.method = "symlink" /\ e.target = l[2] /\ e.source = fs'[l].to
    <3>1. fs[l].type = "link" /\ fs'[l] = fs[l]
      BY <2>2 DEF LinksOnlyGo
    <3>2. l = Loc(l[2])
      BY <3>1, <1>i DEF UpperInv
    <3>3. \E e \in Holding : e.method = "symlink" /\ e.target = l[2] /\ e.source = fs[l].to
      BY <3>1, <1>i DEF UpperInv
    <3>4. QED BY <3>1, <3>2, <3>3, <1>m, <1>u
  <2>3. QED BY <2>1, <2>2 DEF UpperInv
<1>1. CASE Removing
  <2>1. pc' = "prepare" /\ phase' = "rollback" /\ todo' = previous
    BY <1>1, <1>s DEF Fail, Go
  <2>2. ~Removing' /\ Making' /\ Holding' = previous /\ Working' = previous
    BY <2>1, <1>c DEF Removing, Making, Holding, Working
  <2>3. Holding \subseteq previous
    BY <1>1, <1>s, <1>i DEF Holding, OrderInv, Kept, RemovalOrder, StaleEntries
  <2>4. UpperInv'
    BY <2>1, <2>2, <2>3, <1>u
  <2>5. LowerInv'
    BY <2>1, <2>2 DEF LowerInv
  <2>6. ClosedInv'
    BY <1>1, <1>s, <1>c, <1>m, <1>i DEF ClosedInv
  <2>7. OrderInv'
    BY <2>1, <2>2 DEF OrderInv
  <2>8. HandInv'
    BY <2>1 DEF HandInv, Within
  <2>9. QED BY <2>4, <2>5, <2>6, <2>7, <2>8, <1>m, <1>p DEF Whole
<1>2. CASE ~Removing
  <2>1. pc' = "reconcile" /\ phase' = "restore" /\ todo' = activated
    BY <1>2, <1>s DEF Fail, Go
  <2>2. Removing' /\ ~Making' /\ Holding' = Kept \cup activated
    BY <2>1, <1>k DEF Removing, Making, Holding
  <2>3. Holding = Kept \cup activated
    BY <1>2, <1>s DEF Holding
  <2>4. UpperInv'
    BY <2>1, <2>2, <2>3, <1>u
  <2>5. LowerInv'
    BY <2>1, <2>2, <1>i, <1>k, <1>m, <1>s DEF LowerInv
  <2>6. ClosedInv'
    BY <2>1, <2>2 DEF ClosedInv
  <2>7. OrderInv'
    BY <2>1, <2>2, <1>i, <1>k, <1>c, <1>s DEF OrderInv
  <2>8. HandInv'
    BY <2>1 DEF HandInv, Within
  <2>9. QED BY <2>4, <2>5, <2>6, <2>7, <2>8, <1>m, <1>p DEF Whole
<1>3. QED BY <1>1, <1>2

\* The removal loop moves on from an entry that is no longer in place.
LEMMA RemovalMovesOn ==
  ASSUME TypeOK, TypeOK', Whole, Removing, NEW e \in todo, Done("reconcile", e),
         mounts' = mounts, state' = state, LinksOnlyGo,
         e.target \notin Up, \A l \in Locs : fs'[l].type = "link" => l[2] # e.target
  PROVE  Whole'
<1>i. NestInv /\ UpperInv /\ LowerInv /\ ClosedInv /\ OrderInv /\ HandInv /\ PlanInv
  BY DEF Whole
<1>m. /\ Up' = Up /\ NestInv'
      /\ \A t : Loc(t)' = Loc(t)
      /\ \A x : MountOf(x)' <=> MountOf(x)
      /\ \A t : ShownBelow(t)' => ShownBelow(t)
  BY <1>i, MountsSame
<1>c. /\ UNCHANGED <<phase, previous, plan, activated, outcome>> /\ cur' = Nil
      /\ pc' = "reconcile" /\ todo' = {f \in todo : f.target # e.target}
  BY DEF Done, Go
<1>r. Removing' /\ ~Making' /\ pc # "idle" /\ ~Making /\ pc \notin {"apply", "discard"}
  BY <1>c DEF Removing, Making
<1>k. Kept' = Kept /\ Holding = Kept \cup todo /\ Holding' = Kept \cup todo'
  BY <1>c, <1>r DEF Kept, Holding
<1>p. PlanInv'
  BY <1>i, <1>c, <1>r DEF PlanInv
<1>1. UpperInv'
  <2>1. ASSUME NEW m \in mounts'
        PROVE  \E x \in Holding' : /\ x.method = "bind" /\ x.target = m.at
                                   /\ x.source = m.src /\ x.options = m.opts
    <3>1. m.at # e.target
      BY <2>1 DEF Up
    <3>2. PICK x \in Holding : /\ x.method = "bind" /\ x.target = m.at
                               /\ x.source = m.src /\ x.options = m.opts
      BY <2>1, <1>i, <1>r DEF UpperInv
    <3>3. QED BY <3>1, <3>2, <1>k, <1>c
  <2>2. ASSUME NEW l \in Locs, fs'[l].type = "link"
        PROVE  /\ l = Loc(l[2])'
               /\ \E x \in Holding' : x.method = "symlink" /\ x.target = l[2] /\ x.source = fs'[l].to
    <3>1. fs[l].type = "link" /\ fs'[l] = fs[l] /\ l[2] # e.target
      BY <2>2 DEF LinksOnlyGo
    <3>2. l = Loc(l[2])
      BY <3>1, <1>i DEF UpperInv
    <3>3. PICK x \in Holding : x.method = "symlink" /\ x.target = l[2] /\ x.source = fs[l].to
      BY <3>1, <1>i DEF UpperInv
    <3>4. QED BY <3>1, <3>2, <3>3, <1>m, <1>k, <1>c
  <2>3. QED BY <2>1, <2>2 DEF UpperInv
<1>2. LowerInv'
  BY <1>c, <1>r, <1>k, <1>m, <1>i DEF LowerInv
<1>3. ClosedInv'
  BY <1>c, <1>r, <1>m, <1>i DEF ClosedInv
<1>4. OrderInv'
  BY <1>c, <1>r, <1>k, <1>i DEF OrderInv
<1>5. HandInv'
  BY <1>c DEF HandInv, Within
<1>6. QED BY <1>1, <1>2, <1>3, <1>4, <1>5, <1>m, <1>p DEF Whole

\* The projection loop moves on from an entry that is in place.
LEMMA ProjectionMovesOn ==
  ASSUME TypeOK, TypeOK', Whole, pc \in {"activate", "apply"}, NEW c, c = cur,
         UNCHANGED <<state, phase, previous, plan, outcome>>,
         pc' = "prepare", cur' = Nil, todo' = {f \in todo : f.target # cur.target},
         activated' \subseteq activated \cup {cur},
         cur \in activated' /\ phase = "switch" /\ cur.method = "bind"
           => \A o \in Kept : cur.target # o.target,
         \A e \in Working \ todo : Projected(e)', Projected(c)',
         \A e : MountOf(e) => MountOf(e)'
  PROVE  LowerInv' /\ OrderInv' /\ HandInv' /\ PlanInv'
<1>i. LowerInv /\ OrderInv /\ HandInv /\ PlanInv
  BY DEF Whole
<1>r. /\ ~Removing' /\ Making' /\ ~Removing /\ Making /\ pc # "idle" /\ Working' = Working
      /\ Kept' = Kept
  BY DEF Removing, Making, Working, Kept
<1>h. /\ cur \in todo /\ Topmost(cur) /\ todo \subseteq Working
      /\ \A x, y \in Working : x.target = y.target => x = y
  <2>1. cur \in todo /\ Topmost(cur)
    BY <1>i DEF HandInv, Within
  <2>2. todo \subseteq Working
    BY <1>r, <1>i DEF OrderInv
  <2>3. QED BY <2>1, <2>2, <1>i, <1>r DEF PlanInv, ValidPlan, Working
<1>d. \A f \in Working : f \notin todo' => f \notin todo \/ f = cur
  BY <1>h
<1>1. LowerInv'
  <2>1. \A e \in Working' \ todo' : Projected(e)'
    <3> SUFFICES ASSUME NEW e \in Working, e \notin todo' PROVE Projected(e)'
      BY <1>r
    <3>1. CASE e = cur
      BY <3>1
    <3>2. CASE e \in Working \ todo
      BY <3>2
    <3>3. QED BY <3>1, <3>2, <1>d
  <2>2. QED BY <2>1, <1>i, <1>r DEF LowerInv
<1>2. OrderInv'
  <2>1. /\ todo' \subseteq Working'
        /\ \A e \in todo', f \in Working' \ todo' : <<f.target, e.target>> \notin Below
    BY <1>d, <1>h, <1>r, <1>i DEF OrderInv, Topmost
  <2>2. phase = "switch" => activated' \subseteq plan' /\ activated' \cap todo' = {}
    BY <1>h, <1>r, <1>i DEF OrderInv, Working
  <2>3. \A a \in activated', o \in Kept' :
          phase = "switch" /\ a.method = "bind" => a.target # o.target
    BY <1>r, <1>i DEF OrderInv
  <2>4. phase # "rollback" \/ ~Removing'
    BY <1>r
  <2>5. QED BY <2>1, <2>2, <2>3, <1>r DEF OrderInv
<1>3. HandInv'
  BY DEF HandInv, Within
<1>4. PlanInv'
  BY <1>i, <1>r DEF PlanInv
<1>5. QED BY <1>1, <1>2, <1>3, <1>4
----------------------------------------------------------------------------
(* Taking projections away.                                                 *)

\* Taking away what is mounted at t, where nothing is shown below it.
LEMMA Unmounts ==
  ASSUME TypeOK, TypeOK', NestInv, NEW t \in Targets, ~ShownBelow(t),
         mounts' = mounts \ MountAt(t), fs' = fs
  PROVE  /\ NestInv' /\ Up' = Up \ {t} /\ mounts' = {m \in mounts : m.at # t}
         /\ \A u \in Targets : u # t => SameAt(u)
         /\ \A u \in Targets : <<u, t>> \notin Below => Loc(u)' = Loc(u)
         /\ \A u : ShownBelow(u)' => ShownBelow(u)
<1>1. mounts' = {m \in mounts : m.at # t}
  <2>1. Walks(t)
    BY NestedWalks DEF Geometry
  <2>2. QED BY <2>1 DEF Walks
<1>2. Up' = Up \ {t}
  BY <1>1 DEF Up
<1>3. NestInv'
  <2>1. ASSUME NEW m \in mounts' PROVE m.under = Up' \cap Above(m.at)
    <3>1. m \in mounts /\ <<m.at, t>> \notin Below
      BY <1>1, <2>1 DEF ShownBelow
    <3>2. m.under = Up \cap Above(m.at) /\ t \notin Above(m.at)
      BY <3>1 DEF NestInv, Above
    <3>3. QED BY <3>2, <1>2
  <2>2. \A m, n \in mounts' : m.at = n.at => m = n
    BY <1>1 DEF NestInv
  <2>3. QED BY <2>1, <2>2 DEF NestInv, Above
<1>4. \A u \in Targets : u # t => SameAt(u)
  BY <1>1 DEF SameAt
<1>5. ASSUME NEW u \in Targets, <<u, t>> \notin Below PROVE Loc(u)' = Loc(u)
  <2>1. \A v \in Above(u) : v \in Targets /\ v # t
    BY <1>5 DEF Above
  <2>2. \A v \in Above(u) : SameAt(v)
    BY <2>1, <1>4
  <2>3. QED BY <2>2, <1>3, Steady
<1>6. \A u : ShownBelow(u)' => ShownBelow(u)
  BY <1>1 DEF ShownBelow
<1>7. QED BY <1>1, <1>2, <1>3, <1>4, <1>5, <1>6

\* reconcile, step by step: what is taken away was in place, and nothing below it is shown.
LEMMA RemoveKeeps ==
  ASSUME TypeOK, TypeOK', Whole, ~Hopeless, BindsTakenBack, Remove, outcome'.how # "lost"
  PROVE  Whole'
<1>i. NestInv /\ UpperInv /\ LowerInv /\ ClosedInv /\ OrderInv /\ HandInv /\ PlanInv
  BY DEF Whole
<1>t. /\ fs \in [Locs -> NodeType] /\ mounts \subseteq MountType /\ todo \subseteq Entry
      /\ previous \subseteq Entry /\ plan \subseteq Entry
  BY DEF TypeOK, DiskType, MemoryType
<1>h. /\ \A x, y \in Holding : x.target = y.target => Alike(x, y)
      /\ pc = "umount" => ~ShownBelow(cur.target)
      /\ Making /\ phase = "switch" /\ cur \in todo /\ cur.method = "bind"
           /\ (\A o \in Kept : o.target # cur.target) => ~ShownBelow(cur.target)
  BY Held
<1>w. \A t \in Targets : Walks(t)
  BY <1>i, NestedWalks DEF Geometry
<1>c. pc \in Within => cur \in todo /\ cur \in Entry /\ cur.target \in Targets
  BY <1>i, <1>t DEF HandInv, Entry
<1>f. /\ Removing /\ Fail(TRUE) => Fail(Removing)
      /\ ~Removing /\ Fail(FALSE) => Fail(Removing)
  BY DEF Fail
<1>n. fs' = fs => LinksOnlyGo
  BY DEF LinksOnlyGo
<1>a. Removing => Holding = Kept \cup todo /\ pc # "idle" /\ ~Making /\ pc \notin {"apply", "discard"}
  BY DEF Removing, Making, Holding
\* Where the entry at hand is a bind no link is at its target, and the other way round.
<1>o. ASSUME Removing, NEW e \in todo
      PROVE  /\ e.method = "bind" => \A l \in Locs : fs[l].type = "link" => l[2] # e.target
             /\ e.method = "symlink" => e.target \notin Up
  <2>1. e \in Holding
    BY <1>o, <1>a
  <2>2. ASSUME e.method = "bind", NEW l \in Locs, fs[l].type = "link" PROVE l[2] # e.target
    <3>1. PICK x \in Holding : x.method = "symlink" /\ x.target = l[2]
      BY <2>2, <1>i DEF UpperInv
    <3>2. QED BY <3>1, <2>1, <2>2, <1>h DEF Alike
  <2>3. ASSUME e.method = "symlink", NEW m \in mounts PROVE m.at # e.target
    <3>1. PICK x \in Holding : x.method = "bind" /\ x.target = m.at
      BY <1>o, <1>a, <1>i DEF UpperInv
    <3>2. QED BY <3>1, <2>1, <2>3, <1>h DEF Alike
  <2>4. QED BY <2>2, <2>3 DEF Up
\* Between two steps on the same entry.
<1>s. ASSUME Removing, Removing', LinksOnlyGo,
             UNCHANGED <<mounts, state, phase, previous, plan, todo, activated, outcome>>
      PROVE  NestInv' /\ UpperInv' /\ LowerInv' /\ ClosedInv' /\ OrderInv' /\ PlanInv'
  <2>m. /\ Up' = Up /\ NestInv'
        /\ \A t : Loc(t)' = Loc(t)
        /\ \A x : MountOf(x)' <=> MountOf(x)
        /\ \A t : ShownBelow(t)' => ShownBelow(t)
    BY <1>s, <1>i, MountsSame
  <2>r. ~Making' /\ pc' \notin {"idle", "apply", "discard", "stores", "write"}
    BY <1>s DEF Removing, Making
  <2>k. Kept' = Kept /\ Holding' = Holding
    BY <1>s, <2>r, <1>a DEF Kept, Holding
  <2>1. UpperInv'
    <3>1. ASSUME NEW m \in mounts'
          PROVE  \E x \in Holding' : /\ x.method = "bind" /\ x.target = m.at
                                     /\ x.source = m.src /\ x.options = m.opts
      BY <1>s, <1>a, <1>i, <2>k DEF UpperInv
    <3>2. ASSUME NEW l \in Locs, fs'[l].type = "link"
          PROVE  /\ l = Loc(l[2])'
                 /\ \E x \in Holding' : x.method = "symlink" /\ x.target = l[2] /\ x.source = fs'[l].to
      <4>1. fs[l].type = "link" /\ fs'[l] = fs[l]
        BY <3>2, <1>s DEF LinksOnlyGo
      <4>2. QED BY <4>1, <2>k, <2>m, <1>i DEF UpperInv
    <3>3. QED BY <3>1, <3>2 DEF UpperInv
  <2>2. LowerInv'
    BY <1>s, <1>a, <1>i, <2>k, <2>m, <2>r DEF LowerInv
  <2>3. ClosedInv'
    BY <1>s, <1>a, <1>i, <2>m, <2>r DEF ClosedInv
  <2>4. OrderInv'
    BY <1>s, <1>a, <1>i, <2>k, <2>r DEF OrderInv
  <2>5. PlanInv'
    BY <1>s, <1>a, <1>i, <2>r DEF PlanInv
  <2>6. QED BY <2>m, <2>1, <2>2, <2>3, <2>4, <2>5
<1>1. ASSUME NEW e \in todo, BeginRemoval(e) PROVE Whole'
  <2>1. Removing /\ Deepest(e) /\ UNCHANGED <<fs, mounts, state, quarantine>>
    BY <1>1 DEF BeginRemoval, Removing, disk
  <2>2. e \in Entry /\ e.target \in Targets
    BY <1>t DEF Entry
  <2>3. CASE e.method = "bind" /\ MountedFrom(e.target, e.source) /\ Enter("umount", e)
    <3>1. /\ UNCHANGED <<phase, previous, plan, todo, activated, outcome>> /\ cur' = e
          /\ pc' = "umount" /\ Removing'
      BY <2>3 DEF Enter, Go, Removing
    <3>2. MountOf(e)
      BY <2>3 DEF MountedFrom, MountAt, MountOf
    <3>3. HandInv'
      <4>1. /\ Deepest(e)' /\ MountOf(e)' 
        BY <2>1, <3>1, <3>2 DEF Deepest, MountOf
      <4>2. Deepest(cur)' /\ MountOf(cur)'
        BY <4>1, <3>1 DEF Deepest, MountOf
      <4>3. QED BY <2>3, <3>1, <4>2 DEF HandInv
    <3>4. QED BY <1>s, <1>n, <2>1, <3>1, <3>3 DEF Whole
  <2>4. CASE e.method = "symlink" /\ OwnLink(e) /\ Enter("quarantine", e)
    <3>1. /\ UNCHANGED <<phase, previous, plan, todo, activated, outcome>> /\ cur' = e
          /\ pc' = "quarantine" /\ Removing'
      BY <2>4 DEF Enter, Go, Removing
    <3>2. OwnLink(e)'
      BY <2>1, <2>4, MountsSame
    <3>3. OwnLink(cur)'
      BY <3>1, <3>2 DEF OwnLink
    <3>4. Deepest(cur)'
      BY <2>1, <3>1 DEF Deepest
    <3>5. HandInv'
      BY <2>4, <3>1, <3>3, <3>4 DEF HandInv
    <3>6. QED BY <1>s, <1>n, <2>1, <3>1, <3>5 DEF Whole
  <2>5. QED BY <1>1, <2>3, <2>4 DEF BeginRemoval
<1>2. ASSUME NEW e \in todo, SkipRemoval(e) PROVE Whole'
  <2>1. Removing /\ Done("reconcile", e) /\ UNCHANGED <<fs, mounts, state>>
    BY <1>2 DEF SkipRemoval, Removing, disk
  <2>2. e \in Entry /\ e.target \in Targets
    BY <1>t DEF Entry
  <2>3. CASE e.method = "bind" /\ ~Mounted(e.target)
    <3>1. e.target \notin Up
      BY <2>2, <2>3, <1>w DEF Walks
    <3>2. \A l \in Locs : fs'[l].type = "link" => l[2] # e.target
      BY <2>1, <2>3, <1>o
    <3>3. QED BY <2>1, <3>1, <3>2, <1>n, RemovalMovesOn
  <2>4. CASE e.method = "symlink" /\ ~WalkFails(e.target) /\ ~OwnLink(e)
    <3>1. e.target \notin Up
      BY <2>1, <2>4, <1>o
    <3>2. ASSUME NEW l \in Locs, fs'[l].type = "link", l[2] = e.target PROVE FALSE
      <4>1. fs[l].type = "link" /\ l = Loc(e.target)
        BY <2>1, <3>2, <1>i DEF UpperInv
      <4>2. PICK x \in Holding : x.target = l[2] /\ x.source = fs[l].to
        BY <4>1, <1>i DEF UpperInv
      <4>3. Alike(x, e)
        BY <4>2, <3>2, <2>1, <1>a, <1>h
      <4>4. fs[l].to = e.source
        BY <4>2, <4>3 DEF Alike
      <4>5. Node(e.target) = fs[l]
        BY <4>1, <3>1, <2>2, <1>w DEF Walks
      <4>6. QED BY <4>1, <4>4, <4>5, <2>4 DEF OwnLink
    <3>3. QED BY <2>1, <3>1, <3>2, <1>n, RemovalMovesOn
  <2>5. QED BY <1>2, <2>3, <2>4 DEF SkipRemoval
<1>3. ASSUME NEW e \in todo, RefuseRemoval(e) PROVE Whole'
  <2>1. Removing /\ Fail(TRUE) /\ UNCHANGED <<fs, mounts, state>>
    BY <1>3 DEF RefuseRemoval, Removing, disk
  <2>2. QED BY <2>1, <1>a, <1>f, <1>n, FailKeeps
<1>4. CASE Umount
  <2> DEFINE t == cur.target
  <2>1. /\ pc \in {"umount", "discard"} /\ mounts' = mounts \ MountAt(t) /\ pc \in Within
        /\ Enter(IF pc = "umount" THEN "unlink" ELSE "discard unlink", cur)
        /\ UNCHANGED <<fs, state, quarantine>>
    BY <1>4 DEF Umount, Within
  <2>2. /\ UNCHANGED <<phase, previous, plan, todo, activated, outcome, cur>>
        /\ pc' = IF pc = "umount" THEN "unlink" ELSE "discard unlink"
    BY <2>1 DEF Enter, Go
  <2>3. cur \in todo /\ cur \in Entry /\ t \in Targets /\ cur.method = "bind"
    BY <2>1, <1>c, <1>i DEF HandInv
  <2>4. pc = "discard" => /\ phase = "switch" /\ Making /\ Topmost(cur)
                          /\ \A o \in Kept \cup activated : t # o.target
    BY <1>i DEF HandInv, Hopeless, Making
  <2>5. ~ShownBelow(t)
    BY <2>1, <2>3, <2>4, <1>h
  <2>6. /\ NestInv' /\ Up' = Up \ {t} /\ mounts' = {m \in mounts : m.at # t}
        /\ \A u \in Targets : u # t => SameAt(u)
        /\ \A u \in Targets : <<u, t>> \notin Below => Loc(u)' = Loc(u)
        /\ \A u : ShownBelow(u)' => ShownBelow(u)
    BY <2>1, <2>3, <2>5, <1>i, Unmounts
  <2>7. Kept' = Kept /\ Holding' = Holding /\ Working' = Working
    BY <2>1, <2>2 DEF Kept, Holding, Removing, Working
  <2>8. \A o \in Kept : o.target # t
    <3>1. ASSUME pc = "umount", NEW o \in Kept PROVE o.target # t
      <4>0. Removing
        BY <3>1 DEF Removing
      <4>1. CASE phase = "switch"
        <5>1. cur \in RemovalOrder(previous, plan) /\ o \notin RemovalOrder(previous, plan)
          BY <2>3, <3>1, <4>0, <4>1, <1>a, <1>i DEF OrderInv, Kept
        <5>2. cur \in previous /\ o \in previous
          BY <5>1 DEF Kept, RemovalOrder, StaleEntries
        <5>3. QED BY <5>1, <5>2, <4>0, <1>a, <1>i DEF PlanInv, ValidPlan
      <4>2. CASE phase # "switch"
        BY <2>3, <4>0, <1>a, <1>i DEF OrderInv
      <4>3. QED BY <4>1, <4>2
    <3>2. QED BY <3>1, <2>1, <2>4
  <2>9. UpperInv'
    <3>1. ASSUME NEW m \in mounts'
          PROVE  \E x \in Holding' : /\ x.method = "bind" /\ x.target = m.at
                                     /\ x.source = m.src /\ x.options = m.opts
      BY <2>6, <2>7, <1>i DEF UpperInv
    <3>2. ASSUME NEW l \in Locs, fs'[l].type = "link"
          PROVE  /\ l = Loc(l[2])'
                 /\ \E x \in Holding' : x.method = "symlink" /\ x.target = l[2] /\ x.source = fs'[l].to
      <4>1. fs[l].type = "link" /\ fs'[l] = fs[l] /\ l[2] \in Targets
        BY <3>2, <2>1 DEF Locs
      <4>2. <<l[2], t>> \notin Below
        BY <4>1, <2>5 DEF ShownBelow
      <4>3. QED BY <4>1, <4>2, <2>6, <2>7, <1>i DEF UpperInv
    <3>3. QED BY <3>1, <3>2 DEF UpperInv
  <2>10. \A o \in Kept' : o.method = "bind" /\ MountOf(o) => MountOf(o)'
    BY <2>6, <2>7, <2>8 DEF MountOf
  <2>11. LowerInv'
    <3>1. CASE pc = "umount"
      <4>1. Removing /\ Removing' /\ ~Making' /\ pc' # "idle"
        BY <3>1, <2>2 DEF Removing, Making
      <4>2. QED BY <4>1, <2>7, <2>10, <1>a, <1>i DEF LowerInv
    <3>2. CASE pc = "discard"
      <4>1. ASSUME NEW e \in plan \ todo PROVE Projected(e)'
        <5>1. e.target # t /\ <<e.target, t>> \notin Below
          BY <3>2, <2>3, <2>4, <1>i DEF OrderInv, Working, PlanInv, ValidPlan
        <5>2. Projected(e) /\ e \in Entry /\ e.target \in Targets
          BY <3>2, <2>4, <1>i, <1>t DEF LowerInv, Working, Entry
        <5>3. \A u \in Above(e.target) : u \in Targets /\ u # t
          BY <5>1 DEF Above
        <5>4. QED
          BY <5>1, <5>2, <5>3, <2>1, <2>6, <1>i, StaysProjected
      <4>2. Working' = plan /\ ~Removing' /\ pc' # "idle"
        BY <3>2, <2>2, <2>4 DEF Working, Removing
      <4>3. QED BY <4>1, <4>2, <3>2, <2>2, <2>4, <2>7, <2>10, <1>i DEF LowerInv
    <3>3. QED BY <3>1, <3>2, <2>1
  <2>12. ClosedInv'
    <3>1. ASSUME NEW e \in previous, e.target \notin Up', pc = "umount", phase = "switch",
                 e.method = "bind"
          PROVE  ~ShownBelow(e.target)'
      <4>1. CASE e.target = t
        BY <4>1, <2>5, <2>6
      <4>2. CASE e.target # t
        <5>1. e.target \notin Up
          BY <4>2, <3>1, <2>6
        <5>2. QED BY <5>1, <3>1, <2>6, <1>i DEF ClosedInv, Removing
      <4>3. QED BY <4>1, <4>2
    <3>2. pc = "umount" => Removing'
      BY <2>2 DEF Removing
    <3>3. pc = "discard" => ~Removing'
      BY <2>2 DEF Removing
    <3>4. QED BY <3>1, <3>2, <3>3, <2>1, <2>2, <2>4 DEF ClosedInv
  <2>13. OrderInv'
    BY <2>1, <2>2, <2>7, <1>i DEF OrderInv, Removing, Making
  <2>14. HandInv'
    <3>1. pc = "umount" => Deepest(cur)'
      BY <2>2, <1>i DEF HandInv, Deepest
    <3>2. pc = "discard" => Topmost(cur)'
      BY <2>2, <2>4 DEF Topmost
    <3>3. QED BY <2>1, <2>2, <2>3, <2>6, <3>1, <3>2 DEF HandInv
  <2>15. PlanInv'
    BY <2>1, <2>2, <1>i DEF PlanInv
  <2>16. QED BY <2>6, <2>9, <2>11, <2>12, <2>13, <2>14, <2>15 DEF Whole
<1>5. CASE UmountFails
  <2>1. CASE pc = "umount"
    <3>1. Removing /\ Fail(TRUE) /\ UNCHANGED <<fs, mounts, state>>
      BY <1>5, <2>1 DEF UmountFails, Removing, disk, Fail
    <3>2. QED BY <3>1, <1>a, <1>f, <1>n, FailKeeps
  <2>2. CASE pc = "discard"
    <3>1. /\ cur \in todo /\ cur.target \in Targets /\ cur.method = "bind" /\ MountOf(cur)
          /\ phase = "switch" /\ Making /\ \A o \in Kept : cur.target # o.target
          /\ "apply" \in FaultKinds /\ spent.faults >= 1
      BY <2>2, <1>c, <1>i DEF HandInv, Hopeless, Within, Making
    <3>2. ~ShownBelow(cur.target)
      BY <3>1, <1>h
    <3>3. Mounted(cur.target) /\ ~Busy(cur.target)
      BY <3>1, <3>2, <1>w DEF Walks, MountOf, Up, ShownBelow
    <3>4. Fault("umount")
      BY <3>3, <1>5 DEF UmountFails
    <3>5. spent.faults \in Nat /\ MaxFaults \in Nat
      BY ConstantsOK DEF TypeOK, ControlType
    <3>6. QED BY <3>1, <3>4, <3>5 DEF Fault, BindsTakenBack
  <2>3. QED BY <1>5, <2>1, <2>2 DEF UmountFails
<1>6. CASE Unlink
  <2>1. pc \in {"unlink", "discard unlink"} /\ pc \in Within /\ UNCHANGED <<mounts, state>>
    BY <1>6 DEF Unlink, Within
  <2>2. cur \in todo /\ cur.method = "bind" /\ cur.target \notin Up
    BY <2>1, <1>c, <1>i DEF HandInv
  <2>3. LinksOnlyGo
    BY <1>6, <1>t DEF Unlink, LinksOnlyGo, NoNode
  <2>4. CASE pc = "unlink"
    <3>1. Removing
      BY <2>4 DEF Removing
    <3>2. CASE Done("reconcile", cur)
      <4>1. \A l \in Locs : fs'[l].type = "link" => l[2] # cur.target
        BY <2>2, <2>3, <3>1, <1>o DEF LinksOnlyGo
      <4>2. QED BY <2>1, <2>2, <2>3, <3>1, <3>2, <4>1, RemovalMovesOn
    <3>3. CASE Fail(TRUE)
      BY <2>1, <2>3, <3>1, <3>3, <1>a, <1>f, FailKeeps
    <3>4. QED BY <1>6, <2>4, <3>2, <3>3 DEF Unlink, Fail
  <2>5. CASE pc = "discard unlink"
    <3>1. ~Removing /\ Making /\ pc \notin {"idle", "apply", "discard"}
      BY <2>5 DEF Removing, Making
    <3>2. Fail(FALSE)
      BY <1>6, <2>5 DEF Unlink, Fail
    <3>3. QED BY <2>1, <2>3, <3>1, <3>2, <1>f, FailKeeps
  <2>6. QED BY <2>1, <2>4, <2>5
<1>7. CASE Quarantine
  <2>1. /\ pc = "quarantine" /\ pc \in Within /\ Removing /\ UNCHANGED <<mounts, state>>
    BY <1>7 DEF Quarantine, Within, Removing
  <2>2. cur \in todo /\ cur.target \in Targets /\ cur.method = "symlink" /\ OwnLink(cur) /\ Deepest(cur)
    BY <2>1, <1>c, <1>i DEF HandInv
  <2>3. CASE /\ quarantine' = Node(cur.target) /\ Enter("inspect", cur)
             /\ fs' = [fs EXCEPT ![Loc(cur.target)] = NoNode]
    <3>1. /\ UNCHANGED <<phase, previous, plan, todo, activated, outcome, cur>>
          /\ pc' = "inspect" /\ Removing'
      BY <2>3 DEF Enter, Go, Removing
    <3>2. LinksOnlyGo
      BY <2>3, <1>t DEF LinksOnlyGo, NoNode
    <3>3. quarantine'.type = "link" /\ quarantine'.to = cur.source
      BY <2>2, <2>3 DEF OwnLink
    <3>4. ASSUME NEW l \in Locs, l[2] = cur.target PROVE fs'[l].type # "link"
      <4>1. CASE l = Loc(cur.target)
        BY <2>3, <4>1, <1>t DEF NoNode
      <4>2. CASE l # Loc(cur.target)
        BY <2>3, <3>2, <3>4, <4>2, <1>i DEF UpperInv, LinksOnlyGo
      <4>3. QED BY <4>1, <4>2
    <3>5. Deepest(cur)'
      BY <2>2, <3>1 DEF Deepest
    <3>6. HandInv'
      BY <2>2, <3>1, <3>3, <3>4, <3>5 DEF HandInv
    <3>7. QED BY <2>1, <3>1, <3>2, <3>6, <1>s DEF Whole
  <2>4. CASE Fail(TRUE) /\ fs' = fs
    BY <2>1, <2>4, <1>a, <1>f, <1>n, FailKeeps
  <2>5. QED BY <1>7, <2>3, <2>4 DEF Quarantine
<1>8. CASE Inspect
  <2>1. pc = "inspect" /\ pc \in Within /\ Removing /\ UNCHANGED <<mounts, state>>
    BY <1>8 DEF Inspect, Within, Removing
  <2>2. /\ cur \in todo /\ cur.method = "symlink" /\ StillOurs
        /\ \A l \in Locs : l[2] = cur.target => fs[l].type # "link"
    BY <2>1, <1>c, <1>i DEF HandInv, StillOurs
  <2>3. fs' = fs /\ (Done("reconcile", cur) \/ Fail(TRUE))
    BY <1>8, <2>2 DEF Inspect
  <2>4. CASE Done("reconcile", cur)
    <3>1. cur.target \notin Up
      BY <2>1, <2>2, <1>o
    <3>2. QED BY <2>1, <2>2, <2>3, <2>4, <3>1, <1>n, RemovalMovesOn
  <2>5. CASE Fail(TRUE)
    BY <2>1, <2>3, <2>5, <1>a, <1>f, <1>n, FailKeeps
  <2>6. QED BY <2>3, <2>4, <2>5
<1>9. CASE EndReconcile
  <2>1. /\ pc = "reconcile" /\ Removing /\ todo = {}
        /\ UNCHANGED <<fs, mounts, state, phase, previous, plan, cur, activated, outcome>>
        /\ \/ phase = "switch" /\ pc' = "stores" /\ todo' = {}
           \/ phase = "restore" /\ pc' = "prepare" /\ todo' = previous
    BY <1>9 DEF EndReconcile, Removing, disk, Go
  <2>m. /\ Up' = Up /\ NestInv'
        /\ \A u : Loc(u)' = Loc(u)
        /\ \A x : MountOf(x)' <=> MountOf(x)
        /\ \A u : ShownBelow(u)' => ShownBelow(u)
    BY <2>1, <1>i, <1>n, MountsSame
  <2>2. ~Removing' /\ pc' \notin {"idle", "apply", "discard"} /\ Kept' = Kept /\ Holding = Kept
        /\ Kept \subseteq previous
    BY <2>1, <1>a DEF Removing, Kept
  <2>3. Kept \subseteq Holding'
    BY <2>1, <2>2 DEF Holding
  <2>4. UpperInv'
    <3>1. ASSUME NEW m \in mounts'
          PROVE  \E x \in Holding' : /\ x.method = "bind" /\ x.target = m.at
                                     /\ x.source = m.src /\ x.options = m.opts
      BY <2>1, <2>2, <2>3, <1>i DEF UpperInv
    <3>2. ASSUME NEW l \in Locs, fs'[l].type = "link"
          PROVE  /\ l = Loc(l[2])'
                 /\ \E x \in Holding' : x.method = "symlink" /\ x.target = l[2] /\ x.source = fs'[l].to
      BY <3>2, <2>1, <2>2, <2>3, <2>m, <1>i DEF UpperInv
    <3>3. QED BY <3>1, <3>2 DEF UpperInv
  <2>5. PlanInv'
    BY <2>1, <2>2, <1>i DEF PlanInv
  <2>6. HandInv'
    BY <2>1 DEF HandInv, Within
  <2>7. CASE phase = "switch"
    <3>1. ~Making'
      BY <2>1, <2>7 DEF Making
    <3>2. LowerInv'
      BY <2>1, <2>2, <2>7, <2>m, <3>1, <1>i DEF LowerInv
    <3>3. ClosedInv'
      BY <2>1, <2>2, <2>7 DEF ClosedInv
    <3>4. OrderInv'
      BY <2>1, <2>2, <2>7, <3>1, <1>i DEF OrderInv
    <3>5. QED BY <2>m, <2>4, <2>5, <2>6, <3>2, <3>3, <3>4 DEF Whole
  <2>8. CASE phase = "restore"
    <3>1. Making' /\ Working' = previous /\ todo' = previous
      BY <2>1, <2>8 DEF Making, Working
    <3>2. LowerInv'
      BY <2>1, <2>2, <2>8, <3>1 DEF LowerInv
    <3>3. ClosedInv'
      <4> SUFFICES ASSUME NEW e \in previous, e.method = "bind", e.target \notin Up,
                          ShownBelow(e.target)
                   PROVE  FALSE
        BY <2>1, <2>m DEF ClosedInv
      <4>1. e \notin Kept
        BY <2>1, <1>i DEF LowerInv, MountOf, Up
      <4>2. e \in RemovalOrder(previous, plan)
        BY <4>1 DEF Kept
      <4>3. PICK h \in Kept : <<h.target, e.target>> \in Below
        BY <2>1, <2>2, <1>i DEF ShownBelow, UpperInv
      <4>4. h \in RemovalOrder(previous, plan)
        <5>1. ValidPlan(plan)
          BY <2>1, <1>i DEF PlanInv
        <5>2. QED BY <4>2, <4>3, <5>1, <2>2, <1>t, Removals
      <4>5. QED BY <4>3, <4>4 DEF Kept
    <3>4. OrderInv'
      BY <2>1, <2>2, <2>8, <3>1 DEF OrderInv
    <3>5. QED BY <2>m, <2>4, <2>5, <2>6, <3>2, <3>3, <3>4 DEF Whole
  <2>9. QED BY <2>1, <2>7, <2>8
<1>10. QED
  BY <1>1, <1>2, <1>3, <1>4, <1>5, <1>6, <1>7, <1>8, <1>9 DEF Remove
----------------------------------------------------------------------------
(* Making projections.                                                      *)

\* Mounting at t, where nothing is mounted and nothing shown below.
LEMMA Mounting ==
  ASSUME TypeOK, TypeOK', NestInv, NEW t \in Targets, t \notin Up, ~ShownBelow(t),
         NEW n, n.at = t, n.under = Chain(t), mounts' = mounts \cup {n}, fs' = fs
  PROVE  /\ NestInv' /\ Up' = Up \cup {t}
         /\ \A u \in Targets : u # t => SameAt(u)
         /\ \A u \in Targets : <<u, t>> \notin Below => Loc(u)' = Loc(u)
<1>1. Up' = Up \cup {t}
  BY DEF Up
<1>2. NestInv'
  <2>0. t \notin Above(t) /\ Chain(t) = Up \cap Above(t)
    BY ConstantsOK, NestedWalks DEF Above, Geometry, Walks
  <2>1. ASSUME NEW m \in mounts' PROVE m.under = Up' \cap Above(m.at)
    <3>1. CASE m = n
      BY <3>1, <2>0, <1>1
    <3>2. CASE m \in mounts
      <4>1. m.under = Up \cap Above(m.at) /\ t \notin Above(m.at)
        BY <3>2 DEF NestInv, Above, ShownBelow
      <4>2. QED BY <4>1, <1>1
    <3>3. QED BY <3>1, <3>2
  <2>2. \A m, k \in mounts' : m.at = k.at => m = k
    BY DEF NestInv, Up
  <2>3. QED BY <2>1, <2>2 DEF NestInv, Above
<1>3. \A u \in Targets : u # t => SameAt(u)
  BY DEF SameAt
<1>4. ASSUME NEW u \in Targets, <<u, t>> \notin Below PROVE Loc(u)' = Loc(u)
  <2>1. \A v \in Above(u) : v \in Targets /\ v # t
    BY <1>4 DEF Above
  <2>2. \A v \in Above(u) : SameAt(v)
    BY <2>1, <1>3
  <2>3. QED BY <2>2, <1>2, Steady
<1>5. QED BY <1>1, <1>2, <1>3, <1>4

\* ensure_parent puts directories where nothing was.
LEMMA Parents ==
  ASSUME TypeOK, NEW t \in Targets
  PROVE  /\ WithParents(t) \in [Locs -> NodeType]
         /\ \A l \in Locs : \/ WithParents(t)[l] = fs[l]
                            \/ /\ WithParents(t)[l].type = "dir"
                               /\ \E u \in Above(t) : Node(u).type = "absent" /\ l = Loc(u)
<1>1. \A l \in Locs : fs[l] \in NodeType
  BY DEF TypeOK, DiskType
<1>2. QED BY <1>1, NodesTyped DEF WithParents, ParentDir

\* prepare makes only directories that are missing and the node to mount on.
LEMMA PrepareKeeps ==
  ASSUME TypeOK, TypeOK', Whole, NEW e \in todo, Prepare(e)
  PROVE  Whole'
<1> DEFINE makes == e.method = "bind" /\ Node(e.target).type = "absent"
           b == e.placeholder \/ makes
           f == [e EXCEPT !.placeholder = b]
<1>i. NestInv /\ UpperInv /\ LowerInv /\ ClosedInv /\ OrderInv /\ HandInv /\ PlanInv
  BY DEF Whole
<1>t. /\ fs \in [Locs -> NodeType] /\ mounts \subseteq MountType /\ todo \subseteq Entry
      /\ previous \subseteq Entry /\ plan \subseteq Entry /\ e \in Entry /\ e.target \in Targets
  BY DEF TypeOK, DiskType, MemoryType, Entry
<1>1. /\ pc = "prepare" /\ Topmost(e)
      /\ fs' = IF makes THEN [WithParents(e.target) EXCEPT ![Loc(e.target)] = Made(e.kind)]
               ELSE WithParents(e.target)
      /\ pc' = "activate" /\ cur' = f /\ todo' = Replace(todo, e, f)
      /\ phase = "switch" => plan' = Replace(plan, e, f) /\ UNCHANGED previous
      /\ phase # "switch" => previous' = Replace(previous, e, f) /\ UNCHANGED plan
      /\ UNCHANGED <<outcome, mounts, state, quarantine, strays, phase, activated>>
  <2>1. [e EXCEPT !.placeholder = @ \/ makes] = f
    OBVIOUS
  <2> HIDE DEF f, makes
  <2>2. QED BY <2>1 DEF Prepare, Go, f, makes
<1>b. b \in BOOLEAN
  BY <1>t DEF Entry
<1> HIDE DEF b
<1>r. /\ Making /\ Making' /\ ~Removing /\ ~Removing' /\ pc # "idle" /\ pc' # "idle"
      /\ pc' \notin {"apply", "discard", "stores", "write"}
      /\ pc \notin {"apply", "discard"}
  BY <1>1 DEF Making, Removing
<1>2. /\ f \in Entry /\ f.source = e.source /\ f.target = e.target /\ f.kind = e.kind
      /\ f.method = e.method /\ f.options = e.options
      /\ \A x : x \in todo' <=> x = f \/ (x \in todo /\ x # e)
  <2> HIDE DEF f
  <2>1. /\ f \in Entry /\ f.source = e.source /\ f.target = e.target /\ f.kind = e.kind
        /\ f.method = e.method /\ f.options = e.options
        /\ \A x : x \in Replace(todo, e, f) <=> x = f \/ (x \in todo /\ x # e)
    <3>1. /\ f \in Entry /\ f.source = e.source /\ f.target = e.target /\ f.kind = e.kind
          /\ f.method = e.method /\ f.options = e.options
      BY <1>t, <1>b DEF f, Entry
    <3>2. \A x : x \in Replace(todo, e, f) <=> x = f \/ (x \in todo /\ x # e)
      BY DEF Replace
    <3>3. QED BY <3>1, <3>2
  <2>2. QED BY <2>1, <1>1
<1>3. e \in Working /\ todo \subseteq Working /\ (\A x, y \in Working : x.target = y.target => x = y)
  BY <1>r, <1>i DEF OrderInv, PlanInv, ValidPlan, Working
<1>4. phase = "switch" =>
        /\ \A x : x \in plan' <=> x = f \/ (x \in plan /\ x # e)
        /\ previous' = previous /\ Bare(plan') = Bare(plan) /\ ValidPlan(plan')
        /\ Kept' = Kept
  <2> SUFFICES ASSUME phase = "switch"
               PROVE  /\ \A x : x \in plan' <=> x = f \/ (x \in plan /\ x # e)
                      /\ previous' = previous /\ Bare(plan') = Bare(plan) /\ ValidPlan(plan')
                      /\ Kept' = Kept
    OBVIOUS
  <2>1. e \in plan /\ ValidPlan(plan)
    BY <1>3, <1>r, <1>i DEF Working, PlanInv
  <2> HIDE DEF f
  <2>2. /\ \A x : x \in plan' <=> x = f \/ (x \in plan /\ x # e)
        /\ Bare(plan') = Bare(plan) /\ ValidPlan(plan')
        /\ \A old \in SUBSET Entry : RemovalOrder(old, plan') = RemovalOrder(old, plan)
    BY <2>1, <1>t, <1>1, <1>b, Flags DEF f
  <2>3. QED BY <2>2, <1>1, <1>t DEF Kept
<1>5. phase # "switch" =>
        /\ \A x : x \in previous' <=> x = f \/ (x \in previous /\ x # e)
        /\ plan' = plan /\ Bare(previous') = Bare(previous) /\ ValidPlan(previous')
  <2> SUFFICES ASSUME phase # "switch"
               PROVE  /\ \A x : x \in previous' <=> x = f \/ (x \in previous /\ x # e)
                      /\ plan' = plan /\ Bare(previous') = Bare(previous) /\ ValidPlan(previous')
    OBVIOUS
  <2>1. e \in previous /\ ValidPlan(previous)
    BY <1>3, <1>r, <1>i DEF Working, PlanInv
  <2> HIDE DEF f
  <2>2. QED BY <2>1, <1>t, <1>1, <1>b, Flags DEF f
<1> HIDE DEF f
<1>6. \A x : x \in Working' <=> x = f \/ (x \in Working /\ x # e)
  BY <1>1, <1>4, <1>5 DEF Working
<1>7. \A x : x \in Working' \ todo' => x \in Working \ todo
  BY <1>2, <1>6
\* What changes on disk.
<1>8. ASSUME NEW l \in Locs
      PROVE  \/ fs'[l] = fs[l]
             \/ /\ fs'[l].type = "dir"
                /\ \E u \in Above(e.target) : Node(u).type = "absent" /\ l = Loc(u)
             \/ /\ fs'[l].type \in Kinds /\ l = Loc(e.target) /\ Node(e.target).type = "absent"
  <2>1. /\ WithParents(e.target) \in [Locs -> NodeType]
        /\ \/ WithParents(e.target)[l] = fs[l]
           \/ /\ WithParents(e.target)[l].type = "dir"
              /\ \E u \in Above(e.target) : Node(u).type = "absent" /\ l = Loc(u)
    BY <1>t, Parents
  <2>2. Made(e.kind).type \in Kinds
    BY <1>t DEF Made, Entry
  <2>3. QED BY <2>1, <2>2, <1>1
<1>l. LinksOnlyGo
  BY <1>8 DEF LinksOnlyGo, Kinds
<1>m. /\ Up' = Up /\ NestInv'
      /\ \A t : Loc(t)' = Loc(t)
      /\ \A x : MountOf(x)' <=> MountOf(x)
      /\ \A t : ShownBelow(t)' => ShownBelow(t)
  BY <1>1, <1>i, <1>l, MountsSame
<1>9. UpperInv'
  <2>1. ASSUME NEW x \in Holding
        PROVE  \E y \in Holding' : /\ y.method = x.method /\ y.target = x.target
                                   /\ y.source = x.source /\ y.options = x.options
    <3>1. CASE phase = "switch"
      BY <3>1, <1>1, <1>4, <1>r DEF Holding
    <3>2. CASE phase # "switch"
      BY <3>2, <1>1, <1>2, <1>5, <1>r DEF Holding
    <3>3. QED BY <3>1, <3>2
  <2>2. ASSUME NEW m \in mounts'
        PROVE  \E x \in Holding' : /\ x.method = "bind" /\ x.target = m.at
                                   /\ x.source = m.src /\ x.options = m.opts
    <3>1. PICK x \in Holding : /\ x.method = "bind" /\ x.target = m.at
                               /\ x.source = m.src /\ x.options = m.opts
      BY <1>1, <1>i DEF UpperInv
    <3>2. QED BY <3>1, <2>1
  <2>3. ASSUME NEW l \in Locs, fs'[l].type = "link"
        PROVE  /\ l = Loc(l[2])'
               /\ \E x \in Holding' : x.method = "symlink" /\ x.target = l[2] /\ x.source = fs'[l].to
    <3>1. fs[l].type = "link" /\ fs'[l] = fs[l]
      BY <2>3, <1>l DEF LinksOnlyGo
    <3>2. PICK x \in Holding : x.method = "symlink" /\ x.target = l[2] /\ x.source = fs[l].to
      BY <3>1, <1>i DEF UpperInv
    <3>3. l = Loc(l[2])
      BY <3>1, <1>i DEF UpperInv
    <3>4. QED BY <3>1, <3>2, <3>3, <2>1, <1>m
  <2>4. QED BY <2>2, <2>3 DEF UpperInv
<1>10. LowerInv'
  <2>1. ASSUME NEW x \in Working \ todo PROVE Projected(x)'
    <3>1. Projected(x) /\ x \in Entry /\ x.target \in Targets /\ x # e
      BY <2>1, <1>r, <1>i, <1>t DEF LowerInv, Working, Entry
    <3>2. x.target # e.target /\ <<x.target, e.target>> \notin Below
      BY <2>1, <3>1, <1>3, <1>r, <1>i DEF OrderInv
    <3>3. \A u \in Targets : SameAt(u)
      BY <1>1 DEF SameAt
    <3>4. \A u, v \in Targets : Loc(u) \in Locs /\ (Loc(u) = Loc(v) => u = v)
      BY <1>t, NodesTyped DEF Loc
    <3>5. ASSUME x.method = "symlink" PROVE fs'[Loc(x.target)] = fs[Loc(x.target)]
      <4>1. Node(x.target).type = "link"
        BY <3>1, <3>5 DEF Projected, OwnLink
      <4>2. \A u \in Above(e.target) : Loc(x.target) = Loc(u) => Node(u).type # "absent"
        BY <4>1, <3>1, <3>4 DEF Above
      <4>3. Loc(x.target) # Loc(e.target)
        BY <3>1, <3>2, <3>4, <1>t
      <4>4. QED BY <4>2, <4>3, <3>1, <3>4, <1>8
    <3>6. ASSUME NEW u \in Above(x.target)
          PROVE  fs'[Loc(u)] = fs[Loc(u)] \/ fs'[Loc(u)].type \notin {"file", "link"}
      <4>1. u \in Targets /\ u # e.target
        BY <3>2 DEF Above
      <4>2. Loc(u) # Loc(e.target)
        BY <4>1, <3>4, <1>t
      <4>3. QED BY <4>1, <4>2, <3>4, <1>8
    <3>7. \A u \in Above(x.target) : SameAt(u)
      BY <3>3 DEF Above
    <3>8. QED BY <3>1, <3>3, <3>5, <3>6, <3>7, <1>1, <1>i, <1>m, StaysProjected
  <2>2. ASSUME NEW x \in Working' \ todo' PROVE Projected(x)'
    <3>1. x \in Working \ todo
      BY <1>7
    <3>2. QED BY <3>1, <2>1
  <2>3. phase = "switch" => \A x \in Kept' : x.method = "bind" => MountOf(x)'
    BY <1>4, <1>r, <1>m, <1>i DEF LowerInv
  <2>4. QED BY <2>2, <2>3, <1>r, <1>1 DEF LowerInv
<1>11. ClosedInv'
  <2> SUFFICES ASSUME phase # "switch", NEW x \in previous', x.method = "bind", x.target \notin Up
               PROVE  ~ShownBelow(x.target)'
    BY <1>1, <1>r, <1>m DEF ClosedInv
  <2>1. PICK y \in previous : y.target = x.target /\ y.method = x.method
    BY <1>2, <1>3, <1>5 DEF Working
  <2>2. ~ShownBelow(y.target)
    BY <2>1, <1>r, <1>i DEF ClosedInv
  <2>3. QED BY <2>1, <2>2, <1>m
<1>12. OrderInv'
  <2>1. todo' \subseteq Working'
    BY <1>2, <1>3, <1>6
  <2>2. \A y \in todo', x \in Working' \ todo' : <<x.target, y.target>> \notin Below
    BY <1>2, <1>7, <1>r, <1>i DEF OrderInv
  <2>3. phase = "switch" => activated' \subseteq plan' /\ activated' \cap todo' = {}
    <3> SUFFICES ASSUME phase = "switch", NEW a \in activated
                 PROVE  a \in plan' /\ a \notin todo'
      BY <1>1
    <3>1. a \in plan /\ a \notin todo
      BY <1>r, <1>i DEF OrderInv
    <3>2. a # f
      BY <3>1, <1>2, <1>3 DEF Working
    <3>3. QED BY <3>1, <3>2, <1>2, <1>4
  <2>4. \A a \in activated', o \in Kept' : phase' = "switch" /\ a.method = "bind" => a.target # o.target
    BY <1>1, <1>4, <1>r, <1>i DEF OrderInv
  <2>5. QED BY <2>1, <2>2, <2>3, <2>4, <1>1, <1>r DEF OrderInv
<1>13. HandInv'
  <2>1. \A g \in todo' : <<f.target, g.target>> \notin Below
    <3>1. <<e.target, e.target>> \notin Below
      BY <1>t, ConstantsOK
    <3>2. QED BY <3>1, <1>1, <1>2 DEF Topmost
  <2>2. Topmost(cur)'
    BY <2>1, <1>1 DEF Topmost
  <2>3. cur' \in todo'
    BY <1>1, <1>2
  <2>4. QED BY <2>2, <2>3, <1>1 DEF HandInv
<1>14. PlanInv'
  BY <1>1, <1>4, <1>5, <1>r, <1>i DEF PlanInv
<1> QED BY <1>9, <1>10, <1>11, <1>12, <1>13, <1>14, <1>m DEF Whole

\* bind and link put an entry in place where nothing is in place below it.
LEMMA ActivateKeeps ==
  ASSUME TypeOK, TypeOK', Whole, Activate
  PROVE  Whole'
<1>i. NestInv /\ UpperInv /\ LowerInv /\ ClosedInv /\ OrderInv /\ HandInv /\ PlanInv
  BY DEF Whole
<1>1. /\ pc = "activate" /\ pc \in Within /\ ~ActivateRefused(cur) /\ UNCHANGED <<state, quarantine>>
      /\ Making /\ ~Removing /\ pc # "idle" /\ NoFault
  BY DEF Activate, Within, Making, Removing
<1>c. PICK c \in todo : c = cur
  BY <1>1, <1>i DEF HandInv
<1>t. /\ fs \in [Locs -> NodeType] /\ mounts \subseteq MountType /\ todo \subseteq Entry
      /\ previous \subseteq Entry /\ plan \subseteq Entry
      /\ c \in Entry /\ c.target \in Targets /\ c.method \in Methods
  BY DEF TypeOK, DiskType, MemoryType, Entry
<1> DEFINE t == c.target
<1>w. \A u \in Targets : Walks(u)
  BY <1>i, NestedWalks DEF Geometry
<1>2. /\ Topmost(c) /\ todo \subseteq Working
      /\ \A x, y \in Working : x.target = y.target => x = y
      /\ \A x \in Working \ todo : <<x.target, t>> \notin Below /\ Projected(x) /\ x.target # t
                                   /\ x \in Entry /\ x.target \in Targets
      /\ c \in Working
  <2>1. Topmost(c) /\ todo \subseteq Working /\ \A x \in Working \ todo : <<x.target, t>> \notin Below /\ Projected(x)
    BY <1>c, <1>1, <1>i DEF HandInv, OrderInv, LowerInv
  <2>2. \A x, y \in Working : x.target = y.target => x = y
    BY <1>1, <1>i DEF PlanInv, ValidPlan, Working
  <2>3. \A x \in Working : x \in Entry /\ x.target \in Targets
    BY <1>t DEF Working, Entry
  <2>4. QED BY <2>1, <2>2, <2>3, <1>c
<1>3. /\ phase = "switch" => Working = plan /\ Holding = Kept \cup activated
      /\ phase # "switch" => Working = previous /\ Holding = previous
  BY <1>1 DEF Working, Holding
<1>4. phase = "switch" =>
        /\ \A o \in Kept : o.target = t => SameProjection(o, c)
        /\ \A o \in Kept : o.method = "bind" => MountOf(o)
        /\ activated \subseteq plan /\ activated \cap todo = {}
        /\ \A a \in activated : a.target # t
  <2>1. phase = "switch" => \A o \in Kept : o.target = t => SameProjection(o, c)
    BY <1>1, <1>2, <1>3, Held
  <2>2. QED BY <2>1, <1>1, <1>2, <1>3, <1>c, <1>i DEF LowerInv, OrderInv
\* What is there for c is all that c asks for.
<1>5. ASSUME NEW x \in Holding, x.target = t, x.method = c.method PROVE Alike(x, c)
  <2>1. CASE phase # "switch"
    BY <2>1, <1>2, <1>3, <1>5 DEF Alike
  <2>2. CASE phase = "switch"
    BY <2>2, <1>3, <1>4, <1>5 DEF Alike, SameProjection
  <2>3. QED BY <2>1, <2>2
<1>6. ASSUME AlreadyThere(cur), Done("prepare", cur), UNCHANGED <<fs, mounts>>
      PROVE  Whole'
  <2>1. Projected(c)
    <3>1. CASE c.method = "symlink"
      BY <3>1, <1>6, <1>c DEF AlreadyThere, Projected
    <3>2. CASE c.method = "bind"
      <4>1. PICK m \in MountAt(t) : m.src = c.source
        BY <3>2, <1>6, <1>c DEF AlreadyThere, MountedFrom
      <4>2. m \in mounts /\ m.at = t
        BY <4>1 DEF MountAt
      <4>3. PICK x \in Holding : x.method = "bind" /\ x.target = m.at /\ x.options = m.opts
        BY <4>2, <1>1, <1>i DEF UpperInv
      <4>4. Alike(x, c)
        BY <4>2, <4>3, <3>2, <1>5
      <4>5. m.opts = c.options
        BY <4>3, <4>4, <3>2 DEF Alike
      <4>6. QED BY <4>1, <4>5, <3>2 DEF Projected
    <3>3. QED BY <3>1, <3>2, <1>t DEF Methods
  <2>2. /\ UNCHANGED <<phase, previous, plan, activated, outcome>> /\ cur' = Nil /\ pc' = "prepare"
        /\ todo' = {f \in todo : f.target # cur.target}
    BY <1>6 DEF Done, Go
  <2>m. /\ Up' = Up /\ NestInv'
        /\ \A u : Loc(u)' = Loc(u)
        /\ \A x : MountOf(x)' <=> MountOf(x)
        /\ \A u : ShownBelow(u)' => ShownBelow(u)
        /\ \A x : Projected(x)' <=> Projected(x)
    <3>1. LinksOnlyGo
      BY <1>6 DEF LinksOnlyGo
    <3>2. QED BY <3>1, <1>6, <1>i, MountsSame
  <2>3. LowerInv' /\ OrderInv' /\ HandInv' /\ PlanInv'
    <3>1. \A x \in Working \ todo : Projected(x)'
      BY <2>m, <1>2
    <3>2. phase = "switch" => cur \notin activated
      BY <1>4, <1>c
    <3>3. \A x : MountOf(x) => MountOf(x)'
      BY <2>m
    <3>4. Projected(c)'
      BY <2>1, <2>m
    <3>5. QED BY <3>1, <3>2, <3>3, <3>4, <2>2, <1>1, <1>c, ProjectionMovesOn
  <2>4. ~Removing' /\ pc' # "idle" /\ Holding' = Holding
    BY <2>2, <1>1 DEF Removing, Holding, Kept
  <2>5. UpperInv'
    <3>1. ASSUME NEW m \in mounts'
          PROVE  \E x \in Holding' : /\ x.method = "bind" /\ x.target = m.at
                                     /\ x.source = m.src /\ x.options = m.opts
      BY <1>1, <1>6, <2>4, <1>i DEF UpperInv
    <3>2. ASSUME NEW l \in Locs, fs'[l].type = "link"
          PROVE  /\ l = Loc(l[2])'
                 /\ \E x \in Holding' : x.method = "symlink" /\ x.target = l[2] /\ x.source = fs'[l].to
      BY <3>2, <1>6, <2>4, <2>m, <1>i DEF UpperInv
    <3>3. QED BY <3>1, <3>2 DEF UpperInv
  <2>6. ClosedInv'
    BY <1>1, <2>2, <2>4, <2>m, <1>i DEF ClosedInv
  <2>7. QED BY <2>m, <2>3, <2>5, <2>6 DEF Whole
\* Nobody below c is to be mounted again while c is made.
<1>7. ASSUME phase # "switch", NEW y \in previous, y.method = "bind", y.target \notin Up
      PROVE  <<t, y.target>> \notin Below
  <2>1. CASE y \in todo
    BY <2>1, <1>2 DEF Topmost
  <2>2. CASE y \notin todo
    <3>1. Projected(y)
      BY <2>2, <1>7, <1>2, <1>3
    <3>2. QED BY <3>1, <1>7 DEF Projected, MountAt, Up
  <2>3. QED BY <2>1, <2>2
<1>8. ASSUME ~AlreadyThere(cur), c.method = "bind", mounts' = mounts \cup {NewMount(cur)},
             Enter("apply", cur), UNCHANGED fs
      PROVE  Whole'
  <2>1. t \notin Up
    BY <1>8, <1>1, <1>c, <1>t, <1>w DEF ActivateRefused, AlreadyThere, Walks
  <2>2. phase = "switch" => \A o \in Kept : o.target # t
    BY <1>4, <2>1, <1>8 DEF SameProjection, MountOf, Up
  <2>3. ~ShownBelow(t)
    <3>1. CASE phase = "switch"
      BY <3>1, <2>2, <1>1, <1>c, <1>8, Held
    <3>2. CASE phase # "switch"
      BY <3>2, <2>1, <1>1, <1>2, <1>3, <1>8, <1>i DEF ClosedInv
    <3>3. QED BY <3>1, <3>2
  <2> DEFINE n == NewMount(cur)
  <2>4. n.at = t /\ n.under = Chain(t) /\ n.src = c.source
    BY <1>c DEF NewMount
  <2> HIDE DEF n
  <2>5. /\ NestInv' /\ Up' = Up \cup {t}
        /\ \A u \in Targets : u # t => SameAt(u)
        /\ \A u \in Targets : <<u, t>> \notin Below => Loc(u)' = Loc(u)
    BY <2>1, <2>3, <2>4, <1>8, <1>i, <1>t, Mounting DEF n
  <2>6. /\ UNCHANGED <<phase, previous, plan, todo, activated, outcome, cur>> /\ pc' = "apply"
        /\ mounts' = mounts \cup {n}
    BY <1>8 DEF Enter, Go, n
  <2>7. ~Removing' /\ Making' /\ pc' # "idle" /\ Holding' = Holding /\ Working' = Working /\ Kept' = Kept
    BY <2>6, <1>1 DEF Removing, Making, Holding, Working, Kept
  <2>8. UpperInv'
    <3>1. ASSUME NEW m \in mounts'
          PROVE  \/ \E x \in Holding' : /\ x.method = "bind" /\ x.target = m.at
                                        /\ x.source = m.src /\ x.options = m.opts
                 \/ m.at = cur'.target /\ m.src = cur'.source
      <4>1. CASE m = n
        BY <4>1, <2>4, <2>6, <1>c
      <4>2. CASE m \in mounts
        BY <4>2, <2>7, <1>1, <1>i DEF UpperInv
      <4>3. QED BY <4>1, <4>2, <2>6
    <3>2. ASSUME NEW l \in Locs, fs'[l].type = "link"
          PROVE  /\ l = Loc(l[2])'
                 /\ \E x \in Holding' : x.method = "symlink" /\ x.target = l[2] /\ x.source = fs'[l].to
      <4>1. fs[l].type = "link" /\ fs'[l] = fs[l] /\ l[2] \in Targets
        BY <3>2, <1>8 DEF Locs
      <4>2. <<l[2], t>> \notin Below
        BY <4>1, <2>3 DEF ShownBelow
      <4>3. QED BY <4>1, <4>2, <2>5, <2>7, <1>i DEF UpperInv
    <3>3. QED BY <3>1, <3>2, <2>6 DEF UpperInv
  <2>9. LowerInv'
    <3>1. ASSUME NEW x \in Working \ todo PROVE Projected(x)'
      <4>1. x.target # t /\ <<x.target, t>> \notin Below /\ Projected(x) /\ x \in Entry
            /\ x.target \in Targets
        BY <1>2
      <4>2. \A u \in Above(x.target) : u \in Targets /\ u # t
        BY <4>1 DEF Above
      <4>3. \A m \in mounts : m \in mounts'
        BY <2>6
      <4>4. QED BY <4>1, <4>2, <4>3, <2>5, <1>8, <1>i, StaysProjected
    <3>2. \A x : MountOf(x) => MountOf(x)'
      BY <2>6 DEF MountOf
    <3>3. phase = "switch" => \A x \in Kept' : x.method = "bind" => MountOf(x)'
      BY <3>2, <2>7, <1>4
    <3>4. QED BY <3>1, <3>3, <2>6, <2>7 DEF LowerInv
  <2>10. ClosedInv'
    <3> SUFFICES ASSUME phase # "switch", NEW y \in previous, y.method = "bind", y.target \notin Up'
                 PROVE  ~ShownBelow(y.target)'
      BY <2>6, <2>7 DEF ClosedInv
    <3>1. y.target \notin Up /\ ~ShownBelow(y.target)
      BY <2>5, <1>1, <1>i DEF ClosedInv
    <3>2. <<t, y.target>> \notin Below
      BY <3>1, <1>7
    <3>3. \A m \in mounts' : <<m.at, y.target>> \notin Below
      BY <3>1, <3>2, <2>4, <2>6 DEF ShownBelow
    <3>4. \A l \in Locs : fs'[l].type = "link" => <<l[2], y.target>> \notin Below
      BY <3>1, <1>8 DEF ShownBelow
    <3>5. QED BY <3>3, <3>4 DEF ShownBelow
  <2>11. OrderInv'
    BY <2>6, <2>7, <1>1, <1>i DEF OrderInv
  <2>12. HandInv'
    <3>1. Topmost(cur)'
      BY <2>6, <1>2, <1>c DEF Topmost
    <3>2. MountOf(cur)'
      BY <2>4, <2>6, <1>c DEF MountOf
    <3>3. phase = "switch" => \A o \in Kept' \cup activated' : cur'.target # o.target
      BY <2>2, <2>6, <2>7, <1>4, <1>c
    <3>4. QED BY <3>1, <3>2, <3>3, <2>6, <1>8, <1>c DEF HandInv
  <2>13. PlanInv'
    BY <2>6, <1>1, <1>i DEF PlanInv
  <2>14. QED BY <2>5, <2>8, <2>9, <2>10, <2>11, <2>12, <2>13 DEF Whole
<1>9. ASSUME ~AlreadyThere(cur), c.method = "symlink",
             fs' = [fs EXCEPT ![Loc(cur.target)] = LinkTo(cur.source)],
             Activated, UNCHANGED mounts
      PROVE  Whole'
  <2>1. /\ UNCHANGED <<phase, previous, plan, outcome>> /\ cur' = Nil /\ pc' = "prepare"
        /\ todo' = {f \in todo : f.target # cur.target} /\ activated' = activated \cup {c}
    BY <1>9, <1>c DEF Activated, Go
  <2>2. ~WalkFails(t) /\ Node(t).type = "absent"
    BY <1>9, <1>1, <1>c DEF ActivateRefused, AlreadyThere
  <2>m. /\ Up' = Up /\ NestInv'
        /\ \A u : Loc(u)' = Loc(u)
        /\ \A x : MountOf(x)' <=> MountOf(x)
    BY <1>9, <1>i, MountsSame
  <2>3. t \notin Up
    <3> SUFFICES ASSUME t \in Up PROVE FALSE
      OBVIOUS
    <3>1. PICK m \in mounts : m.at = t
      BY DEF Up
    <3>2. Node(t) = Made(m.kind) /\ m.kind \in Kinds
      BY <3>1, <1>t, <1>w DEF Walks, MountType
    <3>3. QED BY <3>2, <2>2 DEF Made, Kinds
  <2>l. \A u, v \in Targets : Loc(u) \in Locs /\ (Loc(u) = Loc(v) => u = v)
    BY <1>t, NodesTyped DEF Loc
  <2>4. /\ fs'[Loc(t)] = LinkTo(c.source)
        /\ \A l \in Locs : l # Loc(t) => fs'[l] = fs[l]
        /\ \A u \in Targets : u # t => fs'[Loc(u)] = fs[Loc(u)]
    BY <1>9, <1>c, <1>t, <2>l
  <2>5. \A x \in Working \ todo : Projected(x)'
    <3> SUFFICES ASSUME NEW x \in Working \ todo PROVE Projected(x)'
      OBVIOUS
    <3>1. x.target # t /\ <<x.target, t>> \notin Below /\ Projected(x) /\ x \in Entry
          /\ x.target \in Targets
      BY <1>2
    <3>2. \A u \in Above(x.target) : u \in Targets /\ u # t
      BY <3>1 DEF Above
    <3>3. \A u : SameAt(u)
      BY <1>9 DEF SameAt
    <3>4. /\ fs'[Loc(x.target)] = fs[Loc(x.target)]
          /\ \A u \in Above(x.target) : fs'[Loc(u)] = fs[Loc(u)]
      BY <3>1, <3>2, <2>4
    <3>5. QED BY <3>1, <3>3, <3>4, <1>9, <1>i, <2>m, StaysProjected
  <2>6. Projected(c)'
    <3>1. Node(t)' = LinkTo(c.source)
      <4>1. (t \notin Up => Node(t) = fs[Loc(t)])'
        <5>1. Geometry'
          BY <2>m, NestedWalks, PTL
        <5>2. QED BY <5>1, <1>t DEF Geometry, Walks
      <4>2. QED BY <4>1, <2>3, <2>4, <2>m
    <3>2. ASSUME NEW u \in Above(t) PROVE Node(u)' = Node(u)
      <4>1. u \in Targets /\ u # t
        BY <1>t, ConstantsOK DEF Above
      <4>2. fs'[Loc(u)'] = fs[Loc(u)]
        BY <4>1, <2>4, <2>m
      <4>3. MountAt(u)' = MountAt(u)
        BY <1>9, MountsSame
      <4>4. QED BY <4>2, <4>3 DEF Node, Made
    <3>3. ~WalkFails(t)'
      BY <3>2, <2>2 DEF WalkFails, Above
    <3>4. OwnLink(c)'
      BY <3>1, <3>3 DEF OwnLink, LinkTo
    <3>5. QED BY <3>4, <1>9 DEF Projected
  <2>7. LowerInv' /\ OrderInv' /\ HandInv' /\ PlanInv'
    <3>1. \A x : MountOf(x) => MountOf(x)'
      BY <2>m
    <3>2. QED BY <3>1, <2>1, <2>5, <2>6, <1>1, <1>9, <1>c, ProjectionMovesOn
  <2>8. ~Removing' /\ pc' # "idle" /\ Holding \subseteq Holding' /\ c \in Holding'
    BY <2>1, <1>1, <1>2, <1>3 DEF Removing, Holding, Kept
  <2>9. UpperInv'
    <3>1. ASSUME NEW m \in mounts'
          PROVE  \E x \in Holding' : /\ x.method = "bind" /\ x.target = m.at
                                     /\ x.source = m.src /\ x.options = m.opts
      BY <1>1, <1>9, <2>8, <1>i DEF UpperInv
    <3>2. ASSUME NEW l \in Locs, fs'[l].type = "link"
          PROVE  /\ l = Loc(l[2])'
                 /\ \E x \in Holding' : x.method = "symlink" /\ x.target = l[2] /\ x.source = fs'[l].to
      <4>1. CASE l = Loc(t)
        <5>1. l[2] = t /\ fs'[l].to = c.source
          BY <4>1, <2>4 DEF Loc, LinkTo
        <5>2. QED BY <4>1, <5>1, <2>8, <2>m, <1>9
      <4>2. CASE l # Loc(t)
        BY <4>2, <3>2, <2>4, <2>8, <2>m, <1>i DEF UpperInv
      <4>3. QED BY <4>1, <4>2
    <3>3. QED BY <3>1, <3>2 DEF UpperInv
  <2>10. ClosedInv'
    <3> SUFFICES ASSUME phase # "switch", NEW y \in previous, y.method = "bind", y.target \notin Up
                 PROVE  ~ShownBelow(y.target)'
      BY <2>1, <2>8, <2>m DEF ClosedInv
    <3>1. ~ShownBelow(y.target)
      BY <1>1, <1>i DEF ClosedInv
    <3>2. <<t, y.target>> \notin Below
      BY <1>7
    <3>3. \A m \in mounts' : <<m.at, y.target>> \notin Below
      BY <3>1, <1>9 DEF ShownBelow
    <3>4. \A l \in Locs : fs'[l].type = "link" => <<l[2], y.target>> \notin Below
      <4> SUFFICES ASSUME NEW l \in Locs, fs'[l].type = "link" PROVE <<l[2], y.target>> \notin Below
        OBVIOUS
      <4>1. CASE l = Loc(t)
        BY <4>1, <3>2 DEF Loc
      <4>2. CASE l # Loc(t)
        BY <4>2, <3>1, <2>4 DEF ShownBelow
      <4>3. QED BY <4>1, <4>2
    <3>5. QED BY <3>3, <3>4 DEF ShownBelow
  <2>11. QED BY <2>m, <2>7, <2>9, <2>10 DEF Whole
<1>10. QED
  BY <1>6, <1>8, <1>9, <1>c DEF Activate

\* An entry whose options are set is in place.
LEMMA ApplyKeeps ==
  ASSUME TypeOK, TypeOK', Whole, Apply
  PROVE  Whole'
<1>i. NestInv /\ UpperInv /\ LowerInv /\ ClosedInv /\ OrderInv /\ HandInv /\ PlanInv
  BY DEF Whole
<1>1. /\ pc = "apply" /\ pc \in Within /\ UNCHANGED <<fs, state, quarantine>>
      /\ Making /\ ~Removing /\ pc # "idle" /\ MountedFrom(cur.target, cur.source)
      /\ mounts' = {IF m \in MountAt(cur.target) THEN [m EXCEPT !.opts = cur.options] ELSE m
                      : m \in mounts}
      /\ Activated
  BY DEF Apply, Within, Making, Removing
<1>c. PICK c \in todo : c = cur
  BY <1>1, <1>i DEF HandInv
<1>t. /\ mounts \subseteq MountType /\ todo \subseteq Entry
      /\ previous \subseteq Entry /\ plan \subseteq Entry
      /\ c \in Entry /\ c.target \in Targets
  BY DEF TypeOK, DiskType, MemoryType, Entry
<1> DEFINE t == c.target
           New(m) == IF m.at = t THEN [m EXCEPT !.opts = c.options] ELSE m
<1>w. /\ MountAt(t) = {m \in mounts : m.at = t}
      /\ \A m, n \in mounts : m.at = n.at => m = n
  BY <1>i, <1>t, NestedWalks DEF Geometry, Walks, NestInv
<1>2. /\ UNCHANGED <<phase, previous, plan, outcome>> /\ cur' = Nil /\ pc' = "prepare"
      /\ todo' = {f \in todo : f.target # cur.target} /\ activated' = activated \cup {c}
  BY <1>1, <1>c DEF Activated, Go
<1>3. mounts' = {New(m) : m \in mounts}
  BY <1>1, <1>c, <1>w
<1>4. \A m \in mounts : /\ New(m).at = m.at /\ New(m).under = m.under /\ New(m).src = m.src
                        /\ New(m).kind = m.kind /\ (m.at = t => New(m).opts = c.options)
                        /\ (m.at # t => New(m) = m)
  BY <1>t DEF MountType
<1> HIDE DEF New
<1>5. Up' = Up
  <2>1. \A u : (\E m \in mounts' : m.at = u) <=> (\E m \in mounts : m.at = u)
    BY <1>3, <1>4
  <2>2. QED BY <2>1 DEF Up
<1>6. NestInv'
  <2>1. ASSUME NEW m \in mounts' PROVE m.under = Up' \cap Above(m.at)
    BY <1>3, <1>4, <1>5, <1>i DEF NestInv
  <2>2. ASSUME NEW m \in mounts', NEW n \in mounts', m.at = n.at PROVE m = n
    BY <2>2, <1>3, <1>4, <1>w
  <2>3. QED BY <2>1, <2>2 DEF NestInv, Above
<1>7. \A u : SameAt(u)
  BY <1>3, <1>4 DEF SameAt
<1>8. \A u \in Targets : Loc(u)' = Loc(u)
  BY <1>6, <1>7, <1>i, Steady
<1>9. \A x : MountOf(x) => MountOf(x)'
  BY <1>3, <1>4 DEF MountOf
<1>10. \A x \in Working \ todo : Projected(x)'
  <2> SUFFICES ASSUME NEW x \in Working \ todo PROVE Projected(x)'
    OBVIOUS
  <2>1. Projected(x) /\ x \in Entry /\ x # c
    BY <1>1, <1>t, <1>i DEF LowerInv, Working
  <2>2. x.target # t
    BY <2>1, <1>1, <1>i DEF OrderInv, PlanInv, ValidPlan, Working
  <2>3. \A m \in mounts : m.at = x.target => m \in mounts'
    BY <2>2, <1>3, <1>4
  <2>4. QED BY <2>1, <2>3, <1>1, <1>6, <1>7, <1>i, StaysProjected
<1>11. Projected(c)'
  <2>1. PICK m \in mounts : m.at = t /\ m.src = c.source
    BY <1>1, <1>c, <1>w DEF MountedFrom
  <2>2. New(m) \in mounts' /\ New(m).at = t /\ New(m).src = c.source /\ New(m).opts = c.options
    BY <2>1, <1>3, <1>4
  <2>3. (MountAt(t) = {n \in mounts : n.at = t})'
    <3>1. Geometry'
      BY <1>6, NestedWalks, PTL
    <3>2. QED BY <3>1, <1>t DEF Geometry, Walks
  <2>4. c.method = "bind"
    BY <1>1, <1>c, <1>i DEF HandInv
  <2>5. QED BY <2>2, <2>3, <2>4 DEF Projected
<1>12. LowerInv' /\ OrderInv' /\ HandInv' /\ PlanInv'
  <2>1. phase = "switch" => \A o \in Kept : cur.target # o.target
    BY <1>1, <1>i DEF HandInv
  <2>2. QED BY <2>1, <1>1, <1>2, <1>9, <1>10, <1>11, <1>c, ProjectionMovesOn
<1>13. ~Removing' /\ pc' \notin {"idle", "apply", "discard"} /\ Holding \subseteq Holding' /\ c \in Holding'
  BY <1>1, <1>2, <1>i DEF Removing, Holding, Kept, OrderInv, Working
<1>14. UpperInv'
  <2>1. ASSUME NEW m \in mounts'
        PROVE  \E x \in Holding' : /\ x.method = "bind" /\ x.target = m.at
                                   /\ x.source = m.src /\ x.options = m.opts
    <3>1. PICK n \in mounts : m = New(n)
      BY <1>3
    <3>2. CASE n.at = t
      <4>1. n.src = c.source
        BY <3>2, <1>1, <1>c, <1>w DEF MountedFrom
      <4>2. c.method = "bind"
        BY <1>1, <1>c, <1>i DEF HandInv
      <4>3. QED BY <3>1, <3>2, <4>1, <4>2, <1>4, <1>13
    <3>3. CASE n.at # t
      BY <3>1, <3>3, <1>c, <1>4, <1>13, <1>i DEF UpperInv
    <3>4. QED BY <3>2, <3>3
  <2>2. ASSUME NEW l \in Locs, fs'[l].type = "link"
        PROVE  /\ l = Loc(l[2])'
               /\ \E x \in Holding' : x.method = "symlink" /\ x.target = l[2] /\ x.source = fs'[l].to
    <3>1. l[2] \in Targets /\ fs'[l] = fs[l]
      BY <1>1 DEF Locs
    <3>2. QED BY <3>1, <2>2, <1>8, <1>13, <1>i DEF UpperInv
  <2>3. QED BY <2>1, <2>2 DEF UpperInv
<1>15. ClosedInv'
  <2>1. \A u : ShownBelow(u)' => ShownBelow(u)
    BY <1>1, <1>3, <1>4 DEF ShownBelow
  <2>2. QED BY <2>1, <1>1, <1>2, <1>5, <1>13, <1>i DEF ClosedInv
<1>16. QED BY <1>6, <1>12, <1>14, <1>15 DEF Whole
----------------------------------------------------------------------------
(* Whole runs.                                                              *)

\* Entries that differ in their flags only.
LEMMA BareMeans ==
  ASSUME NEW A \in SUBSET Entry, NEW B \in SUBSET Entry, Bare(A) = Bare(B), NEW a \in A
  PROVE  \E b \in B : /\ b.source = a.source /\ b.target = a.target /\ b.kind = a.kind
                      /\ b.method = a.method /\ b.options = a.options
<1> DEFINE bare(e) == [e EXCEPT !.placeholder = FALSE]
<1>1. \A e \in Entry : /\ bare(e).source = e.source /\ bare(e).target = e.target
                      /\ bare(e).kind = e.kind /\ bare(e).method = e.method
                      /\ bare(e).options = e.options
  BY DEF Entry
<1>2. Bare(A) = {bare(e) : e \in A} /\ Bare(B) = {bare(e) : e \in B}
  BY DEF Bare
<1> HIDE DEF bare
<1>3. bare(a) \in {bare(e) : e \in A}
  OBVIOUS
<1>4. bare(a) \in {bare(e) : e \in B}
  BY <1>2, <1>3
<1>5. PICK b \in B : bare(a) = bare(b)
  BY <1>4
<1>6. a \in Entry /\ b \in Entry
  OBVIOUS
<1>7. QED BY <1>1, <1>5, <1>6

\* project, step by step: the entries behind the loop are in place.  Only a bind that fails
\* after its mount while the recorded plan is restored is beyond order, and that run is lost.
LEMMA ProjectKeeps ==
  ASSUME TypeOK, TypeOK', Whole, ~Hopeless, Project, outcome'.how # "lost"
  PROVE  Whole' \/ (Hopeless' /\ UNCHANGED outcome)
<1>i. NestInv /\ UpperInv /\ LowerInv /\ ClosedInv /\ OrderInv /\ HandInv /\ PlanInv
  BY DEF Whole
<1>t. /\ fs \in [Locs -> NodeType] /\ mounts \subseteq MountType /\ todo \subseteq Entry
      /\ previous \subseteq Entry /\ plan \subseteq Entry /\ state \subseteq Entry
  BY DEF TypeOK, DiskType, MemoryType
<1>f. ~Removing /\ Fail(FALSE) => Fail(Removing)
  BY DEF Fail
<1>n. fs' = fs => LinksOnlyGo
  BY DEF LinksOnlyGo
\* Steps that change nothing but the place in the loops.
<1>s. ASSUME ~Removing, ~Removing', pc # "idle", pc' # "idle", cur' = cur \/ pc \notin {"apply", "discard"},
             pc \in {"apply", "discard"} => pc' \in {"apply", "discard"},
             UNCHANGED <<fs, mounts, state, phase, previous, plan, activated, outcome>>
      PROVE  NestInv' /\ UpperInv' /\ ClosedInv' /\ PlanInv' /\ Kept' = Kept /\ Working' = Working
             /\ (\A x : Projected(x)' <=> Projected(x)) /\ (\A x : MountOf(x)' <=> MountOf(x))
  <2>m. /\ Up' = Up /\ NestInv'
        /\ \A t : Loc(t)' = Loc(t)
        /\ \A x : MountOf(x)' <=> MountOf(x)
        /\ \A t : ShownBelow(t)' => ShownBelow(t)
        /\ \A x : Projected(x)' <=> Projected(x)
    BY <1>s, <1>i, <1>n, MountsSame
  <2>k. Kept' = Kept /\ Holding' = Holding /\ Working' = Working
    BY <1>s DEF Kept, Holding, Working
  <2>1. UpperInv'
    <3>1. ASSUME NEW m \in mounts'
          PROVE  \/ \E x \in Holding' : /\ x.method = "bind" /\ x.target = m.at
                                        /\ x.source = m.src /\ x.options = m.opts
                 \/ pc' \in {"apply", "discard"} /\ m.at = cur'.target /\ m.src = cur'.source
      BY <1>s, <1>i, <2>k DEF UpperInv
    <3>2. ASSUME NEW l \in Locs, fs'[l].type = "link"
          PROVE  /\ l = Loc(l[2])'
                 /\ \E x \in Holding' : x.method = "symlink" /\ x.target = l[2] /\ x.source = fs'[l].to
      BY <3>2, <1>s, <1>i, <2>k, <2>m DEF UpperInv
    <3>3. QED BY <3>1, <3>2 DEF UpperInv
  <2>2. ClosedInv'
    BY <1>s, <1>i, <2>m DEF ClosedInv
  <2>3. PlanInv'
    BY <1>s, <1>i DEF PlanInv
  <2>4. QED BY <2>m, <2>k, <2>1, <2>2, <2>3
<1>1. CASE CheckStores
  <2>1. pc = "stores" /\ ~Removing /\ UNCHANGED <<fs, mounts, state>> /\ phase = "switch" /\ activated = {}
    BY <1>1, <1>i DEF CheckStores, disk, Removing, OrderInv
  <2>2. CASE /\ pc' = "prepare" /\ todo' = plan
             /\ UNCHANGED <<phase, previous, plan, cur, activated, outcome>>
    <3>1. ~Removing' /\ Making' /\ pc' # "idle" /\ ~Making
      BY <2>1, <2>2 DEF Removing, Making
    <3>2. NestInv' /\ UpperInv' /\ ClosedInv' /\ PlanInv' /\ Kept' = Kept /\ Working' = plan
          /\ (\A x : MountOf(x)' <=> MountOf(x))
      BY <1>s, <2>1, <2>2, <3>1 DEF Working
    <3>3. LowerInv'
      BY <2>1, <2>2, <3>1, <3>2, <1>i DEF LowerInv
    <3>4. OrderInv'
      BY <2>1, <2>2, <3>1, <3>2 DEF OrderInv
    <3>5. HandInv'
      BY <2>2 DEF HandInv, Within
    <3>6. QED BY <3>2, <3>3, <3>4, <3>5 DEF Whole
  <2>3. CASE Fail(FALSE)
    BY <2>1, <2>3, <1>f, <1>n, FailKeeps
  <2>4. QED BY <1>1, <2>2, <2>3 DEF CheckStores, Go
<1>2. ASSUME NEW e \in todo, PrepareFails(e) PROVE Whole'
  <2>1. pc = "prepare" /\ ~Removing /\ Making /\ Fail(FALSE) /\ UNCHANGED <<mounts, state>>
    BY <1>2 DEF PrepareFails, Removing, Making
  <2>2. LinksOnlyGo
    <3>1. fs' \in {fs, WithParents(e.target)} /\ e.target \in Targets
      BY <1>2, <1>t DEF PrepareFails, Entry
    <3>2. \A l \in Locs : fs'[l] = fs[l] \/ fs'[l].type = "dir"
      BY <3>1, Parents
    <3>3. QED BY <3>2 DEF LinksOnlyGo
  <2>3. QED BY <2>1, <2>2, <1>f, FailKeeps
<1>3. CASE ActivateFails
  <2>1. pc = "activate" /\ ~Removing /\ Making /\ Fail(FALSE) /\ UNCHANGED <<fs, mounts, state>>
    BY <1>3 DEF ActivateFails, Removing, Making, disk
  <2>2. QED BY <2>1, <1>f, <1>n, FailKeeps
<1>4. CASE ApplyFails
  <2>1. /\ pc = "apply" /\ pc \in Within /\ ~Removing /\ Making /\ pc' = "discard" /\ cur' = cur
        /\ UNCHANGED <<fs, mounts, state, phase, previous, plan, todo, activated, outcome>>
    BY <1>4 DEF ApplyFails, Removing, Making, disk, Enter, Go, Within
  <2>2. /\ cur \in todo /\ cur \in Entry /\ cur.target \in Targets /\ MountOf(cur)
        /\ cur.method = "bind" /\ Topmost(cur)
    BY <2>1, <1>t, <1>i DEF HandInv, Entry
  <2>3. MountedFrom(cur.target, cur.source)
    BY <2>2, <1>i, NestedWalks DEF Geometry, Walks, MountOf, MountedFrom
  <2>4. "apply" \in FaultKinds /\ spent'.faults >= 1
    <3>1. Fault("apply")
      BY <1>4, <2>3 DEF ApplyFails
    <3>2. spent.faults \in Nat /\ spent'.faults = spent.faults + 1
      BY <3>1 DEF Fault, TypeOK, ControlType
    <3>3. QED BY <3>1, <3>2 DEF Fault
  <2>5. CASE phase # "switch"
    <3>1. Hopeless' /\ UNCHANGED outcome
      BY <2>1, <2>5 DEF Hopeless
    <3>2. QED BY <3>1
  <2>6. CASE phase = "switch"
    <3>1. ~Removing' /\ Making'
      BY <2>1 DEF Removing, Making
    <3>2. /\ NestInv' /\ UpperInv' /\ ClosedInv' /\ PlanInv' /\ Kept' = Kept /\ Working' = Working
          /\ (\A x : Projected(x)' <=> Projected(x)) /\ (\A x : MountOf(x)' <=> MountOf(x))
      BY <1>s, <2>1, <3>1
    <3>3. LowerInv'
      BY <2>1, <3>1, <3>2, <1>i DEF LowerInv
    <3>4. OrderInv'
      BY <2>1, <3>1, <3>2, <1>i DEF OrderInv
    <3>5. MountOf(cur)' /\ Topmost(cur)'
      BY <2>1, <2>2 DEF Topmost, MountOf
    <3>6. \A o \in Kept' \cup activated' : cur'.target # o.target
      BY <2>1, <2>6, <3>2, <1>i DEF HandInv
    <3>7. HandInv'
      BY <2>1, <2>2, <2>4, <3>5, <3>6 DEF HandInv
    <3>8. QED BY <3>2, <3>3, <3>4, <3>7 DEF Whole
  <2>7. QED BY <2>5, <2>6
<1>5. CASE EndProject
  <2>1. /\ pc = "prepare" /\ todo = {} /\ ~Removing /\ Making /\ UNCHANGED <<fs, mounts, state>>
    BY <1>5 DEF EndProject, disk, Removing, Making
  <2>2. CASE phase = "switch" /\ Go("write") /\ UNCHANGED memory
    <3>1. /\ pc' = "write" /\ UNCHANGED <<phase, previous, plan, todo, cur, activated, outcome>>
          /\ ~Removing' /\ Making'
      BY <2>2 DEF Go, memory, Removing, Making
    <3>2. /\ NestInv' /\ UpperInv' /\ ClosedInv' /\ PlanInv' /\ Kept' = Kept /\ Working' = Working
          /\ (\A x : Projected(x)' <=> Projected(x)) /\ (\A x : MountOf(x)' <=> MountOf(x))
      BY <1>s, <2>1, <3>1
    <3>3. LowerInv'
      BY <2>1, <3>1, <3>2, <1>i DEF LowerInv
    <3>4. OrderInv'
      BY <2>1, <2>2, <3>1, <3>2, <1>i DEF OrderInv
    <3>5. HandInv'
      BY <3>1 DEF HandInv, Within
    <3>6. QED BY <3>2, <3>3, <3>4, <3>5 DEF Whole
  <2>3. CASE phase # "switch" /\ End("restored")
    <3>1. pc' = "idle" /\ phase' = "switch" /\ outcome'.how = "restored"
      BY <2>3 DEF End, Forget, TypeOK, ControlType
    <3>2. Holding' = state /\ Holding = previous /\ Working = previous /\ ~Making'
      BY <2>1, <2>3, <3>1 DEF Holding, Working, Making
    <3>3. Bare(previous) = Bare(state)
      BY <2>1, <1>i DEF PlanInv
    <3>m. /\ NestInv' /\ \A t : Loc(t)' = Loc(t)
          /\ \A x : Projected(x)' <=> Projected(x)
      BY <2>1, <1>i, MountsSame
    <3>4. UpperInv'
      <4>1. ASSUME NEW x \in previous
            PROVE  \E y \in state : /\ y.method = x.method /\ y.target = x.target
                                    /\ y.source = x.source /\ y.options = x.options
        BY <3>3, <1>t, BareMeans
      <4>2. ASSUME NEW m \in mounts'
            PROVE  \E y \in Holding' : /\ y.method = "bind" /\ y.target = m.at
                                       /\ y.source = m.src /\ y.options = m.opts
        <5>1. PICK x \in previous : /\ x.method = "bind" /\ x.target = m.at
                                    /\ x.source = m.src /\ x.options = m.opts
          BY <2>1, <3>2, <1>i DEF UpperInv
        <5>2. QED BY <5>1, <4>1, <3>2
      <4>3. ASSUME NEW l \in Locs, fs'[l].type = "link"
            PROVE  /\ l = Loc(l[2])'
                   /\ \E y \in Holding' : y.method = "symlink" /\ y.target = l[2] /\ y.source = fs'[l].to
        <5>1. PICK x \in previous : x.method = "symlink" /\ x.target = l[2] /\ x.source = fs[l].to
          BY <2>1, <3>2, <4>3, <1>i DEF UpperInv
        <5>2. l = Loc(l[2])
          BY <2>1, <4>3, <1>i DEF UpperInv
        <5>3. QED BY <5>1, <5>2, <4>1, <3>2, <3>m, <2>1
      <4>4. QED BY <4>2, <4>3 DEF UpperInv
    <3>5. LowerInv'
      <4>1. ASSUME NEW y \in state PROVE Projected(y)'
        <5>1. PICK x \in previous : /\ x.method = y.method /\ x.target = y.target
                                    /\ x.source = y.source /\ x.options = y.options
          BY <3>3, <1>t, BareMeans
        <5>2. Projected(x)
          BY <2>1, <3>2, <1>i DEF LowerInv
        <5>3. Projected(y)
          BY <5>1, <5>2 DEF Projected, OwnLink
        <5>4. QED BY <5>3, <3>m
      <4>2. QED BY <4>1, <3>1, <3>2, <2>1 DEF LowerInv
    <3>6. PlanInv'
      BY <2>1, <3>1, <1>i DEF PlanInv
    <3>7. ClosedInv' /\ OrderInv' /\ HandInv'
      BY <3>1 DEF ClosedInv, OrderInv, HandInv, Within
    <3>8. QED BY <3>m, <3>4, <3>5, <3>6, <3>7 DEF Whole
  <2>4. QED BY <1>5, <2>2, <2>3 DEF EndProject
<1>6. CASE WriteState
  <2>1. /\ pc = "write" /\ ~Removing /\ Making /\ pc # "idle" /\ UNCHANGED <<fs, mounts>>
        /\ phase = "switch" /\ todo = {}
    BY <1>6, <1>i DEF WriteState, Removing, Making, OrderInv
  <2>2. CASE Fail(FALSE) /\ UNCHANGED state
    BY <2>1, <2>2, <1>f, <1>n, FailKeeps
  <2>3. CASE state' = plan /\ End("ok")
    <3>1. pc' = "idle" /\ phase' = "switch" /\ outcome'.how = "ok" /\ outcome'.goal = outcome.goal
      BY <2>3 DEF End, Forget, TypeOK, ControlType
    <3>2. Holding' = plan /\ Holding = Kept \cup activated /\ Working = plan /\ ~Making'
          /\ activated \subseteq plan
      BY <2>1, <2>3, <3>1, <1>i DEF Holding, Working, Making, OrderInv
    <3>m. /\ NestInv' /\ \A t : Loc(t)' = Loc(t)
          /\ \A x : Projected(x)' <=> Projected(x)
      BY <2>1, <1>i, MountsSame
    <3>3. ASSUME NEW x \in Holding
          PROVE  \E y \in plan : y.target = x.target /\ Alike(x, y)
      <4>1. CASE x \in activated
        BY <4>1, <3>2 DEF Alike
      <4>2. CASE x \in Kept
        <5>1. ValidPlan(plan)
          BY <2>1, <1>i DEF PlanInv
        <5>2. \E y \in plan : SameProjection(x, y)
          BY <4>2, <5>1, <1>t, Removals DEF Kept
        <5>3. QED BY <5>2 DEF SameProjection, Alike
      <4>3. QED BY <4>1, <4>2, <3>2
    <3>4. UpperInv'
      <4>2. ASSUME NEW m \in mounts'
            PROVE  \E y \in Holding' : /\ y.method = "bind" /\ y.target = m.at
                                       /\ y.source = m.src /\ y.options = m.opts
        <5>1. PICK x \in Holding : /\ x.method = "bind" /\ x.target = m.at
                                   /\ x.source = m.src /\ x.options = m.opts
          BY <2>1, <1>i DEF UpperInv
        <5>2. QED BY <5>1, <3>2, <3>3 DEF Alike
      <4>3. ASSUME NEW l \in Locs, fs'[l].type = "link"
            PROVE  /\ l = Loc(l[2])'
                   /\ \E y \in Holding' : y.method = "symlink" /\ y.target = l[2] /\ y.source = fs'[l].to
        <5>1. PICK x \in Holding : x.method = "symlink" /\ x.target = l[2] /\ x.source = fs[l].to
          BY <2>1, <4>3, <1>i DEF UpperInv
        <5>2. l = Loc(l[2])
          BY <2>1, <4>3, <1>i DEF UpperInv
        <5>3. QED BY <5>1, <5>2, <3>2, <3>3, <3>m, <2>1 DEF Alike
      <4>4. QED BY <4>2, <4>3 DEF UpperInv
    <3>5. LowerInv'
      BY <2>1, <2>3, <3>1, <3>2, <3>m, <1>i DEF LowerInv
    <3>6. PlanInv'
      <4>1. ValidPlan(plan) /\ Bare(plan) = outcome.goal /\ outcome.goal \in Plans
        BY <2>1, <1>i DEF PlanInv
      <4>2. QED BY <4>1, <2>3, <3>1 DEF PlanInv
    <3>7. ClosedInv' /\ OrderInv' /\ HandInv'
      BY <3>1 DEF ClosedInv, OrderInv, HandInv, Within
    <3>8. QED BY <3>m, <3>4, <3>5, <3>6, <3>7 DEF Whole
  <2>4. QED BY <1>6, <2>2, <2>3 DEF WriteState
<1>7. QED
  BY <1>1, <1>2, <1>3, <1>4, <1>5, <1>6, PrepareKeeps, ActivateKeeps, ApplyKeeps DEF Project

\* A run begins from order.
LEMMA RunKeeps ==
  ASSUME TypeOK, TypeOK', Whole, Run
  PROVE  Whole'
<1>i. NestInv /\ UpperInv /\ LowerInv /\ ClosedInv /\ OrderInv /\ HandInv /\ PlanInv
  BY DEF Whole
<1>p. PICK p \in Plans : Start(p) \/ Refuse(p)
  BY DEF Run
<1>d. pc = "idle" /\ UNCHANGED <<fs, mounts, state, quarantine>> /\ state \subseteq Entry
  BY <1>p DEF Start, Refuse, disk, TypeOK, DiskType
<1>m. /\ NestInv' /\ Up' = Up /\ \A t : Loc(t)' = Loc(t)
      /\ \A x : Projected(x)' <=> Projected(x)
      /\ \A x : MountOf(x)' <=> MountOf(x)
      /\ \A t : Loc(t)' = Loc(t)
  BY <1>d, <1>i, MountsSame
<1>u. ASSUME Holding' = state, pc' \notin {"apply", "discard"} PROVE UpperInv'
  <2>0. Holding = state
    BY <1>d DEF Holding
  <2>1. ASSUME NEW m \in mounts'
        PROVE  \E x \in Holding' : /\ x.method = "bind" /\ x.target = m.at
                                   /\ x.source = m.src /\ x.options = m.opts
    BY <2>0, <1>d, <1>u, <1>i DEF UpperInv
  <2>2. ASSUME NEW l \in Locs, fs'[l].type = "link"
        PROVE  /\ l = Loc(l[2])'
               /\ \E x \in Holding' : x.method = "symlink" /\ x.target = l[2] /\ x.source = fs'[l].to
    BY <2>0, <2>2, <1>d, <1>m, <1>u, <1>i DEF UpperInv
  <2>3. QED BY <2>1, <2>2 DEF UpperInv
<1>1. CASE Start(p)
  <2> DEFINE new == InheritPlaceholders(p, state)
  <2>1. /\ pc' = "reconcile" /\ outcome'.how = "running" /\ outcome'.goal = p
        /\ phase' = "switch" /\ previous' = state /\ plan' = new
        /\ todo' = RemovalOrder(state, new) /\ activated' = {} /\ ValidPlan(p)
    BY <1>1 DEF Start, TypeOK, ControlType
  <2>2. new \subseteq Entry /\ Bare(new) = p /\ ValidPlan(new)
    BY <2>1, <1>d, Inherits
  <2> HIDE DEF new
  <2>3. todo' \subseteq state
    BY <2>1, <2>2, <1>d, Removals
  <2>4. Kept' = state \ todo' /\ Removing' /\ ~Making' /\ Holding' = state
    BY <2>1, <2>3 DEF Kept, Removing, Making, Holding
  <2>5. UpperInv'
    BY <2>1, <2>4, <1>u
  <2>6. \A e \in state : e.method = "bind" => MountOf(e) /\ e.target \in Up
    BY <1>d, <1>i DEF LowerInv, Projected, MountAt, MountOf, Up
  <2>7. LowerInv'
    BY <2>1, <2>4, <2>6, <1>m DEF LowerInv
  <2>8. ClosedInv'
    BY <2>1, <2>6, <1>m DEF ClosedInv
  <2>9. OrderInv'
    <3>1. \A a \in todo', o \in Kept' : a.target # o.target
      BY <2>3, <2>4, <1>i DEF PlanInv, ValidPlan
    <3>2. QED BY <2>1, <2>4, <3>1 DEF OrderInv
  <2>10. HandInv'
    BY <2>1 DEF HandInv, Within
  <2>11. PlanInv'
    BY <2>1, <2>2, <1>d, <1>i DEF PlanInv
  <2>12. QED BY <1>m, <2>5, <2>7, <2>8, <2>9, <2>10, <2>11 DEF Whole
<1>2. CASE Refuse(p)
  <2>1. /\ pc' = "idle" /\ outcome'.how = "refused"
    BY <1>2, <1>d DEF Refuse, TypeOK, ControlType
  <2>2. UpperInv'
    BY <2>1, <1>d, <1>u DEF Holding
  <2>3. LowerInv'
    BY <2>1, <1>d, <1>m, <1>i DEF LowerInv, Making
  <2>4. PlanInv'
    BY <2>1, <1>d, <1>i DEF PlanInv
  <2>5. ClosedInv' /\ OrderInv' /\ HandInv'
    BY <2>1 DEF ClosedInv, OrderInv, HandInv, Within
  <2>6. QED BY <1>m, <2>2, <2>3, <2>4, <2>5 DEF Whole
<1>3. QED BY <1>p, <1>1, <1>2

\* Nothing is shown, recorded or in hand at first.
LEMMA AtomicInit == Init => Atomic
<1> SUFFICES ASSUME Init PROVE Atomic
  OBVIOUS
<1>1. PICK N \in InitialNodes :
        fs = [l \in Locs |-> IF \E k \in Kinds : <<l, k>> \in N
                             THEN UserData(CHOOSE k \in Kinds : <<l, k>> \in N)
                             ELSE NoNode]
  BY DEF Init
<1>2. \A l \in Locs : fs[l].type # "link"
  BY <1>1 DEF UserData, NoNode, Kinds
<1>3. /\ mounts = {} /\ state = {} /\ pc = "idle" /\ phase = "switch" /\ outcome.how = "none"
  BY DEF Init
<1>4. NestInv
  BY <1>3 DEF NestInv
<1>5. UpperInv /\ LowerInv
  BY <1>2, <1>3 DEF UpperInv, LowerInv, Making
<1>6. ClosedInv /\ OrderInv /\ HandInv
  BY <1>3 DEF ClosedInv, OrderInv, HandInv, Within
<1>7. PlanInv
  BY <1>3 DEF PlanInv, ValidPlan, Bare
<1>8. Whole
  BY <1>4, <1>5, <1>6, <1>7 DEF Whole
<1>9. QED BY <1>3, <1>8 DEF Atomic, Hopeless

\* A step of nobody changes nothing.
LEMMA StutterKeeps == Whole /\ UNCHANGED vars => Whole'
<1> SUFFICES ASSUME Whole, UNCHANGED vars PROVE Whole'
  OBVIOUS
<1>0. UNCHANGED <<fs, mounts, state, pc, phase, previous, plan, todo, cur, activated,
                  quarantine, strays, outcome, spent>>
  BY DEF vars, memory
<1>i. NestInv /\ UpperInv /\ LowerInv /\ ClosedInv /\ OrderInv /\ HandInv /\ PlanInv
  BY DEF Whole
<1>m. /\ NestInv' /\ Up' = Up /\ \A t : Loc(t)' = Loc(t)
      /\ \A x : (Projected(x)' <=> Projected(x)) /\ (OwnLink(x)' <=> OwnLink(x))
      /\ \A x : MountOf(x)' <=> MountOf(x)
  BY <1>0, <1>i, MountsSame
<1>h. Holding' = Holding /\ Kept' = Kept /\ Working' = Working
      /\ (Removing' <=> Removing) /\ (Making' <=> Making)
  BY <1>0 DEF Holding, Kept, Working, Removing, Making
<1>1. UpperInv'
  <2>1. ASSUME NEW m \in mounts'
        PROVE  \/ \E x \in Holding' : /\ x.method = "bind" /\ x.target = m.at
                                      /\ x.source = m.src /\ x.options = m.opts
               \/ pc' \in {"apply", "discard"} /\ m.at = cur'.target /\ m.src = cur'.source
    BY <1>0, <1>i, <1>h DEF UpperInv
  <2>2. ASSUME NEW l \in Locs, fs'[l].type = "link"
        PROVE  /\ l = Loc(l[2])'
               /\ \E x \in Holding' : x.method = "symlink" /\ x.target = l[2] /\ x.source = fs'[l].to
    BY <2>2, <1>0, <1>i, <1>h, <1>m DEF UpperInv
  <2>3. QED BY <2>1, <2>2 DEF UpperInv
<1>2. LowerInv'
  BY <1>0, <1>i, <1>h, <1>m DEF LowerInv
<1>3. ClosedInv'
  BY <1>0, <1>i, <1>h, <1>m DEF ClosedInv, ShownBelow
<1>4. OrderInv'
  BY <1>0, <1>i, <1>h DEF OrderInv
<1>5. HandInv'
  <2>1. (MountOf(cur)' <=> MountOf(cur)) /\ (OwnLink(cur)' <=> OwnLink(cur))
    <3>1. MountOf(cur)' <=> MountOf(cur)
      BY <1>0 DEF MountOf
    <3>4. ASSUME NEW u PROVE Node(u)' = Node(u)
      <4>1. MountAt(u)' = MountAt(u) /\ fs'[Loc(u)'] = fs[Loc(u)]
        BY <1>0, MountsSame
      <4>2. QED BY <4>1 DEF Node, Made
    <3>5. QED BY <3>1, <3>4, <1>0 DEF OwnLink, WalkFails, Above
  <2>2. (Deepest(cur)' <=> Deepest(cur)) /\ (Topmost(cur)' <=> Topmost(cur))
    BY <1>0 DEF Deepest, Topmost
  <2>3. QED BY <1>0, <1>i, <1>h, <1>m, <2>1, <2>2 DEF HandInv
<1>6. PlanInv'
  BY <1>0, <1>i DEF PlanInv
<1>7. QED BY <1>m, <1>1, <1>2, <1>3, <1>4, <1>5, <1>6 DEF Whole

\* Then nobody else is at work.
LEMMA Calm == ASSUME Undisturbed, TypeOK PROVE ~Environment
<1>1. MaxCrashes = 0 /\ MaxReboots = 0 /\ spent.crashes \in Nat /\ spent.reboots \in Nat
  BY DEF Undisturbed, TypeOK, ControlType
<1>2. ~Crash /\ ~Reboot
  BY <1>1 DEF Crash, Reboot
<1>3. \A act : ~Admin(act)
  BY DEF Undisturbed, Admin
<1>4. QED BY <1>2, <1>3 DEF Environment, AdminLink, AdminMount, AdminUnmount, AdminWrite

\* What is in place between and during runs stays in order while no run is lost.
LEMMA AtomicStep ==
  ASSUME Undisturbed, BindsTakenBack, TypeOK, TypeOK', Atomic,
         OneFaultIsRestored, OneFaultIsRestored', [Next]_vars
  PROVE  Atomic'
<1>0. ~Environment
  BY Calm
<1>1. CASE Hopeless
  <2>1. pc \in {"discard", "discard unlink"} /\ phase # "switch"
    BY <1>1 DEF Hopeless
  <2>2. \A r : ~Fail(r)
    BY <2>1 DEF Fail, End, OneFaultIsRestored, TypeOK, ControlType
  <2>3. CASE UNCHANGED vars
    BY <1>1, <2>1, <2>3 DEF vars, memory, Hopeless, Atomic
  <2>4. CASE Umount
    BY <1>1, <2>1, <2>4 DEF Umount, Enter, Go, Hopeless, Atomic
  <2>5. ~UmountFails /\ ~Unlink
    BY <2>1, <2>2 DEF UmountFails, Unlink
  <2>6. CASE Next /\ ~Umount
    <3>1. ~Run /\ ~Project
      BY <2>1 DEF Run, Start, Refuse, Project, CheckStores, Prepare, PrepareFails, Activate,
         ActivateFails, Apply, ApplyFails, EndProject, WriteState
    <3>2. ~Remove
      BY <2>1, <2>5, <2>6 DEF Remove, BeginRemoval, SkipRemoval, RefuseRemoval, Quarantine,
         Inspect, EndReconcile
    <3>3. QED BY <2>6, <3>1, <3>2, <1>0 DEF Next, Step
  <2>7. QED BY <2>3, <2>4, <2>6
<1>2. CASE ~Hopeless
  <2>1. Whole
    BY <1>2 DEF Atomic
  <2>0. pc # "idle" => outcome.how = "running"
    BY <2>1 DEF Whole, PlanInv
  <2>w. Hopeless => pc # "idle"
    BY DEF Hopeless
  <2>2. CASE UNCHANGED vars
    <3>1. Whole' /\ ~Hopeless'
      BY <2>1, <2>2, <1>2, StutterKeeps DEF Hopeless, vars, memory
    <3>2. QED BY <3>1 DEF Atomic
  <2>3. CASE Remove
    <3>1. Whole'
      BY <2>1, <2>3, <1>2, RemoveKeeps DEF OneFaultIsRestored
    <3>2. QED BY <3>1 DEF Atomic, Hopeless, Whole, PlanInv
  <2>4. CASE Project
    <3>1. Whole' \/ (Hopeless' /\ UNCHANGED outcome)
      BY <2>1, <2>4, <1>2, ProjectKeeps DEF OneFaultIsRestored
    <3>2. pc # "idle"
      BY <2>4 DEF Project, CheckStores, Prepare, PrepareFails, Activate, ActivateFails, Apply,
                  ApplyFails, EndProject, WriteState
    <3>3. CASE Whole'
      BY <3>3 DEF Atomic, Hopeless, Whole, PlanInv
    <3>4. CASE Hopeless' /\ UNCHANGED outcome
      BY <3>2, <3>4, <2>0 DEF Atomic
    <3>5. QED BY <3>1, <3>3, <3>4
  <2>5. CASE Run
    <3>1. Whole'
      BY <2>1, <2>5, RunKeeps
    <3>2. QED BY <3>1 DEF Atomic, Hopeless, Whole, PlanInv
  <2>6. QED BY <1>0, <2>2, <2>3, <2>4, <2>5 DEF Next, Step
<1>3. QED BY <1>1, <1>2

\* While no run is lost, what is in place is in order, whatever the plans, whichever calls
\* fail and however often.
LEMMA AtomicKept ==
  ASSUME Undisturbed, BindsTakenBack
  PROVE  Spec /\ []OneFaultIsRestored => []Atomic
<1>1. TypeOK /\ TypeOK' /\ Atomic /\ OneFaultIsRestored /\ OneFaultIsRestored' /\ [Next]_vars => Atomic'
  BY AtomicStep
<1>2. QED BY <1>1, AtomicInit, TypeCorrect, PTL DEF Spec
----------------------------------------------------------------------------
(* What runs end in.                                                        *)

\* Two plans that project an object at a path by the same method, and with the same options
\* where it is a bind, do so by the same entry: what a walk finds there cannot tell two such
\* entries apart.
PlansAgree ==
  \A e, f \in UNION Plans :
    /\ e.source = f.source /\ e.target = f.target /\ e.method = f.method
    /\ e.method = "bind" => e.options = f.options
    => e = f

\* Whatever the tree of targets, whatever the plans and whichever calls fail: as long as no
\* run reports that restoring failed too, each ends with the plan it was given, or with the
\* recorded one, in place, every entry visible with its options and nothing else (run,
\* rollback, restore).
THEOREM SwitchSafe ==
  ASSUME Undisturbed, BindsTakenBack
  PROVE  Spec /\ []OneFaultIsRestored => []PlanOrRecorded
<1>1. TypeOK /\ Atomic => PlanOrRecorded
  <2> SUFFICES ASSUME TypeOK, Atomic PROVE PlanOrRecorded
    OBVIOUS
  <2>1. ASSUME outcome.how \in {"ok", "refused", "restored"}
        PROVE  InPlace(state) /\ (outcome.how = "ok" => Bare(state) = outcome.goal)
    <3>1. Whole
      BY <2>1 DEF Atomic
    <3>i. NestInv /\ UpperInv /\ LowerInv /\ PlanInv
      BY <3>1 DEF Whole
    <3>2. pc = "idle" /\ Holding = state
      BY <2>1, <3>i DEF PlanInv, Holding
    <3>g. Geometry /\ mounts \subseteq MountType
      BY <3>i, NestedWalks DEF TypeOK, DiskType
    <3>3. ASSUME NEW m \in mounts
          PROVE  m \in MountAt(m.at) /\ \E e \in state : e.target = m.at /\ e.source = m.src
      <4>1. m.at \in Targets
        BY <3>g DEF MountType
      <4>2. m \in MountAt(m.at)
        BY <4>1, <3>g DEF Geometry, Walks
      <4>3. \E e \in state : e.target = m.at /\ e.source = m.src
        BY <3>i, <3>2 DEF UpperInv
      <4>4. QED BY <4>2, <4>3
    <3>4. ASSUME NEW l \in Locs, fs[l].type = "link"
          PROVE  \E e \in state : e.method = "symlink" /\ Loc(e.target) = l
      BY <3>4, <3>i, <3>2 DEF UpperInv
    <3>5. NothingElse(state)
      BY <3>3, <3>4 DEF NothingElse
    <3>6. \A e \in state : Projected(e)
      BY <3>2, <3>i DEF LowerInv
    <3>7. QED BY <3>5, <3>6, <3>i DEF InPlace, PlanInv
  <2>2. QED BY <2>1 DEF PlanOrRecorded, SwitchComplete, FailureRestores
<1>2. QED BY <1>1, AtomicKept, TypeCorrect, PTL

\* In all those runs nothing of the utility's is mounted inside a bind that is being
\* unmounted (removal_order).
THEOREM NotBusySafe ==
  ASSUME Undisturbed, BindsTakenBack
  PROVE  Spec /\ []OneFaultIsRestored => []NeverBusyOfItself
<1>1. TypeOK /\ Atomic => NeverBusyOfItself
  <2> SUFFICES ASSUME TypeOK, Atomic, pc = "umount" PROVE ~Busy(cur.target)
    BY DEF NeverBusyOfItself
  <2>1. Whole
    BY DEF Atomic, Hopeless
  <2>2. ~ShownBelow(cur.target)
    BY <2>1, Held
  <2>3. cur.target \in Targets
    BY DEF TypeOK, ControlType, Within, Entry
  <2>4. Walks(cur.target)
    BY <2>1, <2>3, NestedWalks DEF Whole, Geometry
  <2>5. QED BY <2>2, <2>4 DEF Walks, ShownBelow
<1>2. QED BY <1>1, AtomicKept, TypeCorrect, PTL

\* In all those runs the utility implements the atomic switch of plans: seen between runs,
\* the root serves what is recorded, and only the rename of the state file changes it.
THEOREM SwitchIsAtomic ==
  ASSUME Undisturbed, BindsTakenBack, PlansAgree
  PROVE  Spec /\ []OneFaultIsRestored => ImplementsAtomicSwitch
<1>1. TypeOK /\ Atomic => Served = Bare(state)
  <2> SUFFICES ASSUME TypeOK, Atomic, pc = "idle"
               PROVE  {e \in (UNION Plans) \cup Bare(state) : Projected(e)} = Bare(state)
    BY DEF Served
  <2>0. Whole /\ state \subseteq Entry /\ mounts \subseteq MountType
    BY DEF Atomic, Hopeless, TypeOK, DiskType
  <2>i. NestInv /\ UpperInv /\ LowerInv /\ PlanInv /\ Holding = state
    BY <2>0 DEF Whole, Holding
  <2>g. Geometry
    BY <2>i, NestedWalks
  <2> DEFINE bare(e) == [e EXCEPT !.placeholder = FALSE]
  <2>1. ASSUME NEW e \in Entry
        PROVE  /\ bare(e) \in Entry /\ bare(e).source = e.source /\ bare(e).target = e.target
               /\ bare(e).method = e.method /\ bare(e).options = e.options
               /\ Projected(e) => Projected(bare(e))
    <3>1. /\ bare(e) \in Entry /\ bare(e).source = e.source /\ bare(e).target = e.target
          /\ bare(e).method = e.method /\ bare(e).options = e.options
      BY DEF Entry
    <3> HIDE DEF bare
    <3>2. QED BY <3>1 DEF Projected, OwnLink
  <2>2. Bare(state) = {bare(e) : e \in state}
    BY DEF Bare
  <2>3. UNION Plans \subseteq Entry
    BY ConstantsOK
  <2>4. Bare(state) \subseteq UNION Plans
    BY <2>i DEF PlanInv
  <2> HIDE DEF bare
  <2>5. ASSUME NEW x \in Bare(state) PROVE Projected(x)
    <3>1. PICK e \in state : x = bare(e)
      BY <2>2
    <3>2. Projected(e) /\ e \in Entry
      BY <2>0, <2>i DEF LowerInv
    <3>3. QED BY <3>1, <3>2, <2>1
  <2>6. ASSUME NEW e \in UNION Plans, Projected(e) PROVE e \in Bare(state)
    <3>0. e \in Entry /\ e.target \in Targets /\ e.method \in Methods
      BY <2>3 DEF Entry
    <3>1. PICK x \in state : /\ x.source = e.source /\ x.target = e.target /\ x.method = e.method
                             /\ e.method = "bind" => x.options = e.options
      <4>1. CASE e.method = "bind"
        <5>1. PICK m \in mounts : m.at = e.target /\ m.src = e.source /\ m.opts = e.options
          BY <2>6, <4>1 DEF Projected, MountAt
        <5>2. QED BY <5>1, <4>1, <2>i DEF UpperInv
      <4>2. CASE e.method = "symlink"
        <5>1. Node(e.target).type = "link" /\ Node(e.target).to = e.source
          BY <2>6, <4>2 DEF Projected, OwnLink
        <5>2. e.target \notin Up
          <6>1. \A m \in mounts : m.kind # "link" /\ Made(m.kind).type = m.kind
            BY <2>0 DEF MountType, Kinds, Made
          <6>2. QED BY <6>1, <5>1, <3>0, <2>g DEF Geometry, Walks, Up
        <5>3. Node(e.target) = fs[Loc(e.target)]
          BY <5>2, <3>0, <2>g DEF Geometry, Walks
        <5>4. Loc(e.target) \in Locs /\ Loc(e.target)[2] = e.target
          BY <3>0, NodesTyped DEF TypeOK, DiskType, Loc
        <5>5. QED BY <5>1, <5>3, <5>4, <4>2, <2>i DEF UpperInv
      <4>3. QED BY <4>1, <4>2, <3>0 DEF Methods
    <3>2. bare(x) \in UNION Plans /\ bare(x) \in Bare(state)
      BY <2>2, <2>4
    <3>3. e = bare(x)
      BY <3>1, <3>2, <2>0, <2>1 DEF PlansAgree
    <3>4. QED BY <3>2, <3>3
  <2>7. QED BY <2>4, <2>5, <2>6
<1>2. Init => Bare(state) = {}
  BY DEF Init, Bare
<1>3. ASSUME TypeOK, Atomic, [Next]_vars, Undisturbed
      PROVE  \/ Bare(state)' = Bare(state)
             \/ Bare(state)' \in Plans
  <2>1. state' = state => Bare(state)' = Bare(state)
    BY DEF Bare
  <2>2. CASE UNCHANGED vars
    BY <2>1, <2>2 DEF vars
  <2>3. CASE Remove
    BY <2>1, <2>3 DEF Remove, BeginRemoval, SkipRemoval, RefuseRemoval, Umount, UmountFails,
                      Unlink, Quarantine, Inspect, EndReconcile, disk
  <2>4. CASE Project
    <3>1. CASE WriteState /\ state' = plan
      <4>1. pc = "write" /\ ~Hopeless
        BY <3>1 DEF WriteState, Hopeless
      <4>2. Bare(plan) \in Plans
        BY <4>1, <1>3 DEF Atomic, Whole, PlanInv
      <4>3. QED BY <4>2, <3>1 DEF Bare
    <3>2. CASE ~WriteState
      BY <2>1, <2>4, <3>2 DEF Project, CheckStores, Prepare, PrepareFails, Activate,
                      ActivateFails, Apply, ApplyFails, EndProject, disk
    <3>3. CASE WriteState /\ state' # plan
      BY <2>1, <3>3 DEF WriteState
    <3>4. QED BY <3>1, <3>2, <3>3
  <2>5. CASE Run
    BY <2>1, <2>5 DEF Run, Start, Refuse, disk
  <2>6. CASE Environment
    <3>1. ~Reboot
      BY <1>3 DEF Undisturbed, Reboot, TypeOK, ControlType
    <3>2. QED BY <2>1, <2>6, <3>1 DEF Environment, Crash, Admin, AdminLink, AdminMount,
                      AdminUnmount, AdminWrite
  <2>7. QED BY <1>3, <2>2, <2>3, <2>4, <2>5, <2>6 DEF Next, Step
<1>4. ASSUME TypeOK, TypeOK', Atomic, Atomic', [Next]_vars
      PROVE  [Abstract!Next]_<<Bare(state), Served>>
  <2>1. Served = Bare(state)
    BY <1>1, <1>4
  <2>2. (Served = Bare(state))'
    BY <1>1, <1>4, PTL
  <2>3. QED BY <2>1, <2>2, <1>3, <1>4 DEF Abstract!Next, Abstract!Switch
<1>5. TypeOK /\ Atomic /\ Init => Abstract!Init
  BY <1>1, <1>2 DEF Abstract!Init
<1>6. QED BY <1>4, <1>5, AtomicKept, TypeCorrect, PTL DEF Spec, ImplementsAtomicSwitch, Abstract!Spec
----------------------------------------------------------------------------
(* No run is lost.                                                          *)

\* Every path keeps to one kind: what a plan or the administrator puts there is always a
\* directory, always a file, or always a symlink of a plan's, and paths lie in directories.
Fits(K, e) == IF e.method = "symlink" THEN K[e.target] = "link" ELSE K[e.target] = e.kind
OneKind(K) ==
  /\ K \in [Targets -> {"dir", "file", "link"}]
  /\ \A t \in Targets : \A u \in Above(t) : K[u] = "dir"
  /\ \A e \in UNION Plans : Fits(K, e)
  /\ \A x \in Preexisting : x[2] = K[x[1][2]]

\* What is there has the kind of its path.
KindInv(K) == /\ \A l \in Locs : fs[l].type \in {"absent", K[l[2]]}
              /\ \A m \in mounts : m.kind = K[m.at]

\* prepare has made what activate needs.
ReadyInv ==
  pc = "activate" => /\ ~ParentMissing(cur.target)
                     /\ cur.method = "bind" => Node(cur.target).type # "absent"

\* A run that fails has used up the faults.
FaultInv ==
  /\ phase # "switch" => spent.faults >= MaxFaults
  /\ pc \in {"discard", "discard unlink"} => phase = "switch" /\ spent.faults >= MaxFaults

Sound(K) == KindInv(K) /\ ReadyInv /\ FaultInv

\* A walk meets no obstacle, and finds nothing but what the path is kept for.
LEMMA NoObstacle ==
  ASSUME TypeOK, Whole, NEW K, OneKind(K), KindInv(K)
  PROVE  /\ \A t : ~WalkFails(t)
         /\ \A t \in Targets : /\ Node(t).type \in {"absent", K[t]}
                               /\ t \in Up => Node(t).type = K[t] /\ K[t] # "link"
         /\ pc # "idle" => \A e \in previous \cup plan : Fits(K, e)
         /\ \A e \in Entry : Fits(K, e) /\ e.method = "bind" => ~OpenFails(e) /\ ~WrongKind(e)
<1>t. /\ fs \in [Locs -> NodeType] /\ mounts \subseteq MountType
      /\ previous \subseteq Entry /\ plan \subseteq Entry
  BY DEF TypeOK, DiskType, MemoryType
<1>g. Geometry
  BY NestedWalks DEF Whole
<1>1. ASSUME NEW t \in Targets
      PROVE  Node(t).type \in {"absent", K[t]} /\ (t \in Up => Node(t).type = K[t] /\ K[t] # "link")
  <2>1. CASE t \in Up
    <3>1. PICK m \in mounts : m.at = t
      BY <2>1 DEF Up
    <3>2. Node(t) = Made(m.kind) /\ m.kind = K[t] /\ m.kind \in {"dir", "file"}
      BY <3>1, <1>g, <1>t DEF Geometry, Walks, KindInv, MountType, Kinds
    <3>3. QED BY <3>2 DEF Made
  <2>2. CASE t \notin Up
    <3>1. Node(t) = fs[Loc(t)] /\ Loc(t) \in Locs /\ Loc(t)[2] = t
      BY <2>2, <1>g, <1>t, NodesTyped DEF Geometry, Walks, Loc
    <3>2. QED BY <3>1, <2>2 DEF KindInv
  <2>3. QED BY <2>1, <2>2
<1>2. ASSUME NEW t PROVE ~WalkFails(t)
  <2>1. ASSUME NEW u \in Above(t) PROVE u \in Targets /\ t \in Targets /\ K[u] = "dir"
    BY ConstantsOK DEF Above, OneKind
  <2>2. QED BY <2>1, <1>1 DEF WalkFails
<1>3. ASSUME NEW es \in SUBSET Entry, Bare(es) \in Plans \cup {{}}, NEW e \in es PROVE Fits(K, e)
  <2>1. [e EXCEPT !.placeholder = FALSE] \in UNION Plans
    BY <1>3 DEF Bare
  <2>2. Fits(K, [e EXCEPT !.placeholder = FALSE])
    BY <2>1 DEF OneKind
  <2>3. QED BY <2>2 DEF Fits, Entry
<1>4. pc # "idle" => \A e \in previous \cup plan : Fits(K, e)
  BY <1>3, <1>t DEF Whole, PlanInv
<1>5. ASSUME NEW e \in Entry, Fits(K, e), e.method = "bind" PROVE ~OpenFails(e) /\ ~WrongKind(e)
  <2>1. e.target \in Targets /\ e.kind \in {"dir", "file"} /\ K[e.target] = e.kind
    BY <1>5 DEF Entry, Kinds, Fits
  <2>2. Node(e.target).type \in {"absent", e.kind}
    BY <2>1, <1>1
  <2>3. QED BY <2>1, <2>2, <1>2 DEF OpenFails, WrongKind
<1>6. QED BY <1>1, <1>2, <1>4, <1>5

\* Where every path keeps to one kind and one call fails at most, no step fails but that
\* one, in particular none of the failure path: no run is lost.
LEMMA SoundStep ==
  ASSUME Undisturbed, MaxFaults <= 1, NEW K, OneKind(K), TypeOK, Whole, Sound(K),
         OneFaultIsRestored, [Next]_vars
  PROVE  Sound(K)' /\ OneFaultIsRestored'
<1>t. /\ fs \in [Locs -> NodeType] /\ mounts \subseteq MountType
      /\ todo \subseteq Entry /\ previous \subseteq Entry /\ plan \subseteq Entry /\ activated \subseteq Entry
      /\ spent.faults \in Nat /\ MaxFaults \in Nat
      /\ pc \in Within => cur \in Entry
  BY ConstantsOK DEF TypeOK, DiskType, MemoryType, ControlType
<1>i. NestInv /\ UpperInv /\ LowerInv /\ ClosedInv /\ OrderInv /\ HandInv /\ PlanInv
  BY DEF Whole
<1>s. KindInv(K) /\ ReadyInv /\ FaultInv /\ K \in [Targets -> {"dir", "file", "link"}]
  BY DEF Sound, OneKind
<1>n. /\ \A t : ~WalkFails(t)
      /\ \A t \in Targets : /\ Node(t).type \in {"absent", K[t]}
                            /\ t \in Up => Node(t).type = K[t] /\ K[t] # "link"
      /\ pc # "idle" => \A e \in previous \cup plan : Fits(K, e)
      /\ \A e \in Entry : Fits(K, e) /\ e.method = "bind" => ~OpenFails(e) /\ ~WrongKind(e)
  BY <1>s, NoObstacle
<1>g. Geometry
  BY <1>i, NestedWalks
<1>e. pc # "idle" => \A e \in todo : Fits(K, e) /\ e \in Entry /\ e.target \in Targets
  <2>1. pc # "idle" /\ (Removing \/ Making \/ pc \in {"stores", "write"}) => todo \subseteq previous \cup plan
    <3>1. RemovalOrder(previous, plan) \subseteq previous
      BY DEF RemovalOrder, StaleEntries
    <3>2. QED BY <3>1, <1>i DEF OrderInv, Working
  <2>2. pc # "idle" => Removing \/ Making \/ pc \in {"stores", "write"}
    BY DEF TypeOK, ControlType, Between, Within, Removing, Making
  <2>3. QED BY <2>1, <2>2, <1>n, <1>t DEF Entry
<1>c. pc \in Within => cur \in todo /\ Fits(K, cur) /\ cur.target \in Targets /\ pc # "idle"
  BY <1>e, <1>i DEF HandInv, Within
\* What the steps do to control.
<1>a. ASSUME NEW k, NEW r, Fault(k), Fail(r)
      PROVE  FaultInv' /\ ReadyInv' /\ OneFaultIsRestored'
  <2>1. spent.faults < MaxFaults /\ spent'.faults = spent.faults + 1
    BY <1>a DEF Fault, TypeOK, ControlType
  <2>n. spent.faults \in Nat /\ MaxFaults \in Nat /\ MaxFaults <= 1
    BY <1>t
  <2>p. phase # "switch" => spent.faults >= MaxFaults
    BY <1>s DEF FaultInv
  <2>2. phase = "switch" /\ spent'.faults >= MaxFaults
    BY <2>1, <2>n, <2>p
  <2>3. pc' \in {"prepare", "reconcile"} /\ outcome' = outcome
    BY <1>a, <2>2 DEF Fail, Go
  <2>4. QED BY <2>2, <2>3 DEF FaultInv, ReadyInv, OneFaultIsRestored
<1>b. ASSUME phase' = phase, NoFault, outcome' = outcome, pc' \notin {"activate", "discard", "discard unlink"}
      PROVE  FaultInv' /\ ReadyInv' /\ OneFaultIsRestored'
  BY <1>b, <1>s DEF NoFault, FaultInv, ReadyInv, OneFaultIsRestored
<1>d. ASSUME NEW how, how # "lost", End(how)
      PROVE  FaultInv' /\ ReadyInv' /\ OneFaultIsRestored'
  BY <1>d DEF End, Forget, FaultInv, ReadyInv, OneFaultIsRestored, TypeOK, ControlType
<1>k. ASSUME \A l \in Locs : fs'[l].type = fs[l].type \/ fs'[l].type \in {"absent", K[l[2]]},
             \A m \in mounts' : m.kind = K[m.at]
      PROVE  KindInv(K)'
  BY <1>k, <1>s DEF KindInv
<1>m. mounts' \subseteq mounts => \A m \in mounts' : m.kind = K[m.at]
  BY <1>s DEF KindInv
<1>q. ASSUME UNCHANGED <<fs, mounts>> PROVE KindInv(K)'
  BY <1>q, <1>k, <1>m
<1>h. /\ Holding \subseteq Entry
      /\ \A x, y \in Holding : x.target = y.target => Alike(x, y)
      /\ pc # "idle" => \A o \in Kept, n \in plan : o.target = n.target => SameProjection(o, n)
      /\ pc = "umount" => ~ShownBelow(cur.target)
      /\ Making /\ phase = "switch" /\ cur \in todo /\ cur.method = "bind"
           /\ (\A o \in Kept : o.target # cur.target) => ~ShownBelow(cur.target)
  BY Held
\* What is mounted at the target of an entry of the loop is the entry's.
<1>o. ASSUME NEW e \in todo, pc = "reconcile" \/ pc = "activate", e.method = "bind", Mounted(e.target)
      PROVE  MountedFrom(e.target, e.source)
  <2>0. e.target \in Targets
    BY <1>o, <1>e
  <2>1. PICK m \in mounts : m.at = e.target /\ m \in MountAt(e.target)
    BY <1>o DEF Mounted, MountAt
  <2>2. PICK x \in Holding : x.method = "bind" /\ x.target = e.target /\ x.source = m.src
    BY <2>1, <1>i, <1>o DEF UpperInv
  <2>3. x.source = e.source
    <3>1. CASE pc = "reconcile"
      BY <3>1, <2>2, <1>h DEF Holding, Removing, Alike
    <3>2. CASE pc = "activate" /\ phase = "switch"
      <4>1. x \in Kept \cup activated /\ e \in plan /\ activated \subseteq plan
        BY <3>2, <2>2, <1>i DEF Holding, Removing, Making, OrderInv, Working
      <4>2. CASE x \in Kept
        BY <4>1, <4>2, <3>2, <2>2, <1>h DEF SameProjection
      <4>3. CASE x \in activated
        BY <4>1, <4>3, <3>2, <2>2, <1>i DEF PlanInv, ValidPlan
      <4>4. QED BY <4>1, <4>2, <4>3
    <3>3. CASE pc = "activate" /\ phase # "switch"
      BY <3>3, <2>2, <1>i DEF Holding, Removing, Making, OrderInv, Working, PlanInv, ValidPlan
    <3>4. QED BY <1>o, <3>1, <3>2, <3>3
  <2>4. QED BY <2>1, <2>2, <2>3 DEF MountedFrom
\* The removal loop.
<1>1. ASSUME NEW e \in todo, BeginRemoval(e) \/ SkipRemoval(e) PROVE Sound(K)' /\ OneFaultIsRestored'
  <2>1. /\ UNCHANGED <<fs, mounts>> /\ phase' = phase /\ outcome' = outcome /\ NoFault
        /\ pc' \in {"umount", "quarantine", "reconcile"}
    BY <1>1 DEF BeginRemoval, SkipRemoval, Enter, Done, Go, disk
  <2>2. QED BY <2>1, <1>b, <1>q DEF Sound
<1>2. ASSUME NEW e \in todo PROVE ~RefuseRemoval(e)
  <2>1. ASSUME RefuseRemoval(e) PROVE FALSE
    <3>1. pc = "reconcile"
      BY <2>1 DEF RefuseRemoval
    <3>2. Fits(K, e) /\ e \in Entry
      BY <3>1, <1>e
    <3>3. QED BY <2>1, <3>1, <3>2, <1>n, <1>o DEF RefuseRemoval
  <2>2. QED BY <2>1
<1>3. CASE Umount
  <2>1. /\ pc \in {"umount", "discard"} /\ pc \in Within /\ fs' = fs /\ mounts' \subseteq mounts
        /\ phase' = phase /\ outcome' = outcome /\ spent' = spent
        /\ pc' = IF pc = "umount" THEN "unlink" ELSE "discard unlink"
    BY <1>3 DEF Umount, Enter, Go, NoFault, Within
  <2>2. FaultInv' /\ ReadyInv' /\ OneFaultIsRestored'
    BY <2>1, <1>s DEF FaultInv, ReadyInv, OneFaultIsRestored
  <2>3. QED BY <2>1, <2>2, <1>k, <1>m DEF Sound
<1>f. ASSUME NEW r, Fail(r), phase = "switch", spent'.faults >= MaxFaults
      PROVE  FaultInv' /\ ReadyInv' /\ OneFaultIsRestored'
  <2>1. pc' \in {"prepare", "reconcile"} /\ outcome' = outcome
    BY <1>f DEF Fail, Go
  <2>2. QED BY <1>f, <2>1 DEF FaultInv, ReadyInv, OneFaultIsRestored
<1>4. CASE UmountFails
  <2>1. pc \in {"umount", "discard"} /\ pc \in Within /\ UNCHANGED <<fs, mounts>> /\ Fail(pc = "umount")
    BY <1>4 DEF UmountFails, disk, Within
  <2>2. MountOf(cur) /\ cur.target \in Targets /\ cur.method = "bind" /\ cur \in todo
    BY <2>1, <1>c, <1>i DEF HandInv
  <2>3. Walks(cur.target)
    BY <2>2, <1>g DEF Geometry
  <2>4. Mounted(cur.target)
    BY <2>2, <2>3 DEF Walks, MountOf, Up
  <2>5. ~ShownBelow(cur.target)
    <3>1. CASE pc = "umount"
      BY <3>1, <1>h
    <3>2. CASE pc = "discard"
      <4>1. Making /\ phase = "switch"
        BY <3>2, <1>s DEF Making, FaultInv
      <4>2. \A o \in Kept : o.target # cur.target
        BY <3>2, <4>1, <1>i DEF HandInv
      <4>3. QED BY <4>1, <4>2, <2>2, <1>h
    <3>3. QED BY <2>1, <3>1, <3>2
  <2>6. ~Busy(cur.target)
    BY <2>3, <2>5 DEF Walks, ShownBelow
  <2>7. Fault("umount")
    BY <1>4, <2>4, <2>6 DEF UmountFails
  <2>8. QED BY <2>1, <2>7, <1>a, <1>q DEF Sound
<1>5. CASE Unlink
  <2>1. /\ pc \in {"unlink", "discard unlink"} /\ pc \in Within /\ mounts' = mounts
        /\ fs' \in {fs, [fs EXCEPT ![Loc(cur.target)] = NoNode]}
    BY <1>5 DEF Unlink, Within
  <2>2. KindInv(K)'
    <3>1. ASSUME NEW l \in Locs PROVE fs'[l] = fs[l] \/ fs'[l] = NoNode
      BY <2>1, <1>t
    <3>2. \A l \in Locs : fs'[l].type = fs[l].type \/ fs'[l].type \in {"absent", K[l[2]]}
      BY <3>1 DEF NoNode
    <3>3. \A m \in mounts' : m.kind = K[m.at]
      BY <2>1, <1>m
    <3>4. QED BY <3>2, <3>3, <1>k
  <2>3. CASE pc = "unlink"
    <3>1. cur.target \notin Up /\ cur.method = "bind" /\ cur \in Entry /\ cur.target \in Targets /\ Fits(K, cur)
      BY <2>1, <2>3, <1>c, <1>t, <1>i DEF HandInv
    <3>2. ~Mounted(cur.target)
      BY <3>1, <1>g DEF Geometry, Walks
    <3>3. Node(cur.target).type \in {"absent", cur.kind} /\ cur.kind \in {"dir", "file"}
      BY <3>1, <1>n DEF Fits, Entry, Kinds
    <3>4. ~UnlinkFails(cur)
      BY <3>2, <3>3 DEF UnlinkFails
    <3>5. CASE NoFault /\ Done("reconcile", cur)
      BY <3>5, <2>2, <1>b DEF Done, Go, Sound
    <3>6. CASE Fault("forget") /\ Fail(pc = "unlink")
      BY <3>6, <2>2, <1>a DEF Sound
    <3>7. QED BY <1>5, <2>3, <3>4, <3>5, <3>6 DEF Unlink
  <2>4. CASE pc = "discard unlink"
    <3>1. Fail(pc = "unlink")
      BY <1>5, <2>4 DEF Unlink
    <3>2. phase = "switch" /\ spent.faults >= MaxFaults
      BY <2>4, <1>s DEF FaultInv
    <3>3. spent'.faults >= MaxFaults
      <4>1. CASE NoFault
        BY <3>2, <4>1 DEF NoFault
      <4>2. CASE Fault("forget")
        BY <3>2, <4>2, <1>t DEF Fault
      <4>3. QED BY <1>5, <4>1, <4>2 DEF Unlink
    <3>4. QED BY <3>1, <3>2, <3>3, <2>2, <1>f DEF Sound
  <2>5. QED BY <2>1, <2>3, <2>4
<1>6. CASE Quarantine
  <2>1. pc = "quarantine" /\ pc \in Within /\ mounts' = mounts
    BY <1>6 DEF Quarantine, Within
  <2>2. /\ cur.target \in Targets /\ cur.method = "symlink" /\ OwnLink(cur) /\ Fits(K, cur)
    BY <2>1, <1>c, <1>i DEF HandInv
  <2>3. Node(cur.target).type = "link" /\ cur.target \notin Up
    BY <2>2, <1>n DEF OwnLink, Fits
  <2>4. ~Mounted(cur.target)
    BY <2>2, <2>3, <1>g DEF Geometry, Walks
  <2>5. CASE /\ NoFault /\ fs' = [fs EXCEPT ![Loc(cur.target)] = NoNode]
             /\ Enter("inspect", cur)
    <3>1. \A l \in Locs : fs'[l] = fs[l] \/ fs'[l] = NoNode
      BY <2>5, <1>t
    <3>2. KindInv(K)'
      BY <3>1, <2>1, <1>k, <1>m DEF NoNode
    <3>3. QED BY <2>5, <3>2, <1>b DEF Enter, Go, Sound
  <2>6. CASE Fault("rename") /\ Fail(TRUE) /\ fs' = fs
    BY <2>1, <2>6, <1>a, <1>q DEF Sound
  <2>7. QED BY <1>6, <2>3, <2>4, <2>5, <2>6 DEF Quarantine
<1>7. CASE Inspect
  <2>1. pc = "inspect" /\ StillOurs /\ mounts' = mounts
    BY <1>7, <1>i DEF Inspect, HandInv, StillOurs
  <2>2. CASE NoFault /\ Done("reconcile", cur) /\ fs' = fs
    BY <2>1, <2>2, <1>b, <1>q DEF Done, Go, Sound
  <2>3. CASE Fault("unlink") /\ Fail(TRUE) /\ fs' = fs
    BY <2>1, <2>3, <1>a, <1>q DEF Sound
  <2>4. QED BY <1>7, <2>1, <2>2, <2>3 DEF Inspect
<1>8. CASE EndReconcile
  <2>1. UNCHANGED <<fs, mounts>> /\ phase' = phase /\ NoFault /\ outcome' = outcome /\ pc' \in {"stores", "prepare"}
    BY <1>8 DEF EndReconcile, disk, Go
  <2>2. QED BY <2>1, <1>b, <1>q DEF Sound
\* The projection loop.
<1>9. CASE CheckStores
  <2>1. CASE NoFault /\ Go("prepare") /\ phase' = phase
    BY <1>9, <2>1, <1>b, <1>q DEF CheckStores, Go, Sound, disk
  <2>2. CASE Fault("stores") /\ Fail(FALSE)
    BY <1>9, <2>2, <1>a, <1>q DEF CheckStores, Sound, disk
  <2>3. QED BY <1>9, <2>1, <2>2 DEF CheckStores
<1>w. ASSUME NEW t \in Targets, NEW l \in Locs
      PROVE  WithParents(t)[l] = fs[l] \/ (WithParents(t)[l].type = "dir" /\ K[l[2]] = "dir" /\ l[2] \in Above(t))
  <2>1. \/ WithParents(t)[l] = fs[l]
        \/ WithParents(t)[l].type = "dir" /\ \E u \in Above(t) : l = Loc(u)
    BY Parents
  <2>2. ASSUME NEW u \in Above(t), l = Loc(u) PROVE K[l[2]] = "dir" /\ l[2] = u
    BY <2>2 DEF OneKind, Loc
  <2>3. QED BY <2>1, <2>2
<1>10. ASSUME NEW e \in todo, Prepare(e) PROVE Sound(K)' /\ OneFaultIsRestored'
  <2> DEFINE makes == e.method = "bind" /\ Node(e.target).type = "absent"
  <2>0. pc = "prepare" /\ e \in Entry /\ e.target \in Targets /\ Fits(K, e) /\ mounts' = mounts
    BY <1>10, <1>e DEF Prepare
  <2>1. /\ fs' = IF makes THEN [WithParents(e.target) EXCEPT ![Loc(e.target)] = Made(e.kind)]
                 ELSE WithParents(e.target)
        /\ pc' = "activate" /\ phase' = phase /\ NoFault /\ outcome' = outcome
        /\ cur' = [e EXCEPT !.placeholder = @ \/ makes]
    BY <1>10 DEF Prepare, Go
  <2> HIDE DEF makes
  <2>2. cur'.target = e.target /\ cur'.method = e.method
    BY <2>0, <2>1 DEF Entry
  <2>w. /\ WithParents(e.target) \in [Locs -> NodeType] /\ Loc(e.target) \in Locs /\ Loc(e.target)[2] = e.target
        /\ Made(e.kind).type = e.kind
    BY <2>0, <1>t, Parents, NodesTyped DEF Loc, Made
  <2>3. \A l \in Locs : \/ fs'[l] = WithParents(e.target)[l] /\ (makes => l # Loc(e.target))
                        \/ makes /\ l = Loc(e.target) /\ fs'[l].type = e.kind
    BY <2>1, <2>w
  <2>4. KindInv(K)'
    <3>1. makes => K[e.target] = e.kind
      BY <2>0 DEF makes, Fits
    <3>2. \A l \in Locs : fs'[l].type = fs[l].type \/ fs'[l].type \in {"absent", K[l[2]]}
      BY <2>0, <2>3, <2>w, <3>1, <1>w
    <3>3. QED BY <2>0, <3>2, <1>k, <1>m
  <2>5. ASSUME NEW u \in Targets
        PROVE  /\ u \in Up => Node(u)' = Node(u) /\ Node(u).type # "absent"
               /\ u \notin Up => Node(u)' = fs'[Loc(u)] /\ Node(u) = fs[Loc(u)]
               /\ Loc(u) \in Locs /\ Loc(u)[2] = u
    <3>1. MountAt(u)' = MountAt(u) /\ Loc(u)' = Loc(u) /\ Loc(u) \in Locs /\ Loc(u)[2] = u
      BY <2>0, <1>t, MountsSame, NodesTyped DEF Loc
    <3>2. Walks(u)
      BY <1>g DEF Geometry
    <3>3. CASE u \in Up
      <4>1. MountAt(u) # {} /\ Node(u).type # "absent"
        BY <3>2, <3>3, <1>n, <1>s DEF Walks, Mounted
      <4>2. QED BY <3>1, <3>3, <4>1 DEF Node, Made
    <3>4. CASE u \notin Up
      <4>1. MountAt(u) = {}
        BY <3>2, <3>4 DEF Walks, Mounted
      <4>2. QED BY <3>1, <3>4, <4>1 DEF Node
    <3>5. QED BY <3>3, <3>4
  <2>6. ASSUME NEW u \in Above(e.target) PROVE Node(u)'.type # "absent"
    <3>0. u \in Targets /\ u # e.target
      BY <2>0, ConstantsOK DEF Above
    <3>1. CASE u \in Up
      BY <3>0, <3>1, <2>5
    <3>2. CASE u \notin Up
      <4>1. Loc(u) # Loc(e.target) /\ Loc(u) \in Locs /\ Node(u)' = fs'[Loc(u)] /\ Node(u) = fs[Loc(u)]
        BY <3>0, <3>2, <2>0, <2>5
      <4>2. fs'[Loc(u)] = WithParents(e.target)[Loc(u)]
        BY <4>1, <2>3
      <4>3. CASE Node(u).type = "absent"
        <5>1. WithParents(e.target)[Loc(u)] = ParentDir
          BY <4>1, <4>3 DEF WithParents
        <5>2. QED BY <4>1, <4>2, <5>1 DEF ParentDir
      <4>4. CASE Node(u).type # "absent"
        <5>1. WithParents(e.target)[Loc(u)] \in {fs[Loc(u)], ParentDir}
          BY <4>1 DEF WithParents
        <5>2. QED BY <4>1, <4>2, <4>4, <5>1 DEF ParentDir
      <4>5. QED BY <4>3, <4>4
    <3>3. QED BY <3>1, <3>2
  <2>7. e.method = "bind" => Node(e.target)'.type # "absent"
    <3>0. SUFFICES ASSUME e.method = "bind" PROVE Node(e.target)'.type # "absent"
      OBVIOUS
    <3>1. CASE e.target \in Up
      BY <3>1, <2>0, <2>5
    <3>2. CASE e.target \notin Up
      <4>1. Node(e.target)' = fs'[Loc(e.target)] /\ Node(e.target) = fs[Loc(e.target)]
        BY <3>2, <2>0, <2>5
      <4>2. CASE makes
        <5>1. fs'[Loc(e.target)].type = e.kind
          BY <4>2, <2>3, <2>w
        <5>2. QED BY <4>1, <5>1, <2>0 DEF Entry, Kinds
      <4>3. CASE ~makes
        <5>1. fs[Loc(e.target)].type # "absent"
          BY <4>1, <4>3, <3>0 DEF makes
        <5>2. fs'[Loc(e.target)] \in {fs[Loc(e.target)], ParentDir}
          BY <4>3, <2>1, <2>w DEF WithParents
        <5>3. QED BY <4>1, <5>1, <5>2 DEF ParentDir
      <4>4. QED BY <4>2, <4>3
    <3>3. QED BY <3>1, <3>2
  <2>8. ReadyInv'
    <3>1. Above(cur.target)' = Above(e.target)
      BY <2>2 DEF Above
    <3>2. ~ParentMissing(cur.target)'
      BY <2>6, <3>1 DEF ParentMissing
    <3>3. Node(cur.target)' = Node(e.target)'
      BY <2>0, <2>2 DEF Node, MountAt, Chain, IsChain, Above, Loc, BaseOf, Innermost
    <3>4. QED BY <2>2, <2>7, <3>2, <3>3 DEF ReadyInv
  <2>9. FaultInv' /\ OneFaultIsRestored'
    BY <2>1, <1>s DEF FaultInv, OneFaultIsRestored, NoFault
  <2>10. QED BY <2>4, <2>8, <2>9 DEF Sound
<1>11. ASSUME NEW e \in todo, PrepareFails(e) PROVE Sound(K)' /\ OneFaultIsRestored'
  <2>0. pc = "prepare" /\ e \in Entry /\ e.target \in Targets /\ Fits(K, e) /\ mounts' = mounts
    BY <1>11, <1>e DEF PrepareFails
  <2>1. Fault("prepare") /\ Fail(FALSE) /\ fs' \in {fs, WithParents(e.target)}
    BY <1>11, <2>0, <1>n DEF PrepareFails
  <2>2. \A l \in Locs : fs'[l].type = fs[l].type \/ fs'[l].type \in {"absent", K[l[2]]}
    BY <2>0, <2>1, <1>w
  <2>3. KindInv(K)'
    BY <2>0, <2>2, <1>k, <1>m
  <2>4. QED BY <2>1, <2>3, <1>a DEF Sound
<1>12. CASE Activate
  <2>0. pc = "activate" /\ pc \in Within /\ cur \in Entry /\ cur.target \in Targets /\ Fits(K, cur)
    BY <1>12, <1>c, <1>t DEF Activate, Within
  <2>1. NoFault /\ phase' = phase /\ outcome' = outcome /\ pc' \in {"prepare", "apply"}
    BY <1>12 DEF Activate, Done, Enter, Activated, Go
  <2>2. KindInv(K)'
    <3>1. CASE UNCHANGED <<fs, mounts>>
      BY <3>1, <1>q
    <3>2. CASE cur.method = "bind" /\ mounts' = mounts \cup {NewMount(cur)} /\ fs' = fs
      <4>1. NewMount(cur).kind = K[NewMount(cur).at]
        BY <3>2, <2>0 DEF NewMount, Fits
      <4>2. \A m \in mounts' : m.kind = K[m.at]
        BY <4>1, <3>2, <1>s DEF KindInv
      <4>3. QED BY <4>2, <3>2, <1>k
    <3>3. CASE /\ cur.method = "symlink" /\ fs' = [fs EXCEPT ![Loc(cur.target)] = LinkTo(cur.source)]
               /\ mounts' = mounts
      <4>1. Loc(cur.target) \in Locs /\ Loc(cur.target)[2] = cur.target /\ K[cur.target] = "link"
        BY <3>3, <2>0, <1>t, NodesTyped DEF Loc, Fits
      <4>2. \A l \in Locs : fs'[l].type = fs[l].type \/ fs'[l].type \in {"absent", K[l[2]]}
        BY <3>3, <4>1, <1>t DEF LinkTo
      <4>3. QED BY <4>2, <3>3, <1>k, <1>m
    <3>4. QED BY <1>12, <3>1, <3>2, <3>3 DEF Activate
  <2>3. QED BY <2>1, <2>2, <1>b DEF Sound
<1>13. CASE ActivateFails
  <2>0. pc = "activate" /\ pc \in Within /\ cur \in Entry /\ cur \in todo /\ cur.target \in Targets /\ Fits(K, cur)
    BY <1>13, <1>c, <1>t DEF ActivateFails, Within
  <2>1. ~ActivateRefused(cur)
    <3>1. CASE cur.method = "bind"
      <4>1. Node(cur.target).type = cur.kind /\ ~OpenFails(cur)
        BY <3>1, <2>0, <1>n, <1>s DEF ReadyInv, Fits
      <4>2. Mounted(cur.target) => MountedFrom(cur.target, cur.source)
        BY <3>1, <2>0, <1>o
      <4>3. QED BY <3>1, <4>1, <4>2 DEF ActivateRefused
    <3>2. CASE cur.method = "symlink"
      <4>1. ~ParentMissing(cur.target)
        BY <2>0, <1>s DEF ReadyInv
      <4>2. ASSUME Node(cur.target).type # "absent" PROVE OwnLink(cur)
        <5>1. Node(cur.target).type = "link" /\ cur.target \notin Up
          BY <4>2, <3>2, <2>0, <1>n DEF Fits
        <5>2. Node(cur.target) = fs[Loc(cur.target)] /\ Loc(cur.target) \in Locs /\ Loc(cur.target)[2] = cur.target
          BY <5>1, <2>0, <1>g, <1>t, NodesTyped DEF Geometry, Walks, Loc
        <5>3. PICK x \in Holding : x.method = "symlink" /\ x.target = cur.target /\ x.source = Node(cur.target).to
          BY <5>1, <5>2, <1>i DEF UpperInv
        <5>4. x.source = cur.source
          <6>1. CASE phase = "switch"
            <7>1. x \in Kept \cup activated /\ cur \in plan /\ activated \subseteq plan
              BY <6>1, <5>3, <2>0, <1>i DEF Holding, Removing, Making, OrderInv, Working
            <7>2. CASE x \in Kept
              BY <7>1, <7>2, <5>3, <2>0, <1>h DEF SameProjection
            <7>3. CASE x \in activated
              BY <7>1, <7>3, <5>3, <2>0, <1>i DEF PlanInv, ValidPlan
            <7>4. QED BY <7>1, <7>2, <7>3
          <6>2. CASE phase # "switch"
            BY <6>2, <5>3, <2>0, <1>i DEF Holding, Removing, Making, OrderInv, Working, PlanInv, ValidPlan
          <6>3. QED BY <6>1, <6>2
        <5>5. QED BY <5>1, <5>3, <5>4, <1>n DEF OwnLink
      <4>3. QED BY <3>2, <4>1, <4>2, <1>n DEF ActivateRefused
    <3>3. QED BY <2>0, <3>1, <3>2 DEF Entry, Methods
  <2>2. PICK k : Fault(k) /\ Fail(FALSE)
    BY <1>13, <2>1 DEF ActivateFails
  <2>3. QED BY <1>13, <2>2, <1>a, <1>q DEF ActivateFails, disk, Sound
<1>14. CASE Apply
  <2>1. NoFault /\ phase' = phase /\ outcome' = outcome /\ pc' = "prepare" /\ fs' = fs
    BY <1>14 DEF Apply, Activated, Go
  <2>2. \A m \in mounts' : m.kind = K[m.at]
    <3>1. ASSUME NEW m \in mounts
          PROVE  [m EXCEPT !.opts = cur.options].kind = m.kind /\ [m EXCEPT !.opts = cur.options].at = m.at
      BY <1>t DEF MountType
    <3>2. ASSUME NEW n \in mounts' PROVE \E m \in mounts : n.kind = m.kind /\ n.at = m.at
      <4>1. PICK m \in mounts : n = IF m \in MountAt(cur.target) THEN [m EXCEPT !.opts = cur.options] ELSE m
        BY <1>14 DEF Apply
      <4>2. QED BY <4>1, <3>1
    <3>3. QED BY <3>2, <1>s DEF KindInv
  <2>3. QED BY <2>1, <2>2, <1>b, <1>k DEF Sound
<1>15. CASE ApplyFails
  <2>0. pc = "apply" /\ pc \in Within /\ cur.target \in Targets /\ MountOf(cur)
    BY <1>15, <1>c, <1>i DEF ApplyFails, Within, HandInv
  <2>1. MountedFrom(cur.target, cur.source)
    BY <2>0, <1>g DEF Geometry, Walks, MountOf, MountedFrom
  <2>2. Fault("apply") /\ Enter("discard", cur) /\ UNCHANGED <<fs, mounts>>
    BY <1>15, <2>1 DEF ApplyFails, disk
  <2>3. spent.faults < MaxFaults /\ spent'.faults = spent.faults + 1
    BY <2>2 DEF Fault, TypeOK, ControlType
  <2>n. spent.faults \in Nat /\ MaxFaults \in Nat /\ MaxFaults <= 1
    BY <1>t
  <2>p. phase # "switch" => spent.faults >= MaxFaults
    BY <1>s DEF FaultInv
  <2>4. phase = "switch" /\ spent'.faults >= MaxFaults
    BY <2>3, <2>n, <2>p
  <2>5. pc' = "discard" /\ phase' = phase /\ outcome' = outcome
    BY <2>2 DEF Enter, Go
  <2>6. QED BY <2>2, <2>4, <2>5, <1>q DEF Sound, FaultInv, ReadyInv, OneFaultIsRestored
<1>16. CASE EndProject
  <2>1. CASE Go("write") /\ UNCHANGED memory
    BY <1>16, <2>1, <1>b, <1>q DEF EndProject, Go, memory, disk, Sound
  <2>2. CASE End("restored")
    BY <1>16, <2>2, <1>d, <1>q DEF EndProject, disk, Sound
  <2>3. QED BY <1>16, <2>1, <2>2 DEF EndProject
<1>17. CASE WriteState
  <2>1. CASE End("ok")
    BY <1>17, <2>1, <1>d, <1>q DEF WriteState, Sound
  <2>2. CASE Fault("write") /\ Fail(FALSE)
    BY <1>17, <2>2, <1>a, <1>q DEF WriteState, Sound
  <2>3. QED BY <1>17, <2>1, <2>2 DEF WriteState
\* The rest.
<1>18. CASE Run
  <2>1. /\ UNCHANGED <<fs, mounts>> /\ pc' \in {"idle", "reconcile"} /\ phase' \in {"switch", phase}
        /\ spent'.faults = spent.faults /\ outcome'.how # "lost"
    BY <1>18 DEF Run, Start, Refuse, disk, memory, TypeOK, ControlType
  <2>2. FaultInv' /\ ReadyInv' /\ OneFaultIsRestored'
    BY <2>1, <1>s DEF FaultInv, ReadyInv, OneFaultIsRestored
  <2>3. QED BY <2>1, <2>2, <1>q DEF Sound
<1>19. CASE UNCHANGED vars
  <2>1. UNCHANGED <<fs, mounts, pc, phase, cur, outcome, spent>>
    BY <1>19 DEF vars, memory
  <2>2. FaultInv' /\ OneFaultIsRestored'
    BY <2>1, <1>s DEF FaultInv, OneFaultIsRestored
  <2>3. ASSUME NEW u PROVE Node(u)' = Node(u)
    <3>1. MountAt(u)' = MountAt(u) /\ fs'[Loc(u)'] = fs[Loc(u)]
      BY <2>1, MountsSame
    <3>2. QED BY <3>1 DEF Node, Made
  <2>4. ReadyInv'
    BY <2>1, <2>3, <1>s DEF ReadyInv, ParentMissing, Above
  <2>5. QED BY <2>1, <2>2, <2>4, <1>q DEF Sound
<1>20. ~Environment
  BY Calm
<1>21. QED
  BY <1>1, <1>2, <1>3, <1>4, <1>5, <1>6, <1>7, <1>8, <1>9, <1>10, <1>11, <1>12, <1>13, <1>14, <1>15,
     <1>16, <1>17, <1>18, <1>19, <1>20 DEF Next, Step, Remove, Project

\* At first what is there has the kind of its path.
LEMMA SoundInit ==
  ASSUME NEW K, OneKind(K), Init
  PROVE  Sound(K) /\ OneFaultIsRestored
<1>1. PICK N \in InitialNodes :
        fs = [l \in Locs |-> IF \E k \in Kinds : <<l, k>> \in N
                             THEN UserData(CHOOSE k \in Kinds : <<l, k>> \in N)
                             ELSE NoNode]
  BY DEF Init
<1>2. /\ mounts = {} /\ pc = "idle" /\ phase = "switch" /\ outcome.how = "none"
  BY DEF Init
<1>3. ASSUME NEW l \in Locs PROVE fs[l].type \in {"absent", K[l[2]]}
  <2>1. CASE \E k \in Kinds : <<l, k>> \in N
    <3>1. PICK k \in Kinds : fs[l] = UserData(k) /\ <<l, k>> \in N
      BY <2>1, <1>1
    <3>2. <<l, k>> \in Preexisting
      BY <3>1 DEF InitialNodes
    <3>3. k = K[l[2]]
      BY <3>2 DEF OneKind
    <3>4. QED BY <3>1, <3>3 DEF UserData
  <2>2. CASE ~(\E k \in Kinds : <<l, k>> \in N)
    BY <2>2, <1>1 DEF NoNode
  <2>3. QED BY <2>1, <2>2
<1>4. QED BY <1>2, <1>3 DEF Sound, KindInv, ReadyInv, FaultInv, OneFaultIsRestored

\* So what is in place is in order throughout, whatever single call fails.
LEMMA SoundKept ==
  ASSUME Undisturbed, MaxFaults <= 1, NEW K, OneKind(K)
  PROVE  Spec => [](Atomic /\ Sound(K) /\ OneFaultIsRestored)
<1>1. Init => Sound(K) /\ OneFaultIsRestored
  BY SoundInit
<1>2. BindsTakenBack
  BY DEF BindsTakenBack
<1>3. TypeOK /\ TypeOK' /\ Atomic /\ Sound(K) /\ OneFaultIsRestored /\ [Next]_vars
        => Atomic' /\ Sound(K)' /\ OneFaultIsRestored'
  <2> SUFFICES ASSUME TypeOK, TypeOK', Atomic, Sound(K), OneFaultIsRestored, [Next]_vars
               PROVE  Atomic' /\ Sound(K)' /\ OneFaultIsRestored'
    OBVIOUS
  <2>1. Whole
    BY DEF Atomic, Hopeless, Sound, FaultInv
  <2>2. Sound(K)' /\ OneFaultIsRestored'
    BY <2>1, SoundStep
  <2>3. QED BY <2>2, <1>2, AtomicStep
<1>4. QED BY <1>1, <1>3, AtomicInit, TypeCorrect, PTL DEF Spec

\* A single failing call never costs the recorded projections: if every path keeps to one
\* kind, the failure path of run, which then meets no second fault, succeeds.
THEOREM OneFaultSafe ==
  ASSUME Undisturbed, MaxFaults <= 1, NEW K, OneKind(K)
  PROVE  Spec => []OneFaultIsRestored
BY SoundKept, PTL

\* So with a single failing call nothing is left to assume of the runs: each ends in the plan
\* it was given or in the recorded one, and no unmount meets a projection inside.
THEOREM OneFaultSwitchSafe ==
  ASSUME Undisturbed, MaxFaults <= 1, NEW K, OneKind(K)
  PROVE  Spec => [](PlanOrRecorded /\ NeverBusyOfItself)
<1>1. BindsTakenBack
  BY DEF BindsTakenBack
<1>2. QED BY <1>1, OneFaultSafe, SwitchSafe, NotBusySafe, PTL
----------------------------------------------------------------------------
(* No bind target is left behind.                                           *)

\* A bind target that the utility has made and not taken away yet.
Core(l) == fs[l].by = "core" /\ fs[l].type # "link"

\* An entry says so: one whose mount covers it, or the entry in hand.
Owned(t)  == t \in Up /\ \E e \in Holding : e.method = "bind" /\ e.placeholder /\ e.target = t
InHand(t) == /\ pc \in {"unlink", "activate", "apply", "discard", "discard unlink"}
             /\ pc = "activate" => t \notin Up
             /\ cur.method = "bind" /\ cur.placeholder /\ cur.target = t

\* Each is where its path leads, empty, and has such an entry: so that the removal of the
\* entry removes it.
OwnedInv == \A l \in Locs : Core(l) => /\ l = Loc(l[2]) /\ fs[l].type # "absent" /\ ~HasChildren(l)
                                       /\ Owned(l[2]) \/ InHand(l[2])

\* A bind that says that it found its target stands on something the utility did not make.
Stands(l) == fs[l].type # "absent" /\ ~Core(l)
Firm(e)   == e.method = "bind" /\ ~e.placeholder => Stands(Loc(e.target))
StandInv ==
  /\ \A e \in Holding : e.target \in Up => Firm(e)
  /\ Making /\ phase = "switch" => \A e \in plan \ todo : Firm(e)
  /\ pc \in {"activate", "apply"} => Firm(cur)

\* The filesystem that a path is in once the binds of es are mounted.
IsBase(es, t, b) ==
  \/ b = Root /\ \A f \in es : f.method = "bind" => f.target \notin Above(t)
  \/ \E f \in es : /\ f.method = "bind" /\ f.target \in Above(t) /\ b = f.source
                   /\ \A g \in es : g.method = "bind" /\ g.target \in Above(t)
                                      => g = f \/ g.target \in Above(f.target)

\* So do the recorded ones, mounted or not: nothing has to be made to mount them again.
PastInv == pc # "idle" =>
  /\ previous = state
  /\ \A e \in previous, b \in Bases :
       e.method = "bind" /\ ~e.placeholder /\ IsBase(previous, e.target, b) => Stands(<<b, e.target>>)

\* What the plan has from the recorded entries, it has with their flags.
FlagInv == pc # "idle" /\ phase = "switch" =>
  \A o \in Kept : o.placeholder => \E e \in plan : e.target = o.target /\ e.placeholder

\* A flag comes from a recorded entry, or with a bind target made by this run.
FreshInv == pc # "idle" =>
  \A a \in plan : (phase = "switch" \/ (Removing /\ a \in todo)) /\ a.placeholder =>
    \/ \E o \in previous : o.placeholder /\ o.target = a.target
    \/ (phase = "restore" \/ Making) /\ \E l \in Locs : Core(l) /\ l[2] = a.target

\* Paths lie in directories, as far as the plans lead into a filesystem.
Homed(b, u) == b = Root \/ \E e \in UNION Plans : e.method = "bind" /\ e.source = b /\ e.target \in Above(u)
TreeInv == \A l \in Locs : fs[l].type # "absent" =>
             \A u \in Above(l[2]) : Homed(l[1], u) => fs[<<l[1], u>>].type # "absent"

Cared == OwnedInv /\ StandInv /\ PastInv /\ FlagInv /\ FreshInv /\ TreeInv /\ IsFiniteSet(Up)

\* A source is bound at one path only: what lies in it has the same place in every plan.
OneHome == \A e, f \in UNION Plans : e.method = "bind" /\ f.method = "bind" /\ e.source = f.source
                                       => e.target = f.target
----------------------------------------------------------------------------
\* What is above a path.
Rooted == \A u \in Targets : \A v \in Above(u) :
            v \in Targets /\ Above(v) \subseteq Above(u) /\ v \notin Above(v) /\ u \notin Above(v) /\ u # v
LEMMA Nesting == Rooted
BY ConstantsOK DEF Rooted, Above

\* Of finitely many targets above a path one is the deepest.
LEMMA DeepestOne ==
  ASSUME NEW t \in Targets, NEW S \in SUBSET Above(t), IsFiniteSet(S), S # {}
  PROVE  \E v \in S : \A u \in S : u = v \/ u \in Above(v)
<1> DEFINE Up2(v) == S \cap Above(v)
           F == {S \ Up2(v) : v \in S}
<1>1. F \subseteq FiniteSubsetsOf(S) /\ F # {}
  <2>1. \A v \in S : IsFiniteSet(S \ Up2(v)) /\ S \ Up2(v) \in SUBSET S
    BY FS_Subset
  <2> HIDE DEF Up2
  <2>2. QED BY <2>1 DEF FiniteSubsetsOf
<1>2. PICK x \in F : \A y \in F : <<y, x>> \notin StrictSubsetOrdering(S)
  <2> HIDE DEF F
  <2>1. QED BY <1>1, WFMin, FS_StrictSubsetOrderingWellFounded
<1>3. PICK v \in S : x = S \ Up2(v)
  OBVIOUS
<1>4. ASSUME NEW u \in S PROVE u = v \/ u \in Above(v)
  <2>1. ASSUME v \in Above(u) PROVE FALSE
    <3>1. u \in Targets /\ v \in Targets /\ Above(v) \subseteq Above(u) /\ v \notin Above(v)
      BY <2>1, ConstantsOK DEF Above
    <3>2. S \ Up2(u) \subseteq S \ Up2(v) /\ v \in S \ Up2(v) /\ v \notin S \ Up2(u)
      BY <2>1, <3>1
    <3>3. S \ Up2(u) \in F /\ S \ Up2(u) \in SUBSET S /\ S \ Up2(v) \in SUBSET S
      OBVIOUS
    <3>4. <<S \ Up2(u), S \ Up2(v)>> \in StrictSubsetOrdering(S)
      <4> HIDE DEF Up2
      <4>1. QED BY <3>2, <3>3 DEF StrictSubsetOrdering
    <3>5. QED BY <1>2, <1>3, <3>3, <3>4
  <2>2. QED BY <2>1, ConstantsOK DEF Above
<1>5. QED BY <1>4

\* The filesystem a path is in is that of the innermost mount above it.
LEMMA Innermosts ==
  ASSUME TypeOK, NestInv, IsFiniteSet(Up), NEW t \in Targets
  PROVE  \/ Up \cap Above(t) = {} /\ BaseOf(t) = Root
         \/ \E m \in mounts : /\ m.at \in Above(t) /\ BaseOf(t) = m.src
                              /\ \A u \in Up \cap Above(t) : u = m.at \/ u \in Above(m.at)
<1>g. Walks(t)
  BY NestedWalks DEF Geometry
<1>1. CASE Up \cap Above(t) = {}
  <2>1. Chain(t) = {}
    BY <1>1, <1>g DEF Walks
  <2>2. Innermost(t) = {}
    BY <2>1 DEF Innermost
  <2>3. QED BY <1>1, <2>2 DEF BaseOf
<1>2. CASE Up \cap Above(t) # {}
  <2>1. IsFiniteSet(Up \cap Above(t))
    <3>1. Up \cap Above(t) \in SUBSET Up
      OBVIOUS
    <3>2. QED BY <3>1, FS_Subset
  <2>2. PICK v \in Up \cap Above(t) : \A u \in Up \cap Above(t) : u = v \/ u \in Above(v)
    <3>1. Up \cap Above(t) \in SUBSET Above(t)
      OBVIOUS
    <3>2. QED BY <1>2, <2>1, <3>1, DeepestOne
  <2>3. PICK m \in mounts : m.at = v
    BY DEF Up
  <2>4. Above(v) \subseteq Above(t) /\ v \notin Above(v)
    BY ConstantsOK DEF Above
  <2>5. m.under = (Up \cap Above(t)) \ {v}
    BY <2>2, <2>3, <2>4 DEF NestInv
  <2>6. m \in Innermost(t)
    BY <2>3, <2>5, <1>g DEF Innermost, Walks
  <2>7. QED BY <2>2, <2>3, <2>6, <1>g DEF Walks
<1>3. QED BY <1>1, <1>2

\* Whatever is mounted is mounted as one of the plans says.
LEMMA Homes ==
  ASSUME TypeOK, Whole, NEW m \in mounts
  PROVE  \E e \in UNION Plans : e.method = "bind" /\ e.source = m.src /\ e.target = m.at
<1>t. /\ previous \subseteq Entry /\ plan \subseteq Entry /\ todo \subseteq Entry /\ state \subseteq Entry
      /\ Holding \subseteq Entry
  BY Held DEF TypeOK, DiskType, MemoryType
<1>i. UpperInv /\ OrderInv /\ HandInv /\ PlanInv
  BY DEF Whole
<1>1. ASSUME NEW es \in SUBSET Entry, Bare(es) \in Plans \cup {{}}, NEW e \in es
      PROVE  \E f \in UNION Plans : f.method = e.method /\ f.source = e.source /\ f.target = e.target
  <2> DEFINE f == [e EXCEPT !.placeholder = FALSE]
  <2>1. f \in UNION Plans
    BY <1>1 DEF Bare
  <2>2. f.method = e.method /\ f.source = e.source /\ f.target = e.target
    BY DEF Entry
  <2>3. QED BY <2>1, <2>2
<1>2. RemovalOrder(previous, plan) \subseteq previous
  BY DEF RemovalOrder, StaleEntries
<1>3. Holding \subseteq (IF pc = "idle" THEN state ELSE previous \cup plan)
  <2>1. CASE pc = "idle"
    BY <2>1 DEF Holding
  <2>2. CASE pc # "idle" /\ Removing
    BY <2>2, <1>2, <1>i DEF Holding, Kept, OrderInv
  <2>3. CASE pc # "idle" /\ ~Removing
    BY <2>3, <1>i DEF Holding, Kept, OrderInv
  <2>4. QED BY <2>1, <2>2, <2>3
<1>4. pc \in {"apply", "discard"} => cur \in previous \cup plan /\ cur.method = "bind"
  BY <1>i DEF HandInv, OrderInv, Within, Making, Working
<1>5. PICK e \in (IF pc = "idle" THEN state ELSE previous \cup plan) :
        e.method = "bind" /\ e.target = m.at /\ e.source = m.src
  BY <1>3, <1>4, <1>i DEF UpperInv
<1>6. QED BY <1>1, <1>5, <1>i, <1>t DEF PlanInv

\* The filesystem a path is in is at home there, and in what lies on the way to the path
\* in the same filesystem.
LEMMA SameHome ==
  ASSUME TypeOK, Whole, OneHome, IsFiniteSet(Up), NEW t \in Targets
  PROVE  /\ Homed(BaseOf(t), t)
         /\ \A v \in Above(t) : Homed(BaseOf(t), v) => v \notin Up /\ Loc(v) = <<BaseOf(t), v>>
         /\ \A v \in Up \cap Above(t) : BaseOf(v) # BaseOf(t)
<1>i. NestInv /\ mounts \subseteq MountType
  BY DEF Whole, TypeOK, DiskType
<1>o. Rooted
  BY Nesting
<1>1. CASE Up \cap Above(t) = {} /\ BaseOf(t) = Root
  <2>1. ASSUME NEW v \in Above(t) PROVE v \notin Up /\ Loc(v) = <<BaseOf(t), v>>
    <3>1. Up \cap Above(v) = {} /\ v \in Targets
      BY <1>1, <1>o DEF Rooted
    <3>2. BaseOf(v) = Root
      BY <3>1, <1>i, Innermosts DEF Up
    <3>3. QED BY <1>1, <3>2 DEF Loc
  <2>2. QED BY <1>1, <2>1 DEF Homed
<1>2. ASSUME NEW m \in mounts, m.at \in Above(t), BaseOf(t) = m.src,
             \A u \in Up \cap Above(t) : u = m.at \/ u \in Above(m.at)
      PROVE  /\ Homed(BaseOf(t), t)
             /\ \A v \in Above(t) : Homed(BaseOf(t), v) => v \notin Up /\ Loc(v) = <<BaseOf(t), v>>
             /\ \A v \in Up \cap Above(t) : BaseOf(v) # BaseOf(t)
  <2>1. PICK e \in UNION Plans : e.method = "bind" /\ e.source = m.src /\ e.target = m.at
    BY Homes
  <2>2. m.src \in Sources /\ m.src # Root
    <3>1. e \in Entry
      BY ConstantsOK
    <3>2. QED BY <3>1, <2>1, ConstantsOK DEF Entry
  <2>3. Homed(BaseOf(t), t)
    BY <1>2, <2>1 DEF Homed
  <2>4. ASSUME NEW v \in Above(t), Homed(m.src, v) PROVE v \notin Up /\ BaseOf(v) = m.src
    <3>1. m.at \in Above(v) /\ v \in Targets
      <4>1. PICK f \in UNION Plans : f.method = "bind" /\ f.source = m.src /\ f.target \in Above(v)
        BY <2>2, <2>4 DEF Homed
      <4>2. f.target = m.at
        BY <4>1, <2>1 DEF OneHome
      <4>3. QED BY <4>1, <4>2, <1>o DEF Rooted
    <3>2. v \notin Up
      BY <3>1, <1>2, <1>o DEF Rooted
    <3>3. PICK n \in mounts : /\ n.at \in Above(v) /\ BaseOf(v) = n.src
                              /\ \A u \in Up \cap Above(v) : u = n.at \/ u \in Above(n.at)
      <4>1. m.at \in Up \cap Above(v)
        BY <3>1 DEF Up
      <4>2. QED BY <3>1, <4>1, <1>i, Innermosts
    <3>4. m.at = n.at \/ m.at \in Above(n.at)
      BY <3>1, <3>3 DEF Up
    <3>5. n.at = m.at \/ n.at \in Above(m.at)
      <4>1. n.at \in Up \cap Above(t)
        BY <3>3, <1>o DEF Rooted, Up
      <4>2. QED BY <4>1, <1>2
    <3>6. n.at = m.at
      <4>1. n.at \in Targets /\ m.at \in Targets
        BY <1>i DEF MountType
      <4>2. QED BY <4>1, <3>4, <3>5, <1>o DEF Rooted
    <3>7. QED BY <3>2, <3>3, <3>6, <1>i DEF NestInv
  <2>5. ASSUME NEW v \in Up \cap Above(t), BaseOf(v) = m.src PROVE FALSE
    <3>0. v \in Targets
      BY <1>o DEF Rooted
    <3>1. PICK n \in mounts : n.at \in Above(v) /\ n.src = m.src
      BY <3>0, <2>2, <2>5, <1>i, Innermosts
    <3>2. PICK f \in UNION Plans : f.method = "bind" /\ f.source = n.src /\ f.target = n.at
      BY Homes
    <3>3. n.at = m.at
      BY <3>1, <3>2, <2>1 DEF OneHome
    <3>4. v = m.at \/ v \in Above(m.at)
      BY <1>2
    <3>5. m.at \in Targets
      BY <1>i DEF MountType
    <3>6. QED BY <3>0, <3>1, <3>3, <3>4, <3>5, <1>o DEF Rooted
  <2>6. QED BY <1>2, <2>3, <2>4, <2>5 DEF Loc
<1>3. QED BY <1>1, <1>2, <1>i, Innermosts

\* Where the binds of es above a path are mounted, and nothing else is, the filesystem of the
\* path is that of es; and es has one.
LEMMA FixedBase ==
  ASSUME TypeOK, NestInv, IsFiniteSet(Up), NEW t \in Targets, NEW es \in SUBSET Entry,
         \A e \in es : e.method = "bind" /\ e.target \in Above(t) => MountOf(e),
         \A m \in mounts : m.at \in Above(t) =>
           \E e \in es : e.method = "bind" /\ e.target = m.at /\ e.source = m.src,
         \A e, f \in es : e.target = f.target => e = f
  PROVE  \A b : IsBase(es, t, b) <=> b = BaseOf(t)
<1>o. Rooted
  BY Nesting
<1>1. ASSUME NEW e \in es, e.method = "bind", e.target \in Above(t) PROVE e.target \in Up
  BY <1>1 DEF MountOf, Up
<1>2. ASSUME NEW b, NEW c, IsBase(es, t, b), IsBase(es, t, c) PROVE b = c
  <2>1. CASE \A f \in es : f.method = "bind" => f.target \notin Above(t)
    BY <1>2, <2>1 DEF IsBase
  <2>2. CASE ~(\A f \in es : f.method = "bind" => f.target \notin Above(t))
    <3>1. PICK f \in es : /\ f.method = "bind" /\ f.target \in Above(t) /\ b = f.source
                          /\ \A g \in es : g.method = "bind" /\ g.target \in Above(t)
                                             => g = f \/ g.target \in Above(f.target)
      BY <1>2, <2>2 DEF IsBase
    <3>2. PICK h \in es : /\ h.method = "bind" /\ h.target \in Above(t) /\ c = h.source
                          /\ \A g \in es : g.method = "bind" /\ g.target \in Above(t)
                                             => g = h \/ g.target \in Above(h.target)
      BY <1>2, <2>2 DEF IsBase
    <3>3. h = f \/ (h.target \in Above(f.target) /\ f.target \in Above(h.target))
      BY <3>1, <3>2
    <3>4. h = f
      BY <3>1, <3>2, <3>3, <1>o DEF Rooted
    <3>5. QED BY <3>1, <3>2, <3>4
  <2>3. QED BY <2>1, <2>2
<1>3. IsBase(es, t, BaseOf(t))
  <2>1. CASE Up \cap Above(t) = {} /\ BaseOf(t) = Root
    BY <2>1, <1>1 DEF IsBase
  <2>2. ASSUME NEW m \in mounts, m.at \in Above(t), BaseOf(t) = m.src,
               \A u \in Up \cap Above(t) : u = m.at \/ u \in Above(m.at)
        PROVE  IsBase(es, t, BaseOf(t))
    <3>1. PICK f \in es : f.method = "bind" /\ f.target = m.at /\ f.source = m.src
      BY <2>2
    <3>2. ASSUME NEW g \in es, g.method = "bind", g.target \in Above(t)
          PROVE  g = f \/ g.target \in Above(f.target)
      BY <2>2, <3>1, <3>2, <1>1
    <3>3. QED BY <2>2, <3>1, <3>2 DEF IsBase
  <2>3. QED BY <2>1, <2>2, Innermosts
<1>4. QED BY <1>2, <1>3

\* On the way to a path directories may be made, and at its end a node: nothing comes to lie
\* in a bind target that is covered.
LEMMA Grows ==
  ASSUME TypeOK, Whole, OneHome, IsFiniteSet(Up), TreeInv, NEW t \in Targets, mounts' = mounts,
         \A l \in Locs : fs'[l] = fs[l] \/ (fs[l].type = "absent" /\ \E u \in Above(t) \cup {t} : l = Loc(u)),
         \A u \in Above(t) : u \notin Up => fs'[Loc(u)].type # "absent"
  PROVE  /\ TreeInv'
         /\ \A l \in Locs : l = Loc(l[2]) /\ l[2] \in Up /\ ~HasChildren(l) => ~HasChildren(l)'
<1>o. Rooted
  BY Nesting
<1>l. mounts \subseteq MountType /\ \A u \in Targets : Loc(u) \in Locs /\ Loc(u)[1] = BaseOf(u) /\ Loc(u)[2] = u
  BY NodesTyped DEF TypeOK, DiskType, Loc
<1>p. \A l \in Locs : l[1] \in Bases /\ l[2] \in Targets /\ l = <<l[1], l[2]>>
  BY DEF Locs
<1>1. ASSUME NEW l \in Locs, fs'[l].type # "absent", NEW u \in Above(l[2]), Homed(l[1], u)
      PROVE  fs'[<<l[1], u>>].type # "absent"
  <2>0. <<l[1], u>> \in Locs
    BY <1>o, <1>p DEF Rooted, Locs
  <2>1. CASE fs[l].type # "absent"
    <3>1. fs[<<l[1], u>>].type # "absent"
      BY <1>1, <2>1 DEF TreeInv
    <3>2. QED BY <2>0, <3>1
  <2>2. CASE fs[l].type = "absent"
    <3>1. PICK w \in Above(t) \cup {t} : l = Loc(w)
      BY <1>1, <2>2
    <3>2. w \in Targets /\ l[1] = BaseOf(w) /\ l[2] = w /\ u \in Above(t)
      BY <3>1, <1>1, <1>o, <1>l DEF Rooted
    <3>3. u \notin Up /\ Loc(u) = <<l[1], u>>
      BY <1>1, <3>2, SameHome
    <3>4. QED BY <3>2, <3>3
  <2>3. QED BY <2>1, <2>2
<1>2. TreeInv'
  BY <1>1 DEF TreeInv, Homed, Above
<1>3. ASSUME NEW l \in Locs, l = Loc(l[2]), l[2] \in Up, ~HasChildren(l),
             NEW u \in Targets, <<u, l[2]>> \in Below, fs'[<<l[1], u>>].type # "absent"
      PROVE  FALSE
  <2>0. <<l[1], u>> \in Locs /\ l[2] \in Above(u) /\ l[1] = BaseOf(l[2])
    BY <1>3, <1>p, <1>l DEF Locs, Above
  <2>1. fs[<<l[1], u>>].type = "absent"
    BY <1>3 DEF HasChildren
  <2>2. PICK w \in Above(t) \cup {t} : <<l[1], u>> = Loc(w)
    BY <1>3, <2>0, <2>1
  <2>3. BaseOf(u) = BaseOf(l[2])
    BY <2>0, <2>2, <1>o, <1>l DEF Rooted, Loc
  <2>4. QED BY <1>3, <2>0, <2>3, SameHome
<1>4. QED BY <1>2, <1>3 DEF HasChildren

\* What a step does to the disk while nothing is mounted or unmounted ...
Tidy ==
  /\ mounts' = mounts /\ state' = state
  /\ \A l \in Locs : Core(l)' => /\ Core(l) /\ fs'[l].type # "absent" /\ ~HasChildren(l)'
                                 /\ Owned(l[2]) \/ InHand(l[2])'
  /\ \A l \in Locs : l[2] \in Up /\ Stands(l) => Stands(l)'
  /\ \A e \in previous, b \in Bases :
       e.method = "bind" /\ ~e.placeholder /\ Stands(<<b, e.target>>) => Stands(<<b, e.target>>)'
  /\ \A a \in plan, l \in Locs :
       (phase = "restore" \/ Making) /\ (phase' = "switch" \/ a \in todo') /\ Core(l) /\ l[2] = a.target
         => Core(l)'
  /\ TreeInv'

\* ... and in memory.
Moves ==
  /\ pc # "idle" /\ pc' \notin {"idle", "activate", "apply"} /\ UNCHANGED <<previous, plan>>
  /\ \A x : x.method = "bind" /\ x.target \in Up => (x \in Holding <=> x \in Holding')
  /\ Making' /\ phase' = "switch" =>
       \A e \in plan \ todo' : e.method = "bind" =>
         e.target \in Up /\ ((Making /\ phase = "switch" /\ e \notin todo) \/ Firm(e))
  /\ phase' = "switch" => phase = "switch"
  /\ \A a \in plan : Removing' /\ a \in todo' => phase = "switch" \/ (Removing /\ a \in todo)
  /\ phase = "restore" \/ Making => phase' = "restore" \/ Making'

\* The two together keep the bind targets in care.
LEMMA CareKept ==
  ASSUME TypeOK, TypeOK', Whole, Cared, Tidy, Moves
  PROVE  Cared'
<1>t. /\ mounts \subseteq MountType /\ plan \subseteq Entry /\ Holding \subseteq Entry
      /\ \A u \in Targets : Loc(u) \in Locs /\ Loc(u)[2] = u
  BY Held, NodesTyped DEF TypeOK, DiskType, MemoryType, Loc
<1>i. OwnedInv /\ StandInv /\ PastInv /\ FlagInv /\ FreshInv /\ TreeInv /\ IsFiniteSet(Up)
  BY DEF Cared
<1>d. UNCHANGED <<mounts, state, previous, plan>> /\ pc # "idle" /\ pc' \notin {"idle", "activate", "apply"}
  BY DEF Tidy, Moves
<1>m. Up' = Up /\ \A t : Loc(t)' = Loc(t)
  BY <1>d, MountsSame DEF Up
<1>k. Kept' = Kept
  BY <1>d DEF Kept
<1>1. OwnedInv'
  <2> SUFFICES ASSUME NEW l \in Locs, Core(l)'
               PROVE  /\ l = Loc(l[2])' /\ fs'[l].type # "absent" /\ ~HasChildren(l)'
                      /\ Owned(l[2])' \/ InHand(l[2])'
    BY DEF OwnedInv
  <2>1. /\ Core(l) /\ fs'[l].type # "absent" /\ ~HasChildren(l)'
        /\ Owned(l[2]) \/ InHand(l[2])'
    BY DEF Tidy
  <2>2. l = Loc(l[2])'
    BY <2>1, <1>i, <1>m DEF OwnedInv
  <2>3. Owned(l[2]) => Owned(l[2])'
    BY <1>m DEF Owned, Moves
  <2>4. QED BY <2>1, <2>2, <2>3
<1>2. ASSUME NEW e \in Entry, e.method = "bind" => e.target \in Up, Firm(e) PROVE Firm(e)'
  <2>1. ASSUME e.method = "bind", ~e.placeholder PROVE Stands(Loc(e.target))'
    <3>1. Stands(Loc(e.target)) /\ Loc(e.target) \in Locs /\ Loc(e.target)[2] \in Up
      BY <1>2, <2>1, <1>t DEF Firm, Entry
    <3>2. PICK l \in Locs : l = Loc(e.target)
      BY <3>1
    <3>3. Stands(l)'
      BY <3>1, <3>2 DEF Tidy
    <3>4. Loc(e.target)' = l
      BY <3>2, <1>m
    <3>5. QED BY <3>3, <3>4 DEF Stands, Core
  <2>2. QED BY <2>1 DEF Firm
<1>3. StandInv'
  <2>1. ASSUME NEW e \in Holding', e.target \in Up' PROVE Firm(e)'
    <3>1. CASE e.method # "bind"
      BY <3>1 DEF Firm
    <3>2. CASE e.method = "bind"
      <4>1. e \in Holding /\ e.target \in Up
        BY <2>1, <3>2, <1>m DEF Moves
      <4>2. QED BY <4>1, <1>2, <1>i, <1>t DEF StandInv
    <3>3. QED BY <3>1, <3>2
  <2>2. ASSUME Making', phase' = "switch", NEW e \in plan \ todo' PROVE Firm(e)'
    <3>1. CASE e.method # "bind"
      BY <3>1 DEF Firm
    <3>2. CASE e.method = "bind"
      <4>1. e.target \in Up /\ Firm(e)
        BY <2>2, <3>2, <1>i DEF Moves, StandInv
      <4>2. QED BY <4>1, <1>2, <1>t
    <3>3. QED BY <3>1, <3>2
  <2>3. QED BY <2>1, <2>2, <1>d DEF StandInv
<1>4. PastInv'
  <2>1. previous = state /\ \A e \in previous, b \in Bases :
          e.method = "bind" /\ ~e.placeholder /\ IsBase(previous, e.target, b) => Stands(<<b, e.target>>)'
    BY <1>d, <1>i DEF PastInv, Tidy
  <2>2. \A e, b : IsBase(previous, e.target, b)' <=> IsBase(previous, e.target, b)
    BY <1>d DEF IsBase, Above
  <2>3. UNCHANGED <<previous, state>>
    BY <1>d
  <2>4. QED BY <2>1, <2>2, <2>3 DEF PastInv
<1>5. FlagInv'
  BY <1>d, <1>k, <1>i DEF FlagInv, Moves
<1>6. FreshInv'
  <2>1. ASSUME NEW a \in plan, phase' = "switch" \/ (Removing' /\ a \in todo'), a.placeholder
        PROVE  \/ \E o \in previous : o.placeholder /\ o.target = a.target
               \/ (phase' = "restore" \/ Making') /\ \E l \in Locs : Core(l)' /\ l[2] = a.target
    <3>1. phase = "switch" \/ (Removing /\ a \in todo)
      BY <2>1 DEF Moves
    <3>2. CASE \E o \in previous : o.placeholder /\ o.target = a.target
      BY <3>2
    <3>3. CASE (phase = "restore" \/ Making) /\ \E l \in Locs : Core(l) /\ l[2] = a.target
      BY <2>1, <3>3 DEF Tidy, Moves
    <3>4. QED BY <2>1, <3>1, <3>2, <3>3, <1>d, <1>i DEF FreshInv
  <2>2. QED BY <2>1, <1>d DEF FreshInv
<1>7. QED BY <1>1, <1>3, <1>4, <1>5, <1>6, <1>m, <1>i DEF Cared, Tidy

\* A step that only moves on in memory.
LEMMA StillTidy ==
  ASSUME OwnedInv, TreeInv, UNCHANGED <<fs, mounts, state>>, \A t : InHand(t) => InHand(t)'
  PROVE  Tidy
BY DEF OwnedInv, TreeInv, Tidy, Core, HasChildren, Stands, Homed, Above

\* What is bound and done is mounted.
LEMMA DoneIsUp ==
  ASSUME TypeOK, Whole, Making
  PROVE  \A e \in Working \ todo : e.method = "bind" => e.target \in Up
<1>1. ASSUME NEW e \in Working \ todo, e.method = "bind" PROVE e.target \in Up
  <2>1. Projected(e)
    BY <1>1 DEF Whole, LowerInv
  <2>2. QED BY <1>1, <2>1 DEF Projected, MountAt, Up
<1>2. QED BY <1>1

\* A step that only changes the place in the loop.
LEMMA StayMoves ==
  ASSUME TypeOK, Whole, pc # "idle", pc' \notin {"idle", "activate", "apply"},
         UNCHANGED <<phase, previous, plan, todo, activated>>, Removing' <=> Removing, Making' <=> Making
  PROVE  Moves
<1>1. Kept' = Kept
  BY DEF Kept
<1>2. \A x : x \in Holding <=> x \in Holding'
  BY <1>1 DEF Holding
<1>3. Making /\ phase = "switch" => \A e \in plan \ todo : e.method = "bind" => e.target \in Up
  BY DoneIsUp DEF Working
<1>4. QED BY <1>2, <1>3 DEF Moves

\* Of the recorded entries at one path one is held, if something is mounted there.
LEMMA HeldIsPast ==
  ASSUME TypeOK, Whole, pc # "idle", pc \notin {"apply", "discard"}, Holding \subseteq previous,
         NEW x \in previous, x.target \in Up
  PROVE  x \in Holding
<1>1. PICK m \in mounts : m.at = x.target
  BY DEF Up
<1>2. PICK e \in Holding : e.target = x.target
  BY <1>1 DEF Whole, UpperInv
<1>3. QED BY <1>2 DEF Whole, PlanInv, ValidPlan

\* A failing step turns to the other loop.
LEMMA FailMoves ==
  ASSUME TypeOK, Whole, phase = "switch", pc # "idle", pc \notin {"apply", "discard"}, Fail(Removing)
  PROVE  Moves
<1>0. UNCHANGED <<previous, plan, activated>> /\ Kept' = Kept
  BY DEF Fail, Kept
<1>1. CASE Removing
  <2>1. /\ pc' = "prepare" /\ phase' = "rollback" /\ todo' = previous
    BY <1>1 DEF Fail, Go
  <2>2. Making' /\ ~Removing' /\ ~Making
    BY <1>1, <2>1 DEF Making, Removing
  <2>3. Holding = Kept \cup todo /\ Holding' = previous
    BY <1>0, <1>1, <2>1, <2>2 DEF Holding, Removing
  <2>4. Holding \subseteq previous
    <3>1. RemovalOrder(previous, plan) \subseteq previous /\ Kept \subseteq previous
      BY DEF RemovalOrder, StaleEntries, Kept
    <3>2. QED BY <1>1, <2>3, <3>1 DEF Whole, OrderInv
  <2>5. \A x : x.target \in Up => (x \in Holding <=> x \in Holding')
    BY <2>3, <2>4, HeldIsPast
  <2>6. QED BY <1>0, <2>1, <2>2, <2>5 DEF Moves
<1>2. CASE ~Removing
  <2>1. /\ pc' = "reconcile" /\ phase' = "restore" /\ todo' = activated
    BY <1>2 DEF Fail, Go
  <2>2. ~Making' /\ Removing'
    BY <2>1 DEF Making, Removing
  <2>3. Holding = Kept \cup activated /\ Holding' = Kept \cup activated
    BY <1>0, <1>2, <2>1, <2>2 DEF Holding
  <2>4. QED BY <1>0, <2>1, <2>2, <2>3 DEF Moves
<1>3. QED BY <1>1, <1>2

\* The removal loop is through with an entry that is not mounted.
LEMMA RemovalMoves ==
  ASSUME TypeOK, Whole, Removing, NEW e \in todo, Done("reconcile", e),
         e.method = "bind" => e.target \notin Up
  PROVE  Moves
<1>0. /\ UNCHANGED <<phase, previous, plan, activated>> /\ Kept' = Kept /\ pc' = "reconcile" /\ pc # "idle"
      /\ todo' = {f \in todo : f.target # e.target}
  BY DEF Done, Go, Kept, Removing
<1>1. Removing' /\ ~Making' /\ ~Making
  BY <1>0 DEF Removing, Making
<1>2. Holding = Kept \cup todo /\ Holding' = Kept \cup todo'
  BY <1>0, <1>1 DEF Holding
<1>3. ASSUME NEW x \in Holding, x.method = "bind", x.target \in Up PROVE x.target # e.target
  BY <1>2, <1>3, Held DEF Alike
<1>4. QED BY <1>0, <1>1, <1>2, <1>3 DEF Moves

\* What a node at the end of a path is, if nothing is mounted there.
LEMMA NodeHere ==
  ASSUME TypeOK, Whole, NEW t \in Targets, t \notin Up
  PROVE  /\ Node(t) = fs[Loc(t)] /\ Loc(t) \in Locs /\ Loc(t)[1] = BaseOf(t) /\ Loc(t)[2] = t
         /\ ~Mounted(t)
BY NestedWalks, NodesTyped DEF Whole, Geometry, Walks, TypeOK, DiskType, Loc

\* The removal of a bind target takes away the one that was made, and nothing that one of the
\* recorded binds stands on.
LEMMA UnlinkTidy ==
  ASSUME TypeOK, Whole, NEW K, OneKind(K), Sound(K), Cared, Unlink, outcome'.how # "lost"
  PROVE  Tidy
<1> DEFINE t == cur.target
           p == Loc(cur.target)
<1>i. /\ OwnedInv /\ PastInv /\ FreshInv /\ TreeInv
      /\ NestInv /\ OrderInv /\ HandInv /\ PlanInv /\ KindInv(K) /\ FaultInv
  BY DEF Cared, Whole, Sound
<1>0. /\ pc \in {"unlink", "discard unlink"} /\ pc \in Within /\ pc # "idle" /\ UNCHANGED <<mounts, state>>
      /\ fs' = IF Removable(cur) THEN [fs EXCEPT ![p] = NoNode] ELSE fs
  BY DEF Unlink, Within
<1>t. /\ fs \in [Locs -> NodeType] /\ cur \in Entry /\ t \in Targets /\ cur.kind \in {"dir", "file"}
      /\ previous \subseteq Entry /\ plan \subseteq Entry /\ todo \subseteq Entry
  BY <1>0 DEF TypeOK, DiskType, MemoryType, ControlType, Entry, Kinds
<1>c. cur \in todo /\ cur.method = "bind" /\ t \notin Up
  BY <1>0, <1>i DEF HandInv
<1>p. /\ Node(t) = fs[p] /\ p \in Locs /\ p[1] = BaseOf(t) /\ p[2] = t /\ ~Mounted(t)
  BY <1>t, <1>c, NodeHere
<1> HIDE DEF p
<1>w. /\ pc = "discard unlink" => phase = "switch" /\ cur \in plan
      /\ pc = "unlink" /\ phase = "switch" => cur \in previous
      /\ pc = "unlink" /\ phase # "switch" => phase = "restore" /\ cur \in plan /\ Removing
  <2>1. RemovalOrder(previous, plan) \subseteq previous
    BY DEF RemovalOrder, StaleEntries
  <2>2. phase \in {"switch", "rollback", "restore"}
    BY DEF TypeOK, MemoryType
  <2>3. QED BY <1>0, <1>c, <1>i, <2>1, <2>2 DEF OrderInv, FaultInv, Removing, Making, Working
<1>k. K[t] = cur.kind
  <2>1. cur \in previous \cup plan
    BY <1>0, <1>w
  <2>2. QED BY <2>1, <1>0, <1>i, <1>c, NoObstacle DEF Fits, Sound
<1>f. \A l \in Locs : fs'[l] = fs[l] \/ (l = p /\ fs'[l] = NoNode /\ Removable(cur))
  BY <1>0, <1>t, <1>p
<1>h. \A l \in Locs : ~HasChildren(l) => ~HasChildren(l)'
  <2>1. \A l \in Locs : fs'[l].type # "absent" => fs[l].type # "absent"
    BY <1>f DEF NoNode
  <2>2. \A l \in Locs, u \in Targets : <<l[1], u>> \in Locs
    BY DEF Locs
  <2>3. QED BY <2>1, <2>2 DEF HasChildren
<1>1. ASSUME NEW l \in Locs, Core(l)'
      PROVE  /\ Core(l) /\ fs'[l].type # "absent" /\ ~HasChildren(l)'
             /\ Owned(l[2]) \/ InHand(l[2])'
  <2>1. fs'[l] = fs[l] /\ Core(l)
    BY <1>1, <1>f DEF Core, NoNode
  <2>2. /\ fs[l].type # "absent" /\ l = Loc(l[2]) /\ ~HasChildren(l) /\ (Owned(l[2]) \/ InHand(l[2]))
    BY <2>1, <1>i DEF OwnedInv
  <2>3. ASSUME InHand(l[2]) PROVE FALSE
    <3>1. l = p /\ cur.placeholder
      BY <2>2, <2>3 DEF InHand, p
    <3>2. fs[p].type = cur.kind
      BY <1>i, <1>k, <1>p, <2>2, <3>1 DEF KindInv
    <3>3. Removable(cur)
      BY <1>t, <1>p, <2>1, <2>2, <3>1, <3>2 DEF Removable, Core, p
    <3>4. fs'[p] = NoNode
      BY <1>0, <1>t, <1>p, <3>3
    <3>5. QED BY <2>1, <2>2, <3>1, <3>4 DEF NoNode
  <2>4. QED BY <2>1, <2>2, <2>3, <1>h
<1>2. ASSUME NEW l \in Locs, l[2] \in Up, Stands(l) PROVE Stands(l)'
  <2>1. fs'[l] = fs[l]
    BY <1>2, <1>c, <1>p, <1>f
  <2>2. QED BY <1>2, <2>1 DEF Stands, Core
<1>3. ASSUME NEW e \in previous, NEW b \in Bases, e.method = "bind", ~e.placeholder, Stands(<<b, e.target>>)
      PROVE  Stands(<<b, e.target>>)'
  <2>0. <<b, e.target>> \in Locs
    BY <1>t DEF Locs, Entry
  <2>1. ASSUME <<b, e.target>> = p, cur.placeholder PROVE FALSE
    <3>1. e.target = t
      BY <2>1, <1>p
    <3>2. \A o \in previous : o.target = t => o = e
      BY <3>1, <1>0, <1>i DEF PlanInv, ValidPlan
    <3>3. cur \in plan
      BY <3>2, <2>1, <1>3, <1>0, <1>w
    <3>4. phase = "switch" \/ (Removing /\ cur \in todo)
      BY <1>0, <1>c, <1>w
    <3>5. ~\E o \in previous : o.placeholder /\ o.target = t
      BY <3>2, <1>3
    <3>6. PICK l \in Locs : Core(l) /\ l[2] = t
      BY <3>3, <3>4, <3>5, <2>1, <1>0, <1>i DEF FreshInv
    <3>7. l = p
      BY <3>6, <1>i DEF OwnedInv, p
    <3>8. QED BY <3>6, <3>7, <2>1, <1>3 DEF Stands
  <2>2. fs'[<<b, e.target>>] = fs[<<b, e.target>>]
    BY <2>0, <2>1, <1>f DEF Removable
  <2>3. QED BY <1>3, <2>2 DEF Stands, Core
<1>4. ASSUME NEW a \in plan, NEW l \in Locs, phase = "restore" \/ Making, phase' = "switch" \/ a \in todo',
             Core(l), l[2] = a.target
      PROVE  Core(l)'
  <2>1. a.target # t
    <3>1. CASE pc = "unlink"
      <4>1. phase = "restore"
        BY <3>1, <1>4 DEF Making
      <4>2. \A r : ~Fail(r)
        BY <4>1 DEF Fail, End, TypeOK, ControlType
      <4>3. Done("reconcile", cur)
        BY <3>1, <4>2 DEF Unlink
      <4>4. QED BY <4>1, <4>3, <1>4 DEF Done
    <3>2. CASE pc = "discard unlink"
      <4>1. Fail(FALSE) /\ phase = "switch"
        BY <3>2, <1>w DEF Unlink
      <4>2. todo' = activated /\ phase' = "restore"
        BY <4>1 DEF Fail
      <4>3. a \in activated /\ a # cur /\ cur \in plan
        BY <4>1, <4>2, <3>2, <1>0, <1>4, <1>c, <1>w, <1>i DEF OrderInv
      <4>4. QED BY <4>3, <1>0, <1>i DEF PlanInv, ValidPlan
    <3>3. QED BY <1>0, <3>1, <3>2
  <2>2. fs'[l] = fs[l]
    BY <2>1, <1>4, <1>f, <1>p
  <2>3. QED BY <1>4, <2>2 DEF Core
<1>5. TreeInv'
  <2> SUFFICES ASSUME NEW l \in Locs, fs'[l].type # "absent", NEW u \in Above(l[2]), Homed(l[1], u)
               PROVE  fs'[<<l[1], u>>].type # "absent"
    BY DEF TreeInv, Homed, Above
  <2>0. l[1] \in Bases /\ l[2] \in Targets /\ <<l[1], u>> \in Locs /\ l = <<l[1], l[2]>>
    BY Nesting DEF Rooted, Locs
  <2>1. fs[l].type # "absent"
    BY <1>f DEF NoNode
  <2>2. fs[<<l[1], u>>].type # "absent"
    BY <2>1, <1>i DEF TreeInv
  <2>3. ASSUME <<l[1], u>> = p, Removable(cur) PROVE FALSE
    <3>1. u = t /\ K[t] = "dir"
      BY <2>3, <1>p, <2>0 DEF OneKind
    <3>2. ~HasChildren(p)
      BY <2>3, <3>1, <1>k DEF Removable, p
    <3>3. HasChildren(p)
      BY <2>0, <2>1, <2>3, <3>1 DEF HasChildren, Above
    <3>4. QED BY <3>2, <3>3
  <2>4. QED BY <2>0, <2>2, <2>3, <1>f
<1>6. QED BY <1>0, <1>1, <1>2, <1>3, <1>4, <1>5 DEF Tidy

\* So does the move of a link to the quarantine: a link is at a path of its own.
LEMMA QuarantineTidy ==
  ASSUME TypeOK, Whole, NEW K, OneKind(K), Sound(K), Cared, pc = "quarantine",
         fs' = [fs EXCEPT ![Loc(cur.target)] = NoNode], UNCHANGED <<mounts, state>>
  PROVE  Tidy
<1> DEFINE t == cur.target
           p == Loc(cur.target)
<1>i. /\ OwnedInv /\ PastInv /\ TreeInv /\ HandInv /\ KindInv(K)
  BY DEF Cared, Whole, Sound
<1>t. /\ fs \in [Locs -> NodeType] /\ cur \in Entry /\ t \in Targets /\ previous \subseteq Entry /\ pc # "idle"
  BY DEF TypeOK, DiskType, MemoryType, ControlType, Within, Entry
<1>n. Node(t).type = "link" /\ t \notin Up
  <2>1. Node(t).type = "link"
    BY <1>i DEF HandInv, OwnLink
  <2>2. QED BY <2>1, <1>i, <1>t, NoObstacle DEF Sound
<1>p. /\ fs[p].type = "link" /\ p \in Locs /\ p[2] = t
  BY <1>t, <1>n, NodeHere
<1>k. K[t] = "link"
  BY <1>p, <1>i DEF KindInv
<1> HIDE DEF p
<1>f. \A l \in Locs : fs'[l] = fs[l] \/ (l = p /\ fs'[l] = NoNode)
  BY <1>t, <1>p DEF p
<1>h. \A l \in Locs : ~HasChildren(l) => ~HasChildren(l)'
  <2>1. \A l \in Locs : fs'[l].type # "absent" => fs[l].type # "absent"
    BY <1>f DEF NoNode
  <2>2. \A l \in Locs, u \in Targets : <<l[1], u>> \in Locs
    BY DEF Locs
  <2>3. QED BY <2>1, <2>2 DEF HasChildren
<1>1. ASSUME NEW l \in Locs, Core(l)'
      PROVE  /\ Core(l) /\ fs'[l].type # "absent" /\ ~HasChildren(l)' /\ Owned(l[2])
  <2>1. fs'[l] = fs[l] /\ Core(l)
    BY <1>1, <1>f DEF Core, NoNode
  <2>2. /\ fs[l].type # "absent" /\ ~HasChildren(l) /\ (Owned(l[2]) \/ InHand(l[2]))
    BY <2>1, <1>i DEF OwnedInv
  <2>3. QED BY <2>1, <2>2, <1>h DEF InHand
<1>2. ASSUME NEW l \in Locs, l[2] # t PROVE fs'[l] = fs[l]
  BY <1>2, <1>f, <1>p
<1>3. ASSUME NEW e \in previous, NEW b \in Bases, e.method = "bind", ~e.placeholder, Stands(<<b, e.target>>)
      PROVE  Stands(<<b, e.target>>)'
  <2>0. <<b, e.target>> \in Locs /\ e.kind \in {"dir", "file"}
    BY <1>t DEF Locs, Entry, Kinds
  <2>1. e.target # t
    BY <2>0, <1>3, <1>k, <1>i, <1>t, NoObstacle DEF Fits, Sound
  <2>2. fs'[<<b, e.target>>] = fs[<<b, e.target>>]
    BY <2>0, <2>1, <1>2
  <2>3. QED BY <1>3, <2>2 DEF Stands, Core
<1>4. \A l \in Locs : Core(l) => Core(l)'
  BY <1>f, <1>p DEF Core
<1>5. TreeInv'
  <2> SUFFICES ASSUME NEW l \in Locs, fs'[l].type # "absent", NEW u \in Above(l[2]), Homed(l[1], u)
               PROVE  fs'[<<l[1], u>>].type # "absent"
    BY DEF TreeInv, Homed, Above
  <2>0. l[1] \in Bases /\ l[2] \in Targets /\ <<l[1], u>> \in Locs
    BY Nesting DEF Rooted, Locs
  <2>1. fs[l].type # "absent"
    BY <1>f DEF NoNode
  <2>2. fs[<<l[1], u>>].type # "absent"
    BY <2>1, <1>i DEF TreeInv
  <2>3. u # t
    BY <2>0, <1>k DEF OneKind
  <2>4. QED BY <2>0, <2>2, <2>3, <1>2
<1>6. \A l \in Locs : l[2] \in Up /\ Stands(l) => Stands(l)'
  BY <1>2, <1>n DEF Stands, Core
<1>7. QED BY <1>1, <1>3, <1>4, <1>5, <1>6 DEF Tidy

\* What does not touch the disk leaves every bind target as firm as it was.
LEMMA StillFirm ==
  ASSUME fs' = fs, NEW e, Loc(e.target)' = Loc(e.target), Firm(e)
  PROVE  Firm(e)'
BY DEF Firm, Stands, Core

\* Nor does it change what the recorded binds stand on.
LEMMA PastStays ==
  ASSUME PastInv, pc' # "idle" => pc # "idle", UNCHANGED <<fs, previous, state>>
  PROVE  PastInv'
<1>1. \A e, b : IsBase(previous, e.target, b)' <=> IsBase(previous, e.target, b)
  BY DEF IsBase, Above
<1>2. \A l : Stands(l)' <=> Stands(l)
  BY DEF Stands, Core
<1>3. QED BY <1>1, <1>2 DEF PastInv

\* Unmounting leaves the bind target to the entry in hand.
LEMMA UmountCares ==
  ASSUME TypeOK, TypeOK', Whole, NEW K, Sound(K), Cared, Umount
  PROVE  Cared'
<1>i. /\ OwnedInv /\ StandInv /\ PastInv /\ FlagInv /\ FreshInv /\ TreeInv /\ IsFiniteSet(Up)
      /\ NestInv /\ OrderInv /\ HandInv /\ PlanInv /\ FaultInv
  BY DEF Cared, Whole, Sound
<1>0. /\ pc \in {"umount", "discard"} /\ pc \in Within /\ pc # "idle" /\ fs' = fs /\ state' = state
      /\ UNCHANGED <<phase, previous, plan, todo, activated>> /\ cur' = cur
      /\ pc' = IF pc = "umount" THEN "unlink" ELSE "discard unlink"
      /\ mounts' = mounts \ MountAt(cur.target)
  BY DEF Umount, Enter, Go, Within
<1>t. /\ cur \in todo /\ cur.method = "bind" /\ cur \in Entry /\ cur.target \in Targets
      /\ mounts \subseteq MountType /\ todo \subseteq Entry /\ plan \subseteq Entry /\ Holding \subseteq Entry
      /\ previous \subseteq Entry
  BY <1>0, <1>i, Held DEF HandInv, TypeOK, DiskType, MemoryType, ControlType, Entry
<1>z. PICK t \in Targets : t = cur.target
  BY <1>t
<1>d. pc = "discard" => /\ Making /\ phase = "switch" /\ Holding = Kept \cup activated
                        /\ \A o \in Kept \cup activated : t # o.target
  BY <1>i, <1>z DEF HandInv, FaultInv, Making, Holding, Removing
<1>s. ~ShownBelow(t)
  <2>1. pc = "discard" => \A o \in Kept : o.target # t
    BY <1>d
  <2>2. QED BY <1>0, <1>d, <1>t, <1>z, <2>1, Held
<1>m. /\ Up' = Up \ {t} /\ \A u \in Targets : <<u, t>> \notin Below => Loc(u)' = Loc(u)
  BY <1>0, <1>t, <1>z, <1>s, <1>i, Unmounts
<1>u. \A u \in Up : u \in Targets /\ Loc(u)' = Loc(u)
  <2>1. \A u \in Up : u \in Targets /\ <<u, t>> \notin Below
    BY <1>s, <1>t DEF ShownBelow, Up, MountType
  <2>2. QED BY <2>1, <1>m
<1>c. Loc(t)' = Loc(t)
  BY <1>m, ConstantsOK
<1>k. Kept' = Kept /\ Holding' = Holding
  BY <1>0 DEF Kept, Holding, Removing
<1>x. ASSUME pc = "umount", NEW x \in Holding, x.target = t PROVE x = cur
  <2>1. Removing /\ x \in Kept \cup todo
    BY <1>x DEF Holding, Removing
  <2>2. CASE phase = "switch"
    <3>1. RemovalOrder(previous, plan) \subseteq previous
      BY DEF RemovalOrder, StaleEntries
    <3>2. x \in previous /\ cur \in previous
      BY <2>1, <2>2, <3>1, <1>0, <1>t, <1>i DEF OrderInv, Kept
    <3>3. QED BY <3>2, <1>x, <1>z, <1>0, <1>i DEF PlanInv, ValidPlan
  <2>3. CASE phase # "switch"
    <3>1. x \in todo
      BY <2>1, <1>x, <1>z, <1>0, <1>t, <1>i DEF OrderInv
    <3>2. x \in plan /\ cur \in plan
      BY <3>1, <2>1, <2>3, <1>0, <1>t, <1>i DEF OrderInv
    <3>3. QED BY <3>2, <1>x, <1>z, <1>0, <1>i DEF PlanInv, ValidPlan
  <2>4. QED BY <2>2, <2>3
<1>1. OwnedInv'
  <2> SUFFICES ASSUME NEW l \in Locs, Core(l)
               PROVE  /\ l = Loc(l[2])' /\ fs'[l].type # "absent" /\ ~HasChildren(l)'
                      /\ Owned(l[2])' \/ InHand(l[2])'
    BY <1>0 DEF OwnedInv, Core
  <2>1. /\ l = Loc(l[2]) /\ fs'[l].type # "absent" /\ ~HasChildren(l)' /\ (Owned(l[2]) \/ InHand(l[2]))
    BY <1>0, <1>i DEF OwnedInv, HasChildren
  <2>2. CASE Owned(l[2]) /\ l[2] # t
    BY <2>1, <2>2, <1>m, <1>u, <1>k DEF Owned
  <2>3. CASE Owned(l[2]) /\ l[2] = t
    <3>1. PICK x \in Holding : x.method = "bind" /\ x.placeholder /\ x.target = t
      BY <2>3 DEF Owned
    <3>2. pc = "umount" /\ cur.placeholder
      BY <3>1, <1>0, <1>d, <1>x
    <3>3. InHand(t)'
      BY <3>2, <1>0, <1>t, <1>z DEF InHand
    <3>4. QED BY <2>1, <2>3, <3>3, <1>c
  <2>4. CASE InHand(l[2])
    <3>1. l[2] = t /\ InHand(t)'
      BY <2>4, <1>0, <1>z DEF InHand
    <3>2. QED BY <2>1, <3>1, <1>c
  <2>5. QED BY <2>1, <2>2, <2>3, <2>4
<1>2. StandInv'
  <2>1. ASSUME NEW e \in Holding', e.target \in Up' PROVE Firm(e)'
    <3>1. e \in Holding /\ e.target \in Up
      BY <2>1, <1>k, <1>m
    <3>2. QED BY <3>1, <1>0, <1>i, <1>u, StillFirm DEF StandInv
  <2>2. ASSUME Making', phase' = "switch", NEW e \in plan' \ todo' PROVE Firm(e)'
    <3>1. Making /\ Firm(e) /\ e \in Working \ todo
      BY <2>2, <1>0, <1>i DEF StandInv, Making, Working
    <3>2. e.method = "bind" => e.target \in Up
      BY <3>1, DoneIsUp
    <3>3. CASE e.method = "bind"
      BY <3>1, <3>2, <3>3, <1>0, <1>u, StillFirm
    <3>4. CASE e.method # "bind"
      BY <3>4 DEF Firm
    <3>5. QED BY <3>3, <3>4
  <2>3. QED BY <2>1, <2>2, <1>0 DEF StandInv
<1>3. PastInv'
  BY <1>0, <1>i, PastStays
<1>4. FlagInv'
  BY <1>0, <1>k, <1>i DEF FlagInv
<1>5. FreshInv'
  BY <1>0, <1>i DEF FreshInv, Core, Making, Removing
<1>6. TreeInv'
  BY <1>0, <1>i DEF TreeInv, Homed, Above
<1>7. IsFiniteSet(Up)'
  <2>1. Up' \in SUBSET Up
    BY <1>m
  <2>2. QED BY <2>1, <1>i, FS_Subset
<1>8. QED BY <1>1, <1>2, <1>3, <1>4, <1>5, <1>6, <1>7 DEF Cared

\* reconcile, step by step: a bind target that was made goes with its projection.
LEMMA CareRemoves ==
  ASSUME TypeOK, TypeOK', Whole, Whole', NEW K, OneKind(K), Sound(K), Cared, Remove, outcome'.how # "lost"
  PROVE  Cared'
<1>i. /\ OwnedInv /\ TreeInv /\ OrderInv /\ HandInv
  BY DEF Cared, Whole
<1>g. Geometry
  BY NestedWalks DEF Whole
<1>l. ASSUME NEW r, Fail(r) PROVE phase = "switch"
  BY <1>l DEF Fail, End, TypeOK, ControlType
<1>c. pc \in Within => cur \in todo
  BY <1>i DEF HandInv
<1>e. \A e \in todo : e \in Entry /\ e.target \in Targets
  BY DEF TypeOK, MemoryType, Entry
\* A step that fails before it touches anything; nothing is in hand.
<1>f. ASSUME UNCHANGED <<fs, mounts, state>>, Removing, Fail(TRUE), pc # "unlink" PROVE Cared'
  <2>1. pc # "idle" /\ pc \notin {"apply", "discard", "activate", "discard unlink"} /\ Fail(Removing)
    BY <1>f DEF Removing, Fail
  <2>2. \A t : ~InHand(t)
    BY <1>f, <2>1 DEF InHand
  <2>3. Tidy
    BY <1>f, <1>i, <2>2, StillTidy
  <2>4. Moves
    BY <1>f, <1>l, <2>1, FailMoves
  <2>5. QED BY <2>3, <2>4, CareKept
<1>1. ASSUME NEW e \in todo, BeginRemoval(e) PROVE Cared'
  <2>1. /\ pc = "reconcile" /\ pc' \in {"umount", "quarantine"} /\ UNCHANGED <<fs, mounts, state>>
        /\ UNCHANGED <<phase, previous, plan, todo, activated>>
    BY <1>1 DEF BeginRemoval, Enter, Go, disk
  <2>2. Tidy
    BY <2>1, <1>i, StillTidy DEF InHand
  <2>3. Moves
    BY <2>1, StayMoves DEF Removing, Making
  <2>4. QED BY <2>2, <2>3, CareKept
<1>2. ASSUME NEW e \in todo, SkipRemoval(e) PROVE Cared'
  <2>1. pc = "reconcile" /\ UNCHANGED <<fs, mounts, state>> /\ Done("reconcile", e) /\ Removing
    BY <1>2 DEF SkipRemoval, disk, Removing
  <2>2. Tidy
    BY <2>1, <1>i, StillTidy DEF InHand
  <2>3. e.method = "bind" => e.target \notin Up
    BY <1>2, <1>e, <1>g DEF SkipRemoval, Geometry, Walks
  <2>4. Moves
    BY <2>1, <2>3, RemovalMoves
  <2>5. QED BY <2>2, <2>4, CareKept
<1>3. ASSUME NEW e \in todo, RefuseRemoval(e) PROVE Cared'
  BY <1>3, <1>f DEF RefuseRemoval, disk, Removing
<1>4. CASE Umount
  BY <1>4, UmountCares
<1>5. CASE UmountFails
  <2>1. CASE pc = "umount"
    BY <1>5, <2>1, <1>f DEF UmountFails, disk, Removing
  <2>2. CASE pc = "discard"
    <3>1. Fail(FALSE) /\ UNCHANGED mounts /\ phase = "switch"
      BY <1>5, <2>2, <1>l DEF UmountFails, disk
    <3>2. PICK m \in mounts : m.at = cur.target
      BY <2>2, <1>i DEF HandInv, MountOf
    <3>3. /\ pc' = "reconcile" /\ Holding' = Kept \cup activated
      BY <3>1 DEF Fail, Go, Holding, Removing, Kept
    <3>4. \E e \in Holding' : e.target = m.at
      BY <3>1, <3>2, <3>3 DEF Whole, UpperInv
    <3>5. QED BY <3>1, <3>2, <3>3, <3>4, <2>2, <1>i DEF HandInv
  <2>3. QED BY <1>5, <2>1, <2>2 DEF UmountFails
<1>6. CASE Unlink
  <2>1. Tidy
    BY <1>6, UnlinkTidy
  <2>2. /\ pc \in {"unlink", "discard unlink"} /\ (pc = "unlink" <=> Removing) /\ pc # "idle"
    BY <1>6 DEF Unlink, Removing
  <2>3. CASE Fail(pc = "unlink")
    <3>1. Fail(Removing)
      BY <2>2, <2>3 DEF Fail
    <3>2. Moves
      BY <2>2, <2>3, <3>1, <1>l, FailMoves
    <3>3. QED BY <2>1, <3>2, CareKept
  <2>4. CASE pc = "unlink" /\ Done("reconcile", cur)
    <3>1. cur \in todo /\ cur.target \notin Up
      BY <2>4, <1>i DEF HandInv, Within
    <3>2. Moves
      BY <2>2, <2>4, <3>1, RemovalMoves
    <3>3. QED BY <2>1, <3>2, CareKept
  <2>5. QED BY <1>6, <2>2, <2>3, <2>4 DEF Unlink
<1>7. CASE Quarantine
  <2>0. pc = "quarantine" /\ Removing /\ UNCHANGED <<mounts, state>>
    BY <1>7 DEF Quarantine, Removing
  <2>1. CASE fs' = [fs EXCEPT ![Loc(cur.target)] = NoNode] /\ Enter("inspect", cur)
    <3>1. Tidy
      BY <2>0, <2>1, QuarantineTidy
    <3>2. Moves
      BY <2>0, <2>1, StayMoves DEF Enter, Go, Removing, Making
    <3>3. QED BY <3>1, <3>2, CareKept
  <2>2. CASE Fail(TRUE) /\ UNCHANGED fs
    BY <2>0, <2>2, <1>f
  <2>3. QED BY <1>7, <2>1, <2>2 DEF Quarantine
<1>8. CASE Inspect
  <2>0. pc = "inspect" /\ Removing /\ UNCHANGED <<fs, mounts, state>> /\ (Fail(TRUE) \/ Done("reconcile", cur))
    BY <1>8, <1>i DEF Inspect, Removing, HandInv, StillOurs
  <2>1. CASE Fail(TRUE)
    BY <2>0, <2>1, <1>f
  <2>2. CASE Done("reconcile", cur)
    <3>1. Tidy
      BY <2>0, <1>i, StillTidy DEF InHand
    <3>2. cur \in todo /\ cur.method = "symlink"
      BY <2>0, <1>i DEF HandInv, Within
    <3>3. Moves
      BY <2>0, <2>2, <3>2, RemovalMoves
    <3>4. QED BY <3>1, <3>3, CareKept
  <2>3. QED BY <2>0, <2>1, <2>2
<1>9. CASE EndReconcile
  <2>0. /\ pc = "reconcile" /\ todo = {} /\ UNCHANGED <<fs, mounts, state, phase, previous, plan, activated>>
        /\ pc # "idle" /\ Removing /\ ~Making
    BY <1>9 DEF EndReconcile, disk, Removing, Making
  <2>1. Tidy
    BY <2>0, <1>i, StillTidy DEF InHand
  <2>2. Kept' = Kept /\ Holding = Kept
    BY <2>0 DEF Kept, Holding
  <2>3. CASE phase = "switch" /\ pc' = "stores" /\ todo' = todo
    <3>1. activated = {}
      BY <2>0, <2>3, <1>i DEF OrderInv
    <3>2. Holding' = Holding /\ ~Removing' /\ ~Making'
      BY <2>0, <2>2, <2>3, <3>1 DEF Holding, Removing, Making
    <3>3. Moves
      BY <2>0, <2>3, <3>2 DEF Moves
    <3>4. QED BY <2>1, <3>3, CareKept
  <2>4. CASE phase = "restore" /\ pc' = "prepare" /\ todo' = previous
    <3>1. Making' /\ ~Removing'
      BY <2>4 DEF Making, Removing
    <3>2. Holding' = previous /\ Kept \subseteq previous
      BY <2>0, <2>4, <3>1 DEF Holding, Kept
    <3>3. \A x : x.target \in Up => (x \in Holding <=> x \in Holding')
      BY <2>0, <2>2, <3>2, HeldIsPast
    <3>4. Moves
      BY <2>0, <2>4, <3>1, <3>3 DEF Moves
    <3>5. QED BY <2>1, <3>4, CareKept
  <2>5. QED BY <1>9, <2>3, <2>4 DEF EndReconcile, Go
<1>10. QED
  BY <1>1, <1>2, <1>3, <1>4, <1>5, <1>6, <1>7, <1>8, <1>9 DEF Remove

\* ensure_parent makes what is missing on the way to a path, and nothing else.
LEMMA OnTheWay ==
  ASSUME TypeOK, Whole, NEW t \in Targets
  PROVE  /\ \A l \in Locs : \/ WithParents(t)[l] = fs[l]
                            \/ /\ WithParents(t)[l] = ParentDir /\ fs[l].type = "absent"
                               /\ \E u \in Above(t) : l = Loc(u)
         /\ \A u \in Above(t) : u \notin Up => WithParents(t)[Loc(u)].type # "absent"
<1>g. Geometry /\ mounts \subseteq MountType
  BY NestedWalks DEF Whole, TypeOK, DiskType
<1>1. ASSUME NEW u \in Above(t), Node(u).type = "absent" PROVE fs[Loc(u)].type = "absent"
  <2>1. u \in Targets /\ Walks(u)
    BY <1>g DEF Above, Geometry
  <2>2. u \notin Up
    <3>1. \A m \in mounts : m.kind # "absent"
      BY <1>g DEF MountType, Kinds
    <3>2. QED BY <1>1, <2>1, <3>1 DEF Up, Walks, Made
  <2>3. QED BY <1>1, <2>1, <2>2 DEF Walks
<1>2. ASSUME NEW u \in Above(t), u \notin Up PROVE WithParents(t)[Loc(u)].type # "absent"
  <2>1. u \in Targets /\ Walks(u) /\ Loc(u) \in Locs
    BY <1>g, NodesTyped DEF Above, Geometry, TypeOK, DiskType, Loc
  <2>2. Node(u) = fs[Loc(u)]
    BY <1>2, <2>1 DEF Walks
  <2>3. QED BY <2>1, <2>2 DEF WithParents, ParentDir
<1>3. QED BY <1>1, <1>2 DEF WithParents

\* prepare makes a bind target only for an entry that it flags.
LEMMA PrepareCares ==
  ASSUME TypeOK, TypeOK', Whole, OneHome, Cared, NEW e \in todo, Prepare(e)
  PROVE  Cared'
<1> DEFINE makes == e.method = "bind" /\ Node(e.target).type = "absent"
           b == e.placeholder \/ makes
           f == [e EXCEPT !.placeholder = b]
<1>i. /\ OwnedInv /\ StandInv /\ PastInv /\ FlagInv /\ FreshInv /\ TreeInv /\ IsFiniteSet(Up)
      /\ NestInv /\ UpperInv /\ LowerInv /\ OrderInv /\ PlanInv
  BY DEF Cared, Whole
<1>t. /\ fs \in [Locs -> NodeType] /\ mounts \subseteq MountType /\ todo \subseteq Entry
      /\ previous \subseteq Entry /\ plan \subseteq Entry /\ e \in Entry /\ e.target \in Targets
  BY DEF TypeOK, DiskType, MemoryType, Entry
<1>q. (~makes => b = e.placeholder) /\ (b => e.placeholder \/ makes) /\ (makes => b)
  <2>1. e.placeholder \in BOOLEAN
    BY <1>t DEF Entry
  <2> HIDE DEF makes
  <2>2. QED BY <2>1
<1>1. /\ pc = "prepare" /\ Topmost(e)
      /\ fs' = IF makes THEN [WithParents(e.target) EXCEPT ![Loc(e.target)] = Made(e.kind)]
               ELSE WithParents(e.target)
      /\ pc' = "activate" /\ cur' = f /\ todo' = Replace(todo, e, f)
      /\ phase = "switch" => plan' = Replace(plan, e, f) /\ UNCHANGED previous
      /\ phase # "switch" => previous' = Replace(previous, e, f) /\ UNCHANGED plan
      /\ UNCHANGED <<mounts, state, phase, activated>>
  <2>1. [e EXCEPT !.placeholder = @ \/ makes] = f
    OBVIOUS
  <2> HIDE DEF f, makes
  <2>2. QED BY <2>1 DEF Prepare, Go, f, makes
<1>b. b \in BOOLEAN
  BY <1>t DEF Entry
<1> HIDE DEF b
<1>r. /\ Making /\ Making' /\ ~Removing /\ ~Removing' /\ pc # "idle" /\ pc' # "idle"
      /\ pc' \notin {"apply", "discard", "stores", "write"}
      /\ pc \notin {"apply", "discard"} /\ \A u : ~InHand(u)
  BY <1>1 DEF Making, Removing, InHand
<1>2. /\ f \in Entry /\ f.source = e.source /\ f.target = e.target /\ f.kind = e.kind
      /\ f.method = e.method /\ f.options = e.options /\ f.placeholder = b
      /\ (b = e.placeholder => f = e)
      /\ \A x : x \in todo' <=> x = f \/ (x \in todo /\ x # e)
  <2>1. /\ f \in Entry /\ f.source = e.source /\ f.target = e.target /\ f.kind = e.kind
        /\ f.method = e.method /\ f.options = e.options /\ f.placeholder = b
        /\ (b = e.placeholder => f = e)
    BY <1>t, <1>b DEF f, Entry
  <2> HIDE DEF f
  <2>2. \A x : x \in Replace(todo, e, f) <=> x = f \/ (x \in todo /\ x # e)
    BY DEF Replace
  <2>3. QED BY <2>1, <2>2, <1>1
<1>3. e \in Working /\ todo \subseteq Working /\ (\A x, y \in Working : x.target = y.target => x = y)
  BY <1>r, <1>i DEF OrderInv, PlanInv, ValidPlan, Working
<1>4. phase = "switch" => /\ \A x : x \in plan' <=> x = f \/ (x \in plan /\ x # e)
                          /\ previous' = previous /\ Kept' = Kept
  <2> SUFFICES ASSUME phase = "switch"
               PROVE  /\ \A x : x \in plan' <=> x = f \/ (x \in plan /\ x # e)
                      /\ previous' = previous /\ Kept' = Kept
    OBVIOUS
  <2>1. e \in plan /\ ValidPlan(plan)
    BY <1>3, <1>r, <1>i DEF Working, PlanInv
  <2> HIDE DEF f
  <2>2. /\ \A x : x \in plan' <=> x = f \/ (x \in plan /\ x # e)
        /\ \A old \in SUBSET Entry : RemovalOrder(old, plan') = RemovalOrder(old, plan)
    BY <2>1, <1>t, <1>1, <1>b, Flags DEF f
  <2>3. QED BY <2>2, <1>1, <1>t DEF Kept
<1> HIDE DEF f
<1>5. phase # "switch" => /\ \A x : x \in previous' <=> x = f \/ (x \in previous /\ x # e)
                          /\ plan' = plan
  BY <1>1, <1>3 DEF Replace, Working
\* Where the node to mount on is.
<1>z. PICK t \in Targets : t = e.target
  BY <1>t
<1>n. /\ Loc(t) \in Locs /\ Loc(t)[1] = BaseOf(t) /\ Loc(t)[2] = t /\ Rooted
      /\ t \notin Up => Node(t) = fs[Loc(t)]
      /\ makes => t \notin Up /\ fs[Loc(t)].type = "absent"
  <2>1. Walks(t) /\ Rooted /\ Loc(t) \in Locs /\ Loc(t)[1] = BaseOf(t) /\ Loc(t)[2] = t
    BY <1>t, <1>i, NestedWalks, NodesTyped, Nesting DEF Geometry, Loc
  <2>2. \A m \in mounts : m.kind # "absent"
    BY <1>t DEF MountType, Kinds
  <2>3. ASSUME makes, t \in Up PROVE FALSE
    <3>1. PICK m \in mounts : m.at = t
      BY <2>3 DEF Up
    <3>2. Node(t).type = m.kind
      BY <2>1, <3>1 DEF Walks, Made
    <3>3. QED BY <2>2, <2>3, <3>2, <1>z
  <2>4. QED BY <2>1, <2>3, <1>z DEF Walks
<1>8. \A l \in Locs : \/ fs'[l] = fs[l]
                      \/ fs'[l] = ParentDir /\ fs[l].type = "absent" /\ \E u \in Above(t) : l = Loc(u)
                      \/ fs'[l] = Made(e.kind) /\ fs[l].type = "absent" /\ l = Loc(t) /\ makes
  <2>1. \A l \in Locs : \/ WithParents(t)[l] = fs[l]
                        \/ /\ WithParents(t)[l] = ParentDir /\ fs[l].type = "absent"
                           /\ \E u \in Above(t) : l = Loc(u)
    BY OnTheWay
  <2>2. WithParents(t) \in [Locs -> NodeType]
    BY <1>t, Parents
  <2> HIDE DEF makes
  <2>3. QED BY <2>1, <2>2, <1>1, <1>n, <1>z
<1>9. \A u \in Above(t) : u \notin Up => fs'[Loc(u)].type # "absent"
  <2> SUFFICES ASSUME NEW u \in Above(t), u \notin Up PROVE fs'[Loc(u)].type # "absent"
    OBVIOUS
  <2>1. WithParents(t)[Loc(u)].type # "absent"
    BY OnTheWay
  <2>2. Loc(u) # Loc(t)
    BY <1>n DEF Rooted, Loc
  <2>3. WithParents(t) \in [Locs -> NodeType]
    BY <1>t, Parents
  <2> HIDE DEF makes
  <2>4. fs'[Loc(u)] = WithParents(t)[Loc(u)]
    <3>1. Loc(u) \in Locs
      BY <1>t, NodesTyped DEF Above, Loc
    <3>2. QED BY <3>1, <2>2, <2>3, <1>1, <1>z
  <2>5. QED BY <2>1, <2>4
<1>m. /\ Up' = Up /\ \A u : Loc(u)' = Loc(u)
  BY <1>1, MountsSame DEF Up
<1>g. /\ TreeInv'
      /\ \A l \in Locs : l = Loc(l[2]) /\ l[2] \in Up /\ ~HasChildren(l) => ~HasChildren(l)'
  <2>1. \A l \in Locs : fs'[l] = fs[l] \/ (fs[l].type = "absent" /\ \E u \in Above(t) \cup {t} : l = Loc(u))
    BY <1>8
  <2>2. QED BY <2>1, <1>1, <1>9, <1>i, Grows
<1>c. /\ \A l \in Locs : Core(l) => Core(l)' /\ fs'[l].type # "absent"
      /\ \A l \in Locs : Core(l)' => Core(l) \/ (l = Loc(t) /\ makes /\ fs'[l].type # "absent")
      /\ \A l \in Locs : Stands(l) => Stands(l)'
      /\ makes => Core(Loc(t))'
  <2>1. \A l \in Locs : fs[l].type # "absent" => fs'[l] = fs[l]
    BY <1>8
  <2>2. \A l \in Locs : Core(l) => fs[l].type # "absent"
    BY <1>i DEF OwnedInv
  <2>3. e.kind \in {"dir", "file"}
    BY <1>t DEF Entry, Kinds
  <2>4. ASSUME NEW l \in Locs, Core(l)' PROVE Core(l) \/ (l = Loc(t) /\ makes /\ fs'[l].type # "absent")
    BY <2>3, <2>4, <1>8 DEF Core, ParentDir, Made
  <2>5. makes => Core(Loc(t))'
    <3> SUFFICES ASSUME makes PROVE Core(Loc(t))'
      OBVIOUS
    <3>1. PICK p \in Locs : p = Loc(t)
      BY <1>n
    <3>2. WithParents(t) \in [Locs -> NodeType]
      BY <1>t, Parents
    <3>3. fs'[p] = Made(e.kind)
      BY <3>1, <3>2, <1>1, <1>z
    <3>4. QED BY <3>1, <3>3, <2>3, <1>m DEF Core, Made
  <2>6. QED BY <2>1, <2>2, <2>4, <2>5 DEF Core, Stands
<1>h. /\ phase = "switch" => Holding = Kept \cup activated /\ Holding' = Kept \cup activated
      /\ phase # "switch" => Holding = previous /\ Holding' = previous'
  BY <1>1, <1>4, <1>r DEF Holding
<1>10. OwnedInv'
  <2> SUFFICES ASSUME NEW l \in Locs, Core(l)'
               PROVE  /\ l = Loc(l[2])' /\ fs'[l].type # "absent" /\ ~HasChildren(l)'
                      /\ Owned(l[2])' \/ InHand(l[2])'
    BY DEF OwnedInv
  <2>1. CASE Core(l)
    <3>1. l = Loc(l[2]) /\ ~HasChildren(l) /\ Owned(l[2]) /\ l[2] \in Up
      BY <2>1, <1>r, <1>i DEF OwnedInv, Owned
    <3>2. PICK x \in Holding : x.method = "bind" /\ x.placeholder /\ x.target = l[2]
      BY <3>1 DEF Owned
    <3>3. \E y \in Holding' : y.method = "bind" /\ y.placeholder /\ y.target = l[2]
      <4>1. CASE phase = "switch"
        BY <4>1, <3>2, <1>h
      <4>2. CASE phase # "switch" /\ x # e
        BY <4>2, <3>2, <1>h, <1>5
      <4>3. CASE phase # "switch" /\ x = e
        BY <4>3, <3>2, <1>h, <1>5, <1>2 DEF b
      <4>4. QED BY <4>1, <4>2, <4>3
    <3>4. Owned(l[2])'
      BY <3>1, <3>3, <1>m DEF Owned
    <3>5. QED BY <2>1, <3>1, <3>4, <1>c, <1>g, <1>m
  <2>2. CASE l = Loc(t) /\ makes /\ fs'[l].type # "absent"
    <3>1. InHand(t)'
      BY <2>2, <1>1, <1>2, <1>m, <1>n, <1>z DEF InHand, b
    <3>2. ASSUME NEW u \in Targets, <<u, t>> \in Below, fs'[<<BaseOf(t), u>>].type # "absent" PROVE FALSE
      <4>1. t \in Above(u) /\ <<BaseOf(t), u>> \in Locs /\ <<BaseOf(t), t>> = Loc(t)
        BY <3>2, <1>n DEF Above, Locs, Loc
      <4>2. ASSUME NEW w \in Above(t) \cup {t}, <<BaseOf(t), u>> = Loc(w) PROVE FALSE
        <5>1. u = w
          BY <4>2 DEF Loc
        <5>2. QED BY <5>1, <4>1, <1>n DEF Rooted
      <4>3. fs[<<BaseOf(t), u>>].type # "absent"
        BY <4>1, <4>2, <3>2, <1>8
      <4>4. Homed(BaseOf(t), t)
        BY <1>i, SameHome
      <4>5. fs[Loc(t)].type # "absent"
        BY <4>1, <4>3, <4>4, <1>i DEF TreeInv
      <4>6. QED BY <4>5, <2>2, <1>n
    <3>3. ~HasChildren(l)'
      BY <3>2, <2>2, <1>n DEF HasChildren
    <3>4. l[2] = t /\ l = Loc(l[2])'
      BY <2>2, <1>m, <1>n
    <3>5. QED BY <3>1, <3>3, <3>4, <2>2
  <2>3. QED BY <2>1, <2>2, <1>c
<1>s. ASSUME NEW x \in Entry, Firm(x) PROVE Firm(x)'
  <2>1. PICK p \in Locs : p = Loc(x.target)
    BY <1>t, NodesTyped DEF Entry, Loc
  <2>2. Loc(x.target)' = p
    BY <2>1, <1>m
  <2>3. Stands(p) => Stands(p)'
    BY <1>c
  <2>4. QED BY <1>s, <2>1, <2>2, <2>3 DEF Firm, Stands, Core
<1>k. \A x \in Holding \cup plan : x \in Entry
  BY <1>t, Held
<1>11. StandInv'
  <2>1. ASSUME NEW x \in Holding', x.target \in Up' PROVE Firm(x)'
    <3>1. CASE x \in Holding
      BY <3>1, <2>1, <1>i, <1>k, <1>m, <1>s DEF StandInv
    <3>2. CASE phase # "switch" /\ x = f
      <4>1. e \in Holding /\ e.target \in Up /\ ~makes
        BY <3>2, <2>1, <1>3, <1>h, <1>m, <1>n, <1>2, <1>z DEF Working
      <4>2. Firm(e)'
        BY <4>1, <1>i, <1>t, <1>s DEF StandInv
      <4>3. f = e
        BY <4>1, <1>2, <1>q
      <4>4. QED BY <4>2, <4>3, <3>2
    <3>3. QED BY <3>1, <3>2, <1>5, <1>h
  <2>2. ASSUME phase = "switch", NEW x \in plan' \ todo' PROVE Firm(x)'
    <3>1. x \in plan \ todo
      BY <2>2, <1>2, <1>4
    <3>2. QED BY <3>1, <2>2, <1>i, <1>k, <1>r, <1>s DEF StandInv
  <2>h. PICK h : h = f
    OBVIOUS
  <2>3. Firm(h)'
    <3> SUFFICES ASSUME e.method = "bind", ~e.placeholder, ~makes PROVE Firm(e)'
      <4>1. CASE e.method = "bind" /\ ~e.placeholder /\ ~makes
        <5>1. h = e
          BY <4>1, <2>h, <1>2, <1>q
        <5>2. QED BY <4>1, <5>1
      <4>2. CASE ~(e.method = "bind" /\ ~e.placeholder /\ ~makes)
        <5>1. ~(h.method = "bind" /\ ~h.placeholder)
          BY <4>2, <2>h, <1>2, <1>q DEF b
        <5>2. QED BY <5>1 DEF Firm
      <4>3. QED BY <4>1, <4>2
    <3>1. CASE t \notin Up
      <4>1. fs[Loc(t)].type # "absent" /\ ~Core(Loc(t))
        BY <3>1, <1>n, <1>r, <1>z, <1>i DEF OwnedInv, Owned
      <4>2. QED BY <4>1, <1>s, <1>t, <1>z DEF Firm, Stands
    <3>2. CASE t \in Up /\ phase # "switch"
      BY <3>2, <1>3, <1>h, <1>i, <1>s, <1>t, <1>z DEF Working, StandInv
    <3>3. CASE t \in Up /\ phase = "switch"
      <4>1. PICK m \in mounts : m.at = t
        BY <3>3 DEF Up
      <4>2. PICK x \in Holding : x.method = "bind" /\ x.target = t
        BY <4>1, <1>r, <1>i DEF UpperInv
      <4>3. Firm(x)
        BY <4>2, <3>3, <1>i DEF StandInv
      <4>4. CASE ~x.placeholder
        BY <4>2, <4>3, <4>4, <1>s, <1>t, <1>z DEF Firm
      <4>5. CASE x.placeholder /\ x \in Kept
        <5>1. PICK p \in plan : p.target = t /\ p.placeholder
          BY <4>2, <4>5, <3>3, <1>r, <1>i DEF FlagInv
        <5>2. p = e
          BY <5>1, <3>3, <1>3, <1>z DEF Working
        <5>3. QED BY <5>1, <5>2
      <4>6. CASE x \in activated
        <5>1. x \in plan /\ x \notin todo
          BY <4>6, <3>3, <1>r, <1>i DEF OrderInv
        <5>2. x = e
          BY <5>1, <4>2, <3>3, <1>3, <1>z DEF Working
        <5>3. QED BY <5>1, <5>2
      <4>7. QED BY <4>4, <4>5, <4>6, <3>3, <1>h
    <3>4. QED BY <3>1, <3>2, <3>3
  <2>4. Firm(cur)'
    BY <2>3, <2>h, <1>1 DEF Firm
  <2>5. QED BY <2>1, <2>2, <2>4, <1>1, <1>r DEF StandInv
<1>12. previous' = previous
  <2>1. ASSUME phase # "switch", makes, ~e.placeholder PROVE FALSE
    <3>1. \A g \in previous : g.method = "bind" /\ g.target \in Above(t) => MountOf(g)
      <4> SUFFICES ASSUME NEW g \in previous, g.method = "bind", g.target \in Above(t) PROVE MountOf(g)
        OBVIOUS
      <4>1. g \notin todo
        BY <1>1, <1>z DEF Topmost, Above
      <4>2. Projected(g)
        BY <4>1, <2>1, <1>r, <1>i DEF LowerInv, Working
      <4>3. QED BY <4>2 DEF Projected, MountAt, MountOf
    <3>2. \A m \in mounts : \E g \in previous : g.method = "bind" /\ g.target = m.at /\ g.source = m.src
      BY <2>1, <1>h, <1>r, <1>i DEF UpperInv
    <3>3. \A x, y \in previous : x.target = y.target => x = y
      BY <2>1, <1>3 DEF Working
    <3>4. IsBase(previous, t, BaseOf(t))
      BY <3>1, <3>2, <3>3, <1>i, <1>t, FixedBase
    <3>5. BaseOf(t) \in Bases /\ e \in previous /\ <<BaseOf(t), e.target>> = Loc(t)
      BY <2>1, <1>3, <1>n, <1>z DEF Working, Locs, Loc
    <3>6. Stands(Loc(t))
      BY <2>1, <3>4, <3>5, <1>r, <1>z, <1>i DEF PastInv
    <3>7. QED BY <2>1, <3>6, <1>n DEF Stands
  <2>2. ASSUME phase # "switch" PROVE previous' = previous
    <3>1. makes => b = e.placeholder
      BY <2>1, <2>2, <1>t DEF b, Entry
    <3>2. b = e.placeholder
      BY <3>1, <1>t DEF b, Entry
    <3>3. f = e
      BY <3>2, <1>2
    <3>4. \A x : x \in previous' <=> x \in previous
      BY <3>3, <2>2, <1>3, <1>5 DEF Working
    <3>5. QED BY <3>4
  <2>3. QED BY <2>2, <1>4
<1>13. PastInv'
  <2>1. \A x \in previous, c \in Bases : <<c, x.target>> \in Locs
    BY <1>t DEF Locs, Entry
  <2>2. \A x \in previous, c \in Bases :
          x.method = "bind" /\ ~x.placeholder /\ IsBase(previous, x.target, c) => Stands(<<c, x.target>>)'
    BY <2>1, <1>c, <1>r, <1>i DEF PastInv
  <2>3. previous = state
    BY <1>r, <1>i DEF PastInv
  <2>4. \A x, c : IsBase(previous, x.target, c)' <=> IsBase(previous, x.target, c)
    BY <1>12 DEF IsBase, Above
  <2>5. QED BY <2>2, <2>3, <2>4, <1>1, <1>12 DEF PastInv
<1>14. FlagInv'
  <2> SUFFICES ASSUME phase = "switch", NEW o \in Kept, o.placeholder
               PROVE  \E x \in plan' : x.target = o.target /\ x.placeholder
    BY <1>1, <1>4 DEF FlagInv
  <2>1. PICK x \in plan : x.target = o.target /\ x.placeholder
    BY <1>r, <1>i DEF FlagInv
  <2>2. CASE x = e
    BY <2>1, <2>2, <1>2, <1>4 DEF b
  <2>3. QED BY <2>1, <2>2, <1>4
<1>15. FreshInv'
  <2> SUFFICES ASSUME NEW a \in plan', phase = "switch", a.placeholder
               PROVE  \/ \E o \in previous : o.placeholder /\ o.target = a.target
                      \/ \E l \in Locs : Core(l)' /\ l[2] = a.target
    BY <1>1, <1>r, <1>12 DEF FreshInv
  <2>1. ASSUME NEW x \in plan, x.placeholder, x.target = a.target
        PROVE  \/ \E o \in previous : o.placeholder /\ o.target = a.target
               \/ \E l \in Locs : Core(l)' /\ l[2] = a.target
    BY <2>1, <1>c, <1>r, <1>i DEF FreshInv
  <2>2. CASE a = f /\ makes
    BY <2>2, <1>c, <1>n, <1>m, <1>z, <1>2
  <2>3. CASE a = f /\ ~makes
    BY <2>3, <2>1, <1>2, <1>3 DEF b, Working
  <2>4. QED BY <2>1, <2>2, <2>3, <1>4
<1>16. QED BY <1>10, <1>11, <1>13, <1>14, <1>15, <1>g, <1>m, <1>i DEF Cared

\* What is made on the way to a path, and a link at its end, is no bind target.
LEMMA GrowsTidy ==
  ASSUME TypeOK, Whole, OneHome, Cared, \A u : ~InHand(u), NEW t \in Targets,
         mounts' = mounts, state' = state,
         \A l \in Locs : \/ fs'[l] = fs[l]
                         \/ /\ fs[l].type = "absent" /\ ~Core(l)'
                            /\ \E u \in Above(t) \cup {t} : l = Loc(u),
         \A u \in Above(t) : u \notin Up => fs'[Loc(u)].type # "absent"
  PROVE  Tidy
<1>i. OwnedInv /\ TreeInv /\ IsFiniteSet(Up)
  BY DEF Cared
<1>1. /\ TreeInv'
      /\ \A l \in Locs : l = Loc(l[2]) /\ l[2] \in Up /\ ~HasChildren(l) => ~HasChildren(l)'
  <2>1. \A l \in Locs : fs'[l] = fs[l] \/ (fs[l].type = "absent" /\ \E u \in Above(t) \cup {t} : l = Loc(u))
    OBVIOUS
  <2>2. QED BY <2>1, <1>i, Grows
<1>2. \A l \in Locs : Core(l) => fs[l].type # "absent" /\ l = Loc(l[2]) /\ ~HasChildren(l) /\ Owned(l[2])
  BY <1>i DEF OwnedInv
<1>3. \A l \in Locs : Core(l)' <=> Core(l)
  <2>1. ASSUME NEW l \in Locs PROVE Core(l)' <=> Core(l)
    <3>1. CASE fs'[l] = fs[l]
      BY <3>1 DEF Core
    <3>2. CASE fs[l].type = "absent" /\ ~Core(l)'
      BY <3>2, <1>2
    <3>3. QED BY <3>1, <3>2
  <2>2. QED BY <2>1
<1>4. \A l \in Locs : Stands(l) => Stands(l)'
  <2>1. ASSUME NEW l \in Locs, Stands(l) PROVE Stands(l)'
    <3>1. fs'[l] = fs[l]
      BY <2>1 DEF Stands
    <3>2. QED BY <2>1, <3>1 DEF Stands, Core
  <2>2. QED BY <2>1
<1>5. ASSUME NEW l \in Locs, Core(l)'
      PROVE  Core(l) /\ fs'[l].type # "absent" /\ ~HasChildren(l)' /\ Owned(l[2])
  <2>1. Core(l) /\ Owned(l[2]) /\ ~HasChildren(l)'
    BY <1>1, <1>2, <1>3, <1>5 DEF Owned
  <2>2. fs'[l].type # "absent"
    BY <2>1, <1>2
  <2>3. QED BY <2>1, <2>2
<1>6. \A e \in previous, b \in Bases : <<b, e.target>> \in Locs
  BY DEF TypeOK, MemoryType, Entry, Locs
<1>7. QED BY <1>1, <1>3, <1>4, <1>5, <1>6 DEF Tidy

\* When prepare fails, what it may have made are directories on the way.
LEMMA PrepareFailCares ==
  ASSUME TypeOK, TypeOK', Whole, OneHome, Cared, NEW e \in todo, PrepareFails(e), outcome'.how # "lost"
  PROVE  Cared'
<1>i. OwnedInv /\ TreeInv
  BY DEF Cared
<1>1. /\ pc = "prepare" /\ UNCHANGED <<mounts, state>> /\ Fail(FALSE) /\ fs' \in {fs, WithParents(e.target)}
      /\ ~Removing /\ pc # "idle" /\ phase = "switch" /\ e.target \in Targets
  BY DEF PrepareFails, Fail, End, Removing, TypeOK, ControlType, MemoryType, Entry
<1>2. \A u : ~InHand(u)
  BY <1>1 DEF InHand
<1>3. Tidy
  <2>1. CASE fs' = fs
    BY <2>1, <1>1, <1>2, <1>i, StillTidy
  <2>2. CASE fs' = WithParents(e.target)
    <3>1. PICK t \in Targets : t = e.target
      BY <1>1
    <3>2. \A l \in Locs : \/ fs'[l] = fs[l]
                          \/ /\ fs'[l] = ParentDir /\ fs[l].type = "absent"
                             /\ \E u \in Above(t) : l = Loc(u)
      BY <2>2, <3>1, OnTheWay
    <3>3. \A u \in Above(t) : u \notin Up => fs'[Loc(u)].type # "absent"
      BY <2>2, <3>1, OnTheWay
    <3>4. \A l \in Locs : \/ fs'[l] = fs[l]
                          \/ /\ fs[l].type = "absent" /\ ~Core(l)'
                             /\ \E u \in Above(t) \cup {t} : l = Loc(u)
      BY <3>2 DEF Core, ParentDir
    <3>5. QED BY <3>3, <3>4, <1>1, <1>2, GrowsTidy
  <2>3. QED BY <2>1, <2>2, <1>1
<1>4. Moves
  <2>1. Fail(Removing)
    BY <1>1 DEF Fail
  <2>2. QED BY <2>1, <1>1, FailMoves
<1>5. QED BY <1>3, <1>4, CareKept

\* The projection loop is through with an entry that is mounted, or a link.
LEMMA ProjectionMoves ==
  ASSUME TypeOK, Whole, pc = "activate", pc' = "prepare", UNCHANGED <<phase, previous, plan>>,
         todo' = {f \in todo : f.target # cur.target},
         activated' = activated \/ (activated' = activated \cup {cur} /\ cur.method = "symlink"),
         cur.method = "bind" => cur.target \in Up /\ Firm(cur)
  PROVE  Moves
<1>0. /\ Making /\ ~Removing /\ Making' /\ ~Removing' /\ pc # "idle" /\ pc' # "idle" /\ Kept' = Kept
  BY DEF Making, Removing, Kept
<1>1. cur \in todo /\ todo \subseteq Working /\ \A x, y \in Working : x.target = y.target => x = y
  BY <1>0 DEF Whole, HandInv, Within, OrderInv, PlanInv, ValidPlan, Working
<1>2. \A x : x.method = "bind" => (x \in Holding <=> x \in Holding')
  BY <1>0 DEF Holding
<1>3. phase = "switch" => \A e \in plan \ todo : e.method = "bind" => e.target \in Up
  BY <1>0, DoneIsUp DEF Working
<1>4. phase = "switch" =>
        \A e \in plan \ todo' : e.method = "bind" => e.target \in Up /\ (e \notin todo \/ Firm(e))
  <2> SUFFICES ASSUME phase = "switch", NEW e \in plan \ todo', e.method = "bind"
               PROVE  e.target \in Up /\ (e \notin todo \/ Firm(e))
    OBVIOUS
  <2>1. CASE e \in todo
    <3>1. e = cur
      BY <2>1, <1>1 DEF Working
    <3>2. QED BY <3>1
  <2>2. CASE e \notin todo
    BY <2>2, <1>3
  <2>3. QED BY <2>1, <2>2
<1>5. QED BY <1>0, <1>2, <1>4 DEF Moves

\* What is mounted covers its bind target; what was there stands.
LEMMA ActivateCares ==
  ASSUME TypeOK, TypeOK', Whole, NEW K, OneKind(K), Sound(K), OneHome, Cared, Activate
  PROVE  Cared'
<1>i. /\ OwnedInv /\ StandInv /\ PastInv /\ FlagInv /\ FreshInv /\ TreeInv /\ IsFiniteSet(Up)
      /\ NestInv /\ UpperInv /\ LowerInv /\ ClosedInv /\ OrderInv /\ HandInv /\ PlanInv /\ ReadyInv
  BY DEF Cared, Whole, Sound
<1>1. /\ pc = "activate" /\ pc \in Within /\ ~ActivateRefused(cur) /\ state' = state
      /\ Making /\ ~Removing /\ pc # "idle" /\ Firm(cur)
  BY <1>i DEF Activate, Within, Making, Removing, StandInv
<1>c. PICK c \in todo : c = cur
  BY <1>1, <1>i DEF HandInv
<1>t. /\ fs \in [Locs -> NodeType] /\ mounts \subseteq MountType /\ todo \subseteq Entry
      /\ previous \subseteq Entry /\ plan \subseteq Entry
      /\ c \in Entry /\ c.target \in Targets /\ c.method \in Methods
  BY DEF TypeOK, DiskType, MemoryType, Entry
<1>z. PICK t \in Targets : t = c.target
  BY <1>t
<1>w. Walks(t) /\ Loc(t) \in Locs /\ Loc(t)[2] = t
  BY <1>i, <1>t, NestedWalks, NodesTyped DEF Geometry, Loc
<1>2. /\ Topmost(c) /\ todo \subseteq Working
      /\ \A x, y \in Working : x.target = y.target => x = y
      /\ \A x \in Working \ todo : Projected(x)
  <2>1. Topmost(c) /\ todo \subseteq Working /\ \A x \in Working \ todo : Projected(x)
    BY <1>c, <1>1, <1>i DEF HandInv, OrderInv, LowerInv
  <2>2. \A x, y \in Working : x.target = y.target => x = y
    BY <1>1, <1>i DEF PlanInv, ValidPlan, Working
  <2>3. QED BY <2>1, <2>2
<1>3. CASE AlreadyThere(cur) /\ Done("prepare", cur) /\ UNCHANGED <<fs, mounts>>
  <2>1. cur.method = "bind" => t \in Up
    BY <1>3, <1>c, <1>z DEF AlreadyThere, MountedFrom, MountAt, Up
  <2>2. \A u : ~InHand(u)
    BY <2>1, <1>1, <1>c, <1>z DEF InHand
  <2>3. Tidy
    BY <2>2, <1>1, <1>3, <1>i, StillTidy
  <2>4. Moves
    BY <2>1, <1>1, <1>3, <1>c, <1>z, ProjectionMoves DEF Done, Go
  <2>5. QED BY <2>3, <2>4, CareKept
<1>4. CASE /\ cur.method = "symlink" /\ Activated /\ UNCHANGED mounts
           /\ fs' = [fs EXCEPT ![Loc(cur.target)] = LinkTo(cur.source)] /\ ~AlreadyThere(cur)
  <2>1. \A u : ~InHand(u)
    BY <1>4 DEF InHand
  <2>2. Node(t).type = "absent"
    BY <1>1, <1>4, <1>c, <1>z DEF ActivateRefused, AlreadyThere
  <2>3. t \notin Up /\ fs[Loc(t)].type = "absent"
    <3>1. \A m \in mounts : m.kind # "absent"
      BY <1>t DEF MountType, Kinds
    <3>2. ASSUME t \in Up PROVE FALSE
      <4>1. PICK m \in mounts : m.at = t
        BY <3>2 DEF Up
      <4>2. Node(t).type = m.kind
        BY <4>1, <1>w DEF Walks, Made
      <4>3. QED BY <4>2, <3>1, <2>2
    <3>3. QED BY <3>2, <2>2, <1>w DEF Walks
  <2>4. \A l \in Locs : fs'[l] = fs[l] \/ (l = Loc(t) /\ fs'[l] = LinkTo(c.source))
    BY <1>4, <1>t, <1>c, <1>z
  <2>5. \A l \in Locs : \/ fs'[l] = fs[l]
                        \/ /\ fs[l].type = "absent" /\ ~Core(l)'
                           /\ \E u \in Above(t) \cup {t} : l = Loc(u)
    BY <2>3, <2>4 DEF Core, LinkTo
  <2>6. ASSUME NEW u \in Above(t), u \notin Up PROVE fs'[Loc(u)].type # "absent"
    <3>1. Node(u).type # "absent"
      BY <1>1, <1>i, <1>c, <1>z, <2>6 DEF ReadyInv, ParentMissing
    <3>2. u \in Targets /\ Node(u) = fs[Loc(u)] /\ Loc(u) \in Locs
      <4>1. u \in Targets
        BY DEF Above
      <4>2. QED BY <4>1, <2>6, NodeHere
    <3>3. QED BY <3>1, <3>2, <2>4 DEF LinkTo
  <2>7. Tidy
    BY <2>1, <2>5, <2>6, <1>1, <1>4, GrowsTidy
  <2>8. Moves
    BY <1>1, <1>4, ProjectionMoves DEF Activated, Go
  <2>9. QED BY <2>7, <2>8, CareKept
<1>5. CASE /\ ~AlreadyThere(cur) /\ cur.method = "bind" /\ mounts' = mounts \cup {NewMount(cur)}
           /\ Enter("apply", cur) /\ UNCHANGED fs
  <2>0. t \notin Up
    BY <1>5, <1>1, <1>c, <1>z, <1>w DEF ActivateRefused, AlreadyThere, Walks
  <2>1. \A x \in Working \ todo : x.method = "bind" => x.target \in Up
    BY <1>1, DoneIsUp
  <2>2. /\ phase = "switch" => Working = plan /\ Holding = Kept \cup activated
        /\ phase # "switch" => Working = previous /\ Holding = previous
    BY <1>1 DEF Working, Holding
  <2>3. phase = "switch" => \A o \in Kept : o.target # t
    <3>1. phase = "switch" => \A o \in Kept : o.target = t => SameProjection(o, c)
      BY <1>1, <1>2, <1>c, <1>z, <2>2, Held
    <3>2. phase = "switch" => \A o \in Kept : o.method = "bind" => o.target \in Up
      BY <1>1, <1>i DEF LowerInv, MountOf, Up
    <3>3. QED BY <3>1, <3>2, <2>0, <1>5, <1>c DEF SameProjection
  <2>4. ~ShownBelow(t)
    <3>1. CASE phase = "switch"
      BY <3>1, <2>3, <1>1, <1>c, <1>z, <1>5, Held
    <3>2. CASE phase # "switch"
      BY <3>2, <2>0, <2>2, <1>1, <1>2, <1>5, <1>c, <1>z, <1>i DEF ClosedInv
    <3>3. QED BY <3>1, <3>2
  <2> DEFINE n == NewMount(cur)
  <2>5. n.at = t /\ n.under = Chain(t) /\ mounts' = mounts \cup {n}
    BY <1>c, <1>z, <1>5 DEF NewMount
  <2> HIDE DEF n
  <2>6. /\ Up' = Up \cup {t}
        /\ \A u \in Targets : <<u, t>> \notin Below => Loc(u)' = Loc(u)
    BY <2>0, <2>4, <2>5, <1>5, <1>i, <1>t, Mounting
  <2>7. /\ UNCHANGED <<phase, previous, plan, todo, activated, cur>> /\ pc' = "apply" /\ fs' = fs
    BY <1>5 DEF Enter, Go
  <2>8. ~Removing' /\ Making' /\ pc' # "idle" /\ Holding' = Holding /\ Kept' = Kept
    BY <2>7, <1>1 DEF Removing, Making, Holding, Kept
  <2>9. /\ Loc(t)' = Loc(t)
        /\ \A u \in Up : Loc(u)' = Loc(u)
    <3>1. \A u \in Up : u \in Targets /\ <<u, t>> \notin Below
      BY <2>4, <1>t DEF ShownBelow, Up, MountType
    <3>2. QED BY <3>1, <2>6, ConstantsOK
  <2>10. OwnedInv'
    <3> SUFFICES ASSUME NEW l \in Locs, Core(l)
                 PROVE  /\ l = Loc(l[2])' /\ fs'[l].type # "absent" /\ ~HasChildren(l)'
                        /\ Owned(l[2])' \/ InHand(l[2])'
      BY <2>7 DEF OwnedInv, Core
    <3>1. /\ l = Loc(l[2]) /\ fs'[l].type # "absent" /\ ~HasChildren(l)' /\ (Owned(l[2]) \/ InHand(l[2]))
      BY <2>7, <1>i DEF OwnedInv, HasChildren
    <3>2. CASE Owned(l[2])
      BY <3>1, <3>2, <2>6, <2>8, <2>9 DEF Owned
    <3>3. CASE InHand(l[2])
      <4>1. l[2] = t /\ InHand(t)'
        BY <3>3, <2>7, <1>c, <1>z DEF InHand
      <4>2. QED BY <3>1, <4>1, <2>9
    <3>4. QED BY <3>1, <3>2, <3>3
  <2>11. Firm(c)'
    BY <1>1, <1>c, <1>z, <2>7, <2>9, StillFirm
  <2>12. StandInv'
    <3>1. ASSUME NEW x \in Holding, x.target \in Up' PROVE Firm(x)'
      <4>1. CASE x.target \in Up
        BY <4>1, <2>7, <2>9, <1>i, StillFirm DEF StandInv
      <4>2. CASE x.method # "bind"
        BY <4>2 DEF Firm
      <4>3. CASE x.target = t /\ x.method = "bind"
        <5>1. CASE phase = "switch"
          <6>1. x \in Working \ todo
            BY <5>1, <4>3, <2>2, <2>3, <1>1, <1>i DEF OrderInv
          <6>2. QED BY <6>1, <4>3, <2>0, <2>1
        <5>2. CASE phase # "switch"
          <6>1. x = c
            BY <5>2, <4>3, <2>2, <1>2, <1>c, <1>z
          <6>2. QED BY <6>1, <2>11
        <5>3. QED BY <5>1, <5>2
      <4>4. QED BY <3>1, <4>1, <4>2, <4>3, <2>6
    <3>2. ASSUME phase = "switch", NEW x \in plan \ todo PROVE Firm(x)'
      <4>1. CASE x.method = "bind"
        <5>1. x.target \in Up /\ Firm(x)
          BY <4>1, <3>2, <2>1, <2>2, <1>1, <1>i DEF StandInv
        <5>2. QED BY <5>1, <2>7, <2>9, StillFirm
      <4>2. CASE x.method # "bind"
        BY <4>2 DEF Firm
      <4>3. QED BY <4>1, <4>2
    <3>3. Firm(cur)'
      BY <2>11, <2>7, <1>c DEF Firm
    <3>4. QED BY <3>1, <3>2, <3>3, <2>7, <2>8 DEF StandInv
  <2>13. PastInv'
    BY <2>7, <1>1, <1>i, PastStays
  <2>14. FlagInv'
    BY <2>7, <2>8, <1>1, <1>i DEF FlagInv
  <2>15. FreshInv'
    BY <2>7, <2>8, <1>1, <1>i DEF FreshInv, Core
  <2>16. TreeInv'
    BY <2>7, <1>i DEF TreeInv, Homed, Above
  <2>17. IsFiniteSet(Up)'
    BY <2>6, <1>i, FS_AddElement
  <2>18. QED BY <2>10, <2>12, <2>13, <2>14, <2>15, <2>16, <2>17 DEF Cared
<1>6. QED BY <1>3, <1>4, <1>5 DEF Activate

\* An entry that is done holds its bind target from then on.
LEMMA ApplyCares ==
  ASSUME TypeOK, TypeOK', Whole, Cared, Apply
  PROVE  Cared'
<1>i. /\ OwnedInv /\ StandInv /\ PastInv /\ FlagInv /\ FreshInv /\ TreeInv /\ IsFiniteSet(Up)
      /\ NestInv /\ OrderInv /\ HandInv /\ PlanInv
  BY DEF Cared, Whole
<1>1. /\ pc = "apply" /\ pc \in Within /\ UNCHANGED <<fs, state>>
      /\ Making /\ ~Removing /\ pc # "idle" /\ Firm(cur)
      /\ mounts' = {IF m \in MountAt(cur.target) THEN [m EXCEPT !.opts = cur.options] ELSE m
                      : m \in mounts}
      /\ Activated
  BY <1>i DEF Apply, Within, Making, Removing, StandInv
<1>c. PICK c \in todo : c = cur
  BY <1>1, <1>i DEF HandInv
<1>t. /\ mounts \subseteq MountType /\ todo \subseteq Entry
      /\ previous \subseteq Entry /\ plan \subseteq Entry
      /\ c \in Entry /\ c.target \in Targets
  BY DEF TypeOK, DiskType, MemoryType, Entry
<1> DEFINE t == c.target
           New(m) == IF m.at = t THEN [m EXCEPT !.opts = c.options] ELSE m
<1>w. /\ MountAt(t) = {m \in mounts : m.at = t}
      /\ \A m, n \in mounts : m.at = n.at => m = n
  BY <1>i, <1>t, NestedWalks DEF Geometry, Walks, NestInv
<1>2. /\ UNCHANGED <<phase, previous, plan, outcome>> /\ cur' = Nil /\ pc' = "prepare"
      /\ todo' = {f \in todo : f.target # cur.target} /\ activated' = activated \cup {c}
  BY <1>1, <1>c DEF Activated, Go
<1>3. mounts' = {New(m) : m \in mounts}
  BY <1>1, <1>c, <1>w
<1>4. \A m \in mounts : /\ New(m).at = m.at /\ New(m).under = m.under /\ New(m).src = m.src
                        /\ New(m).kind = m.kind /\ (m.at = t => New(m).opts = c.options)
                        /\ (m.at # t => New(m) = m)
  BY <1>t DEF MountType
<1> HIDE DEF New
<1>5. Up' = Up
  <2>1. \A u : (\E m \in mounts' : m.at = u) <=> (\E m \in mounts : m.at = u)
    BY <1>3, <1>4
  <2>2. QED BY <2>1 DEF Up
<1>6. NestInv'
  <2>1. ASSUME NEW m \in mounts' PROVE m.under = Up' \cap Above(m.at)
    BY <1>3, <1>4, <1>5, <1>i DEF NestInv
  <2>2. ASSUME NEW m \in mounts', NEW n \in mounts', m.at = n.at PROVE m = n
    BY <2>2, <1>3, <1>4, <1>w
  <2>3. QED BY <2>1, <2>2 DEF NestInv, Above
<1>7. \A u : SameAt(u)
  BY <1>3, <1>4 DEF SameAt
<1>8. \A u \in Targets : Loc(u)' = Loc(u)
  BY <1>6, <1>7, <1>i, Steady
<1>9. /\ ~Removing' /\ Making' /\ pc' # "idle" /\ Kept' = Kept
      /\ phase = "switch" => Holding = Kept \cup activated /\ Holding' = Kept \cup activated \cup {c}
      /\ phase # "switch" => Holding = previous /\ Holding' = previous
      /\ c \in Holding'
  <2>1. /\ ~Removing' /\ Making' /\ pc' # "idle" /\ Kept' = Kept
        /\ phase = "switch" => Holding = Kept \cup activated /\ Holding' = Kept \cup activated \cup {c}
        /\ phase # "switch" => Holding = previous /\ Holding' = previous
    BY <1>1, <1>2 DEF Holding, Removing, Making, Kept
  <2>2. phase # "switch" => c \in previous
    BY <1>1, <1>c, <1>i DEF OrderInv, Working
  <2>3. QED BY <2>1, <2>2
<1>10. OwnedInv'
  <2> SUFFICES ASSUME NEW l \in Locs, Core(l)
               PROVE  /\ l = Loc(l[2])' /\ fs'[l].type # "absent" /\ ~HasChildren(l)'
                      /\ Owned(l[2])'
    BY <1>1 DEF OwnedInv, Core
  <2>1. /\ l = Loc(l[2]) /\ l[2] \in Targets /\ fs'[l].type # "absent" /\ ~HasChildren(l)'
        /\ (Owned(l[2]) \/ InHand(l[2]))
    BY <1>1, <1>i DEF OwnedInv, HasChildren, Locs
  <2>2. Owned(l[2]) => Owned(l[2])'
    BY <1>5, <1>9 DEF Owned
  <2>3. ASSUME InHand(l[2]) PROVE Owned(l[2])'
    <3>1. l[2] = t /\ c.method = "bind" /\ c.placeholder
      BY <2>3, <1>c DEF InHand
    <3>2. t \in Up
      BY <1>1, <1>c, <1>i DEF HandInv, MountOf, Up
    <3>3. QED BY <3>1, <3>2, <1>5, <1>9 DEF Owned
  <2>4. QED BY <2>1, <2>2, <2>3, <1>8
<1>s. ASSUME NEW x \in Entry, Firm(x) PROVE Firm(x)'
  BY <1>s, <1>1, <1>8, StillFirm DEF Entry
<1>11. StandInv'
  <2>1. ASSUME NEW x \in Holding', x.target \in Up' PROVE Firm(x)'
    <3>1. x = c \/ x \in Holding
      BY <1>9
    <3>2. Firm(x) /\ x \in Entry
      BY <3>1, <2>1, <1>1, <1>5, <1>c, <1>t, <1>i, Held DEF StandInv
    <3>3. QED BY <3>2, <1>s
  <2>2. ASSUME phase = "switch", NEW x \in plan \ todo' PROVE Firm(x)'
    <3>1. x = c \/ x \in plan \ todo
      <4>1. c \in plan /\ \A y \in plan : y.target = t => y = c
        BY <2>2, <1>1, <1>c, <1>i DEF OrderInv, PlanInv, ValidPlan, Working
      <4>2. QED BY <4>1, <1>2, <1>c
    <3>2. Firm(x) /\ x \in Entry
      BY <3>1, <2>2, <1>1, <1>c, <1>t, <1>i DEF StandInv
    <3>3. QED BY <3>2, <1>s
  <2>3. QED BY <2>1, <2>2, <1>2 DEF StandInv
<1>12. PastInv'
  BY <1>1, <1>2, <1>i, PastStays
<1>13. FlagInv'
  BY <1>1, <1>2, <1>9, <1>i DEF FlagInv
<1>14. FreshInv'
  BY <1>1, <1>2, <1>9, <1>i DEF FreshInv, Core
<1>15. TreeInv'
  BY <1>1, <1>i DEF TreeInv, Homed, Above
<1>16. QED BY <1>5, <1>10, <1>11, <1>12, <1>13, <1>14, <1>15, <1>i DEF Cared

\* A mount that cannot be made would leave its bind target behind: where paths keep to one
\* kind, only the call itself can fail so.
LEMMA ActivateFailCares ==
  ASSUME TypeOK, TypeOK', Whole, NEW K, OneKind(K), Sound(K), "mount" \notin FaultKinds,
         Cared, ActivateFails, outcome'.how # "lost"
  PROVE  Cared'
<1>i. OwnedInv /\ TreeInv /\ HandInv /\ OrderInv /\ NestInv /\ ReadyInv /\ KindInv(K)
  BY DEF Cared, Whole, Sound
<1>1. /\ pc = "activate" /\ pc \in Within /\ UNCHANGED <<fs, mounts, state>> /\ Fail(FALSE)
      /\ ~Removing /\ Making /\ pc # "idle" /\ phase = "switch"
  BY DEF ActivateFails, disk, Fail, End, Removing, Making, Within, TypeOK, ControlType
<1>c. PICK c \in todo : c = cur
  BY <1>1, <1>i DEF HandInv
<1>t. c \in plan /\ c \in Entry /\ c.target \in Targets /\ c.kind \in {"dir", "file"}
  BY <1>1, <1>i DEF OrderInv, Working, TypeOK, MemoryType, Entry, Kinds
<1>2. ASSUME cur.method = "bind", cur.target \notin Up PROVE FALSE
  <2>1. ActivateRefused(cur)
    BY <1>2 DEF ActivateFails, Fault
  <2>2. Fits(K, c) /\ ~OpenFails(c)
    <3>1. Fits(K, c)
      BY <1>1, <1>t, <1>i, NoObstacle
    <3>2. QED BY <3>1, <1>2, <1>c, <1>t, <1>i, NoObstacle
  <2>3. Node(c.target).type = c.kind
    <3>1. Node(c.target).type \in {"absent", K[c.target]}
      BY <1>t, <1>i, NoObstacle
    <3>2. Node(c.target).type # "absent"
      BY <1>1, <1>2, <1>c, <1>i DEF ReadyInv
    <3>3. K[c.target] = c.kind
      BY <2>2, <1>2, <1>c DEF Fits
    <3>4. QED BY <3>1, <3>2, <3>3
  <2>4. ~Mounted(c.target)
    BY <1>2, <1>c, <1>t, NodeHere
  <2>5. QED BY <2>1, <2>2, <2>3, <2>4, <1>2, <1>c DEF ActivateRefused
<1>3. \A u : ~InHand(u)
  BY <1>1, <1>2 DEF InHand
<1>4. Tidy
  BY <1>1, <1>3, <1>i, StillTidy
<1>5. Moves
  <2>1. Fail(Removing)
    BY <1>1 DEF Fail
  <2>2. QED BY <2>1, <1>1, FailMoves
<1>6. QED BY <1>4, <1>5, CareKept

\* The plan that is recorded flags what the recorded entries had flagged.
LEMMA WriteCares ==
  ASSUME TypeOK, TypeOK', Whole, Cared, WriteState, outcome'.how # "lost"
  PROVE  Cared'
<1>i. /\ OwnedInv /\ StandInv /\ FlagInv /\ TreeInv /\ IsFiniteSet(Up) /\ OrderInv
  BY DEF Cared, Whole
<1>1. /\ pc = "write" /\ UNCHANGED <<fs, mounts>> /\ Making /\ ~Removing /\ pc # "idle"
      /\ phase = "switch" /\ todo = {} /\ \A u : ~InHand(u)
  BY <1>i DEF WriteState, Making, Removing, OrderInv, InHand
<1>2. CASE Fail(FALSE) /\ UNCHANGED state
  <2>1. Tidy
    BY <1>1, <1>2, <1>i, StillTidy
  <2>2. Fail(Removing)
    BY <1>1, <1>2 DEF Fail
  <2>3. Moves
    BY <2>2, <1>1, FailMoves
  <2>4. QED BY <2>1, <2>3, CareKept
<1>3. CASE state' = plan /\ End("ok")
  <2>0. pc' = "idle" /\ phase' = "switch" /\ plan' = {} /\ todo' = {}
    BY <1>3 DEF End, Forget
  <2>1. Holding = Kept \cup activated /\ Holding' = plan /\ activated \subseteq plan
    BY <2>0, <1>1, <1>3, <1>i DEF Holding, OrderInv
  <2>m. Up' = Up /\ \A u : Loc(u)' = Loc(u)
    BY <1>1, MountsSame DEF Up
  <2>2. OwnedInv'
    <3> SUFFICES ASSUME NEW l \in Locs, Core(l)
                 PROVE  l = Loc(l[2])' /\ fs'[l].type # "absent" /\ ~HasChildren(l)' /\ Owned(l[2])'
      BY <1>1 DEF OwnedInv, Core
    <3>1. l = Loc(l[2]) /\ fs'[l].type # "absent" /\ ~HasChildren(l)' /\ Owned(l[2])
      BY <1>1, <1>i DEF OwnedInv, HasChildren
    <3>2. PICK x \in Holding : x.method = "bind" /\ x.placeholder /\ x.target = l[2]
      BY <3>1 DEF Owned
    <3>3. \E y \in plan : y.method = "bind" /\ y.placeholder /\ y.target = l[2]
      <4>1. CASE x \in activated
        BY <4>1, <3>2, <2>1
      <4>2. CASE x \in Kept
        <5>1. PICK y \in plan : y.target = x.target /\ y.placeholder
          BY <4>2, <3>2, <1>1, <1>i DEF FlagInv
        <5>2. SameProjection(x, y)
          BY <4>2, <5>1, <1>1, Held
        <5>3. QED BY <5>1, <5>2, <3>2 DEF SameProjection
      <4>3. QED BY <4>1, <4>2, <2>1
    <3>4. QED BY <3>1, <3>3, <2>1, <2>m DEF Owned
  <2>3. StandInv'
    <3>1. ASSUME NEW x \in plan PROVE Firm(x)'
      <4>1. Firm(x)
        BY <1>1, <1>i DEF StandInv
      <4>2. QED BY <4>1, <1>1, <2>m, StillFirm
    <3>2. QED BY <3>1, <2>0, <2>1 DEF StandInv, Making
  <2>4. PastInv' /\ FlagInv' /\ FreshInv'
    BY <2>0 DEF PastInv, FlagInv, FreshInv
  <2>5. TreeInv'
    BY <1>1, <1>i DEF TreeInv, Homed, Above
  <2>6. QED BY <2>2, <2>3, <2>4, <2>5, <2>m, <1>i DEF Cared
<1>4. QED BY <1>2, <1>3 DEF WriteState

\* project, step by step: a bind target is made for an entry that says so.
LEMMA CareProjects ==
  ASSUME TypeOK, TypeOK', Whole, NEW K, OneKind(K), Sound(K), OneHome, "mount" \notin FaultKinds,
         Cared, Project, outcome'.how # "lost"
  PROVE  Cared'
<1>i. OwnedInv /\ StandInv /\ PastInv /\ TreeInv /\ IsFiniteSet(Up) /\ OrderInv
  BY DEF Cared, Whole
<1>1. CASE CheckStores
  <2>0. /\ pc = "stores" /\ UNCHANGED <<fs, mounts, state>> /\ ~Removing /\ ~Making /\ pc # "idle"
        /\ phase = "switch" /\ \A u : ~InHand(u)
    BY <1>1, <1>i DEF CheckStores, disk, Removing, Making, InHand, OrderInv
  <2>1. Tidy
    BY <2>0, <1>i, StillTidy
  <2>2. CASE pc' = "prepare" /\ todo' = plan /\ UNCHANGED <<phase, previous, plan, cur, activated>>
    <3>1. Kept' = Kept /\ ~Removing' /\ Making'
      BY <2>2 DEF Kept, Removing, Making
    <3>2. Holding' = Holding
      BY <3>1, <2>0, <2>2 DEF Holding
    <3>3. Moves
      BY <3>1, <3>2, <2>0, <2>2 DEF Moves
    <3>4. QED BY <2>1, <3>3, CareKept
  <2>3. CASE Fail(FALSE)
    <3>1. Fail(Removing)
      BY <2>0, <2>3 DEF Fail
    <3>2. Moves
      BY <3>1, <2>0, FailMoves
    <3>3. QED BY <2>1, <3>2, CareKept
  <2>4. QED BY <1>1, <2>2, <2>3 DEF CheckStores, Go
<1>2. ASSUME NEW e \in todo, Prepare(e) PROVE Cared'
  BY <1>2, PrepareCares
<1>3. ASSUME NEW e \in todo, PrepareFails(e) PROVE Cared'
  BY <1>3, PrepareFailCares
<1>4. CASE Activate
  BY <1>4, ActivateCares
<1>5. CASE ActivateFails
  BY <1>5, ActivateFailCares
<1>6. CASE Apply
  BY <1>6, ApplyCares
<1>7. CASE ApplyFails
  <2>0. /\ pc = "apply" /\ pc' = "discard" /\ UNCHANGED <<fs, mounts, state>> /\ cur' = cur
        /\ UNCHANGED <<phase, previous, plan, todo, activated>>
    BY <1>7 DEF ApplyFails, Enter, Go, disk
  <2>1. \A u : InHand(u) => InHand(u)'
    BY <2>0 DEF InHand
  <2>2. Tidy
    BY <2>0, <2>1, <1>i, StillTidy
  <2>3. Moves
    BY <2>0, StayMoves DEF Removing, Making
  <2>4. QED BY <2>2, <2>3, CareKept
<1>8. CASE EndProject
  <2>0. /\ pc = "prepare" /\ todo = {} /\ UNCHANGED <<fs, mounts, state>> /\ ~Removing /\ Making /\ pc # "idle"
        /\ \A u : ~InHand(u)
    BY <1>8 DEF EndProject, disk, Removing, Making, InHand
  <2>1. CASE phase = "switch" /\ Go("write") /\ UNCHANGED memory
    <3>1. Tidy
      BY <2>0, <1>i, StillTidy
    <3>2. Moves
      BY <2>0, <2>1, StayMoves DEF Go, memory, Removing, Making
    <3>3. QED BY <3>1, <3>2, CareKept
  <2>2. CASE phase # "switch" /\ End("restored")
    <3>0. pc' = "idle"
      BY <2>2 DEF End
    <3>1. Holding = previous /\ previous = state /\ Holding' = state
      BY <3>0, <2>0, <2>2, <1>i DEF Holding, PastInv
    <3>m. Up' = Up /\ \A u : Loc(u)' = Loc(u)
      BY <2>0, MountsSame DEF Up
    <3>2. OwnedInv'
      <4> SUFFICES ASSUME NEW l \in Locs, Core(l)
                   PROVE  l = Loc(l[2])' /\ fs'[l].type # "absent" /\ ~HasChildren(l)' /\ Owned(l[2])'
        BY <2>0 DEF OwnedInv, Core
      <4>1. l = Loc(l[2]) /\ fs'[l].type # "absent" /\ ~HasChildren(l)' /\ Owned(l[2])
        BY <2>0, <1>i DEF OwnedInv, HasChildren
      <4>2. QED BY <4>1, <3>1, <3>m DEF Owned
    <3>3. StandInv'
      <4>1. ASSUME NEW x \in state, x.target \in Up PROVE Firm(x)'
        BY <4>1, <3>1, <3>m, <2>0, <1>i, StillFirm DEF StandInv
      <4>2. QED BY <4>1, <3>0, <3>1, <3>m DEF StandInv, Making
    <3>4. PastInv' /\ FlagInv' /\ FreshInv'
      BY <3>0 DEF PastInv, FlagInv, FreshInv
    <3>5. TreeInv'
      BY <2>0, <1>i DEF TreeInv, Homed, Above
    <3>6. QED BY <3>2, <3>3, <3>4, <3>5, <3>m, <1>i DEF Cared
  <2>3. QED BY <1>8, <2>1, <2>2 DEF EndProject
<1>9. CASE WriteState
  BY <1>9, WriteCares
<1>10. QED
  BY <1>1, <1>2, <1>3, <1>4, <1>5, <1>6, <1>7, <1>8, <1>9 DEF Project

\* A run starts from what is recorded, and its plan inherits the flags.
LEMMA CareRuns ==
  ASSUME TypeOK, TypeOK', Whole, Cared, Run
  PROVE  Cared'
<1>i. /\ OwnedInv /\ StandInv /\ TreeInv /\ IsFiniteSet(Up)
      /\ NestInv /\ UpperInv /\ LowerInv /\ PlanInv
  BY DEF Cared, Whole
<1>p. PICK p \in Plans : Start(p) \/ Refuse(p)
  BY DEF Run
<1>d. pc = "idle" /\ UNCHANGED <<fs, mounts, state>> /\ state \subseteq Entry /\ Holding = state
  BY <1>p DEF Start, Refuse, disk, TypeOK, DiskType, Holding
<1>m. Up' = Up /\ \A u : Loc(u)' = Loc(u)
  BY <1>d, MountsSame DEF Up
<1>1. ASSUME Holding' = state PROVE OwnedInv' /\ \A x \in Holding' : x.target \in Up' => Firm(x)'
  <2>1. ASSUME NEW l \in Locs, Core(l)
        PROVE  l = Loc(l[2])' /\ fs'[l].type # "absent" /\ ~HasChildren(l)' /\ Owned(l[2])'
    <3>1. l = Loc(l[2]) /\ fs'[l].type # "absent" /\ ~HasChildren(l)' /\ (Owned(l[2]) \/ InHand(l[2]))
      BY <2>1, <1>d, <1>i DEF OwnedInv, HasChildren
    <3>2. ~InHand(l[2])
      BY <1>d DEF InHand
    <3>3. QED BY <3>1, <3>2, <1>1, <1>d, <1>m DEF Owned
  <2>2. ASSUME NEW x \in state, x.target \in Up PROVE Firm(x)'
    BY <2>2, <1>d, <1>m, <1>i, StillFirm DEF StandInv
  <2>3. OwnedInv'
    BY <2>1, <1>d DEF OwnedInv, Core
  <2>4. QED BY <2>2, <2>3, <1>1, <1>m
<1>2. TreeInv'
  BY <1>d, <1>i DEF TreeInv, Homed, Above
<1>3. CASE Start(p)
  <2> DEFINE new == InheritPlaceholders(p, state)
  <2>1. /\ pc' = "reconcile" /\ phase' = "switch" /\ previous' = state /\ plan' = new
        /\ todo' = RemovalOrder(state, new) /\ activated' = {} /\ ValidPlan(p)
    BY <1>3 DEF Start
  <2>2. new \subseteq Entry /\ ValidPlan(new)
    BY <2>1, <1>d, Inherits
  <2>3. ASSUME NEW n \in new PROVE n.placeholder <=> \E o \in state : o.placeholder /\ SameProjection(o, n)
    <3> DEFINE flag(x) == \E o \in state : o.placeholder /\ SameProjection(o, x)
    <3>1. PICK e \in p : n = [e EXCEPT !.placeholder = flag(e)]
      BY <2>3 DEF InheritPlaceholders
    <3> HIDE DEF flag
    <3>2. e \in Entry
      BY ConstantsOK
    <3>3. /\ e.source = n.source /\ e.target = n.target /\ e.kind = n.kind
          /\ e.method = n.method /\ e.options = n.options /\ n.placeholder = flag(e)
      BY <3>1, <3>2 DEF Entry
    <3>4. \A o : SameProjection(o, e) <=> SameProjection(o, n)
      BY <3>3 DEF SameProjection
    <3>5. QED BY <3>3, <3>4 DEF flag
  <2>4. \A n \in new : n.placeholder <=> \E o \in state : o.placeholder /\ SameProjection(o, n)
    BY <2>3
  <2> HIDE DEF new
  <2>5. todo' \subseteq state /\ \A o \in state \ todo' : \E n \in new : SameProjection(o, n)
    BY <2>1, <2>2, <1>d, Removals
  <2>6. Kept' = state \ todo' /\ Removing' /\ ~Making' /\ Holding' = state
    BY <2>1, <2>5 DEF Kept, Removing, Making, Holding
  <2>7. OwnedInv' /\ StandInv'
    BY <2>1, <2>6, <1>1 DEF StandInv
  <2>8. ASSUME NEW e \in state, NEW b \in Bases, e.method = "bind", ~e.placeholder, IsBase(state, e.target, b)
        PROVE  Stands(<<b, e.target>>)
    <3>0. e.target \in Targets
      BY <1>d DEF Entry
    <3>1. \A x \in state : x.method = "bind" => MountOf(x)
      BY <1>d, <1>i DEF LowerInv, Projected, MountAt, MountOf
    <3>2. \A m \in mounts : \E x \in state : x.method = "bind" /\ x.target = m.at /\ x.source = m.src
      BY <1>d, <1>i DEF UpperInv
    <3>3. \A x, y \in state : x.target = y.target => x = y
      BY <1>i DEF PlanInv, ValidPlan
    <3>4. b = BaseOf(e.target)
      BY <3>0, <3>1, <3>2, <3>3, <2>8, <1>d, <1>i, FixedBase
    <3>5. Firm(e)
      BY <3>1, <2>8, <1>d, <1>i DEF StandInv, MountOf, Up
    <3>6. QED BY <3>4, <3>5, <2>8 DEF Firm, Loc
  <2>9. PastInv'
    <3>1. \A e, b : IsBase(previous, e.target, b)' <=> IsBase(state, e.target, b)
      BY <2>1 DEF IsBase, Above
    <3>2. \A l : Stands(l)' <=> Stands(l)
      BY <1>d DEF Stands, Core
    <3>3. QED BY <2>1, <2>8, <3>1, <3>2, <1>d DEF PastInv
  <2>10. FlagInv'
    <3> SUFFICES ASSUME NEW o \in state \ todo', o.placeholder
                 PROVE  \E n \in new : n.target = o.target /\ n.placeholder
      BY <2>1, <2>6 DEF FlagInv
    <3>1. PICK n \in new : SameProjection(o, n)
      BY <2>5
    <3>2. QED BY <3>1, <2>4 DEF SameProjection
  <2>11. FreshInv'
    BY <2>1, <2>4 DEF FreshInv, SameProjection
  <2>12. QED BY <2>7, <2>9, <2>10, <2>11, <1>2, <1>m, <1>i DEF Cared
<1>4. CASE Refuse(p)
  <2>1. pc' = "idle"
    BY <1>4, <1>d DEF Refuse
  <2>2. Holding' = state
    BY <2>1, <1>d DEF Holding
  <2>3. OwnedInv' /\ StandInv'
    BY <2>1, <2>2, <1>1 DEF StandInv, Making
  <2>4. PastInv' /\ FlagInv' /\ FreshInv'
    BY <2>1 DEF PastInv, FlagInv, FreshInv
  <2>5. QED BY <2>3, <2>4, <1>2, <1>m, <1>i DEF Cared
<1>5. QED BY <1>p, <1>3, <1>4

\* A step of nobody changes nothing.
LEMMA CareStays ==
  ASSUME Cared, UNCHANGED vars
  PROVE  Cared'
<1>0. UNCHANGED <<fs, mounts, state, pc, phase, previous, plan, todo, cur, activated>>
  BY DEF vars, memory
<1>i. OwnedInv /\ StandInv /\ PastInv /\ FlagInv /\ FreshInv /\ TreeInv /\ IsFiniteSet(Up)
  BY DEF Cared
<1>m. Up' = Up /\ \A u : Loc(u)' = Loc(u)
  BY <1>0, MountsSame DEF Up
<1>h. Holding' = Holding /\ Kept' = Kept /\ (Removing' <=> Removing) /\ (Making' <=> Making)
  BY <1>0 DEF Holding, Kept, Removing, Making
<1>1. OwnedInv'
  <2>1. \A u : (Owned(u) => Owned(u)') /\ (InHand(u) => InHand(u)')
    BY <1>0, <1>m, <1>h DEF Owned, InHand
  <2>2. \A l \in Locs : (Core(l)' <=> Core(l)) /\ (HasChildren(l)' <=> HasChildren(l))
    BY <1>0 DEF Core, HasChildren
  <2>3. QED BY <2>1, <2>2, <1>0, <1>m, <1>i DEF OwnedInv
<1>2. StandInv'
  <2>1. \A e : Firm(e) => Firm(e)'
    BY <1>0, <1>m, StillFirm
  <2>2. \A e \in Holding : e.target \in Up => Firm(e)'
    BY <2>1, <1>i DEF StandInv
  <2>3. Making /\ phase = "switch" => \A e \in plan \ todo : Firm(e)'
    BY <2>1, <1>i DEF StandInv
  <2>4. pc \in {"activate", "apply"} => Firm(cur)'
    <3>1. pc \in {"activate", "apply"} => Firm(cur)
      BY <1>i DEF StandInv
    <3>2. QED BY <3>1, <1>0, <1>m DEF Firm, Stands, Core
  <2>5. QED BY <2>2, <2>3, <2>4, <1>0, <1>m, <1>h DEF StandInv
<1>3. PastInv'
  BY <1>0, <1>i, PastStays
<1>4. FlagInv'
  BY <1>0, <1>h, <1>i DEF FlagInv
<1>5. FreshInv'
  BY <1>0, <1>h, <1>i DEF FreshInv, Core
<1>6. TreeInv'
  BY <1>0, <1>i DEF TreeInv, Homed, Above
<1>7. QED BY <1>1, <1>2, <1>3, <1>4, <1>5, <1>6, <1>m, <1>i DEF Cared

\* At first there is no bind target, and paths lie in directories.
LEMMA CareInit ==
  ASSUME Init
  PROVE  Cared
<1>1. PICK N \in InitialNodes :
        fs = [l \in Locs |-> IF \E k \in Kinds : <<l, k>> \in N
                             THEN UserData(CHOOSE k \in Kinds : <<l, k>> \in N)
                             ELSE NoNode]
  BY DEF Init
<1>2. mounts = {} /\ state = {} /\ pc = "idle"
  BY DEF Init
<1>3. ASSUME NEW l \in Locs
      PROVE  ~Core(l) /\ (fs[l].type # "absent" <=> \E k \in Kinds : <<l, k>> \in N)
  <2>1. CASE \E k \in Kinds : <<l, k>> \in N
    <3>1. PICK k \in Kinds : fs[l] = UserData(k)
      BY <2>1, <1>1
    <3>2. QED BY <2>1, <3>1 DEF UserData, Core, Kinds
  <2>2. CASE ~(\E k \in Kinds : <<l, k>> \in N)
    BY <2>2, <1>1 DEF NoNode, Core
  <2>3. QED BY <2>1, <2>2
<1>4. OwnedInv
  BY <1>3 DEF OwnedInv
<1>5. StandInv
  BY <1>2 DEF StandInv, Holding, Making
<1>6. PastInv /\ FlagInv /\ FreshInv
  BY <1>2 DEF PastInv, FlagInv, FreshInv
<1>7. TreeInv
  <2> SUFFICES ASSUME NEW l \in Locs, fs[l].type # "absent", NEW u \in Above(l[2])
               PROVE  fs[<<l[1], u>>].type # "absent"
    BY DEF TreeInv
  <2>1. PICK k \in Kinds : <<l, k>> \in N
    BY <1>3
  <2>2. <<<<l[1], u>>, "dir">> \in N
    BY <2>1 DEF InitialNodes
  <2>3. <<l[1], u>> \in Locs
    BY DEF Locs, Above
  <2>4. QED BY <2>2, <2>3, <1>3 DEF Kinds
<1>8. IsFiniteSet(Up)
  <2>1. Up = {}
    BY <1>2 DEF Up
  <2>2. QED BY <2>1, FS_EmptySet
<1>9. QED BY <1>4, <1>5, <1>6, <1>7, <1>8 DEF Cared

\* Each step leaves the bind targets in care.
LEMMA CaredStep ==
  ASSUME Undisturbed, NEW K, OneKind(K), OneHome, "mount" \notin FaultKinds,
         TypeOK, TypeOK', Whole, Whole', Sound(K), OneFaultIsRestored', Cared, [Next]_vars
  PROVE  Cared'
<1>1. ~Environment
  BY Calm
<1>2. CASE UNCHANGED vars
  BY <1>2, CareStays
<1>3. CASE Remove
  BY <1>3, CareRemoves DEF OneFaultIsRestored
<1>4. CASE Project
  BY <1>4, CareProjects DEF OneFaultIsRestored
<1>5. CASE Run
  BY <1>5, CareRuns
<1>6. QED BY <1>1, <1>2, <1>3, <1>4, <1>5 DEF Next, Step

\* A bind target that the utility made is there only while an entry of the state file says
\* so: every run that ends, well or not, has taken away those whose projections are gone.
\* Three things are asked of the configuration.  Every path keeps to one kind, as for
\* OneFaultSafe, and a source is bound at one path only.  And the call that fails, one at
\* most, is not mount(2) itself: bind makes the target before it, no entry of a list that
\* the failure path reads says so yet, and the target stays.
THEOREM NoOrphanSafe ==
  ASSUME Undisturbed, MaxFaults <= 1, NEW K, OneKind(K), OneHome, "mount" \notin FaultKinds
  PROVE  Spec => []NoOrphanPlaceholder
<1>1. TypeOK /\ TypeOK' /\ Whole /\ Whole' /\ Sound(K) /\ OneFaultIsRestored' /\ Cared /\ [Next]_vars => Cared'
  BY CaredStep
<1>2. Atomic /\ Sound(K) => Whole
  BY DEF Atomic, Hopeless, Sound, FaultInv
<1>3. Cared => NoOrphanPlaceholder
  <2> SUFFICES ASSUME Cared, pc = "idle", NEW l \in Locs, fs[l].by = "core", fs[l].type # "link"
               PROVE  \E e \in state : e.placeholder /\ e.target = l[2]
    BY DEF NoOrphanPlaceholder
  <2>1. Owned(l[2]) \/ InHand(l[2])
    BY DEF Cared, OwnedInv, Core
  <2>2. QED BY <2>1 DEF Owned, InHand, Holding
<1>4. QED BY <1>1, <1>2, <1>3, CareInit, SoundKept, TypeCorrect, PTL DEF Spec
=============================================================================
