--------------------------- MODULE SetupEtcProofs ---------------------------
(***************************************************************************)
(* That /etc follows the generations, takes away what they had put there and *)
(* leaves alone what is somebody else's, for every set of paths and          *)
(* generations, whatever the runs are cut at and whoever writes in between.  *)
(***************************************************************************)
EXTENDS SetupEtc, TLAPS

Own == files \cup direct_symlinks

\* What may lie in /etc, and what is on record.
Nodes == {Absent, Dir, Plain("static"), Plain("legacy"), Plain("user"), Plain("direct")}
           \cup [type : {"direct", "copy"}, gen : Gens]
Filed  == {Absent, Plain("static")} \cup [type : {"copy"}, gen : Gens]
Linked == {Absent} \cup [type : {"direct"}, gen : Gens]
Outcomes == [how : {"none", "ok", "failed"}, goal : Gens \cup {None}, settled : 0 .. 2,
             tried : SUBSET Gens, torn : SUBSET Gens, shown : SUBSET Paths,
             skipped : SUBSET Paths, reshaped : BOOLEAN]

\* The types, and what each loop is over.
TypeInv ==
  /\ TypeOK /\ outcome \in Outcomes
  /\ etc \in [Paths -> Nodes] /\ manifest \in [Paths -> Filed] /\ base \in [Paths -> Filed]
  /\ directState \in [Paths -> Linked]
  /\ \A p \in Paths : Parent[p] # Top => etc[p].type # "dir"
  /\ pc \in {"idle", "static", "dangling"} => files = {} /\ direct_symlinks = {} /\ todo = {}
  /\ pc # "idle" => \A p \in files : Kind(p) \in {"static", "copy"}
  /\ pc # "idle" => \A p \in direct_symlinks : Kind(p) = "direct"
  /\ pc = "build" => \A p \in todo : Kind(p) # "none"
  /\ pc = "new links" => todo \subseteq direct_symlinks
  /\ pc = "migrate" => todo \subseteq clean
  /\ pc = "diff" => base = DiffBase

\* What is to be written has a directory to go to, or a link to one, and is none itself. No
\* link into /etc/static dangles once the dangling ones are removed.
PlaceInv ==
  /\ pc \in {"build", "diff"} =>
       \A p \in Own : /\ etc[p].type # "dir"
                      /\ Parent[p] # Top => etc[Parent[p]].type \in {"dir", "direct"}
  /\ pc = "build" =>
       \A p \in todo : Parent[p] # Top /\ Parent[p] \notin todo
                         => etc[Parent[p]].type \in {"dir", "direct"}
  /\ pc \in {"old links", "new links"} =>
       \A p \in direct_symlinks :
         Parent[p] # Top => etc[Parent[p]].type \in {"dir", "direct", "absent"}
  /\ pc \notin {"idle", "static", "dangling"} =>
       \A p \in Paths : etc[p].type = "static" => Kind(p) \in Leaves

\* What the run under way has written.
Done(p) ==
  \/ p \in files /\ (pc \in {"old links", "new links", "commit", "migrate"} \/ (pc = "diff" /\ p \notin todo))
  \/ p \in direct_symlinks /\ (pc \in {"commit", "migrate"} \/ (pc = "new links" /\ p \notin todo))

WrittenInv == \A p \in Paths : Done(p) => etc[p] \in {Wanted(gen, p), Absent}

\* Where the runs are, and what is known once one has succeeded.
RunInv ==
  /\ pc # "idle" => outcome.goal = gen /\ gen \in outcome.tried
  /\ outcome.how = "ok" => reached # None
  /\ outcome.settled > 0 => outcome.how = "ok" /\ outcome.goal = reached
  /\ reached # None => clean = {}
  /\ \A p \in Paths : etc[p] = Plain("legacy") => p \in clean /\ (pc = "migrate" => p \in todo)

\* /etc/static leads to the generation that is activated.
LinkInv ==
  /\ pc \notin {"idle", "static"} => static = gen
  /\ Reached => static = reached /\ \A p \in Paths : etc[p] = Plain("static") => Tree[reached][p] \in Leaves

\* Every copy and every direct link of ours is on record, but those of the runs that were cut.
Ours(p) == etc[p] \in [type : {"direct", "copy"}, gen : Gens]
Torn(p) == \E g \in outcome.torn : Tree[g][p] \in Leaves
RecordInv ==
  /\ \A p \in Paths : Ours(p) => etc[p] \in {manifest[p], directState[p]} \/ Torn(p) \/ Done(p)
  /\ \A p \in Paths \ Own : Ours(p) /\ ~Torn(p) =>
       /\ (pc = "diff" /\ p \notin todo) \/ pc = "old links" => etc[p] = directState[p]
       /\ pc = "old links" => p \in todo
       /\ pc \notin {"new links", "commit", "migrate"}
  /\ \A p \in Paths \ (Own \cup outcome.skipped) :
       /\ pc \in {"diff", "old links", "new links", "commit", "migrate"} \/ (pc = "build" /\ p \notin todo)
       /\ Kind(p) \in Leaves
       => ~Ours(p)
  /\ pc \in {"commit", "migrate"} => manifest = Recorded(files)
  /\ pc = "migrate" => directState = Recorded(direct_symlinks)

\* After a run that left nothing behind, only what the generation has is there.
RestInv ==
  Reached /\ outcome.torn \subseteq {reached} =>
    \A p \in Paths : Tree[reached][p] \notin Leaves => etc[p] \in {Absent, Dir} \/ Foreign(p)

\* What was shown, and is a file or link in every generation tried since, stays shown: a run has yet
\* to come to it or has it on its list, or a file of somebody else is where its directory should be.
Tried     == {reached} \cup outcome.tried
Steady(p) == /\ p \in outcome.shown
             /\ p \notin outcome.skipped \/ (pc = "idle" /\ outcome.how = "ok")
             /\ \A g \in Tried : Tree[g][p] \in Leaves
Hidden(p) == Parent[p] # Top /\ Foreign(Parent[p])
FineInv ==
  reached # None =>
    /\ static \in Tried
    /\ \A p \in Paths : Steady(p) =>
         /\ Foreign(p) \/ Hidden(p) \/ Shows(p) \in Tried
         /\ pc = "build" => p \in todo \/ p \in Own \/ Hidden(p)
         /\ pc \in {"diff", "old links", "new links", "commit", "migrate"} => p \in Own \/ Hidden(p)

\* Nothing is in the way of a run that turns nothing into a directory or back, or that follows one
\* of the same generation, but what is not ours: where it has yet to come there is room, and where it
\* has been everything is in place, on its list, or kept from it by somebody else's file.
Calm == ~outcome.reshaped \/ (outcome.settled > 0 /\ outcome.torn \subseteq {gen})
Kept(p)       == Foreign(p) /\ p \notin clean
HeldBack(p)   == etc[p].type = "dir" /\ \E q \in Children(p) : Kept(q)
UnderOther(p) == Parent[p] # Top /\ Kept(Parent[p])
Ahead(p)      == pc \in {"static", "dangling"} \/ (pc = "build" /\ p \in todo)
Roomy(p) == /\ Kind(p) = "dir" => etc[p] \in {Absent, Dir} \/ Kept(p)
            /\ Kind(p) \in Leaves /\ etc[p].type = "dir" => FullyStatic(p) \/ HeldBack(p)
Taken(p) == /\ Kind(p) = "dir" => etc[p] = Dir \/ Kept(p)
            /\ Kind(p) \in Leaves => p \in Own \cup outcome.skipped \/ UnderOther(p) \/ HeldBack(p)
CalmInv ==
  Calm /\ pc # "idle" =>
    \A p \in Paths : /\ Ahead(p) => Roomy(p)
                     /\ ~Ahead(p) => Taken(p)
                     /\ Done(p) => etc[p] = Wanted(gen, p) \/ UnderOther(p)
----------------------------------------------------------------------------
\* A node is known by its type, and what a generation has at a path makes one.
LEMMA NodeFacts ==
  /\ Nodes \subseteq NodeType /\ Filed \subseteq Nodes /\ Linked \subseteq Nodes
  /\ {Absent, Dir, Plain("static"), Plain("legacy"), Plain("user"), Plain("direct")} \subseteq Nodes
  /\ Absent \in Filed /\ Absent \in Linked
  /\ \A n \in Nodes : /\ n.type = "absent" <=> n = Absent
                      /\ n.type = "dir" <=> n = Dir
                      /\ n.type = "static" <=> n = Plain("static")
                      /\ n.type = "legacy" <=> n = Plain("legacy")
                      /\ n.type = "user" <=> n = Plain("user")
                      /\ n.type \in {"absent", "dir", "static", "legacy", "user", "direct", "copy"}
  /\ \A n \in Filed : n = Absent \/ n.type \in {"static", "copy"}
  /\ \A n \in Linked : n = Absent \/ (n.type = "direct" /\ n # Plain("direct"))
  /\ \A g \in Gens, p \in Paths :
       /\ Wanted(g, p).type = Tree[g][p]
       /\ Tree[g][p] \in Leaves => Wanted(g, p) \in Nodes /\ ~(Wanted(g, p) = Plain("direct"))
       /\ Tree[g][p] = "dir" => Wanted(g, p) = Dir
       /\ Tree[g][p] = "static" => Wanted(g, p) = Plain("static")
       /\ Tree[g][p] \in {"static", "copy"} => Wanted(g, p) \in Filed
       /\ Tree[g][p] = "direct" => Wanted(g, p) \in Linked
       /\ Tree[g][p] \in {"direct", "copy"} => Wanted(g, p).gen = g
<1> USE DEF Absent, Dir, Plain, Wanted, Leaves
<1>1. /\ Nodes \subseteq NodeType /\ Filed \subseteq Nodes /\ Linked \subseteq Nodes
      /\ {Absent, Dir, Plain("static"), Plain("legacy"), Plain("user"), Plain("direct")} \subseteq Nodes
      /\ Absent \in Filed /\ Absent \in Linked
  BY DEF Nodes, NodeType, Filed, Linked
<1>2. \A n \in Nodes : /\ n.type = "absent" <=> n = Absent
                       /\ n.type = "dir" <=> n = Dir
                       /\ n.type = "static" <=> n = Plain("static")
                       /\ n.type = "legacy" <=> n = Plain("legacy")
                       /\ n.type = "user" <=> n = Plain("user")
                       /\ n.type \in {"absent", "dir", "static", "legacy", "user", "direct", "copy"}
  BY DEF Nodes
<1>3. \A n \in Filed : n = Absent \/ n.type \in {"static", "copy"}
  BY DEF Filed
<1>4. \A n \in Linked : n = Absent \/ (n.type = "direct" /\ n # Plain("direct"))
  BY ConstantsOK DEF Linked
<1>5. ASSUME NEW g \in Gens, NEW p \in Paths
      PROVE  /\ Wanted(g, p).type = Tree[g][p]
             /\ Tree[g][p] \in Leaves => Wanted(g, p) \in Nodes /\ ~(Wanted(g, p) = Plain("direct"))
             /\ Tree[g][p] = "dir" => Wanted(g, p) = Dir
             /\ Tree[g][p] = "static" => Wanted(g, p) = Plain("static")
             /\ Tree[g][p] \in {"static", "copy"} => Wanted(g, p) \in Filed
             /\ Tree[g][p] = "direct" => Wanted(g, p) \in Linked
             /\ Tree[g][p] \in {"direct", "copy"} => Wanted(g, p).gen = g
  <2>1. g # None
    BY ConstantsOK
  <2> QED BY <2>1 DEF Nodes, Filed, Linked
<1> QED BY <1>1, <1>2, <1>3, <1>4, <1>5

\* The types are right in every state, and a path in a directory is only ever taken while there is
\* a directory to take it in.
THEOREM TypeCorrect == Spec => [](TypeInv /\ PlaceInv)
<1> USE DEF Own, Kind, Leaves
<1>n. \A n \in Nodes : n \in NodeType /\ (n.type = "absent" <=> n = Absent) /\ (n.type = "dir" <=> n = Dir)
  BY NodeFacts
<1>c. /\ \A p \in Paths : Parent[p] = Top \/ (Parent[p] \in Paths /\ Parent[Parent[p]] = Top)
      /\ \A g \in Gens, p \in Paths :
           /\ Tree[g][p] \in Leaves \cup {"none", "dir"}
           /\ Tree[g][p] # "none" /\ Parent[p] # Top => Tree[g][p] # "dir" /\ Tree[g][Parent[p]] = "dir"
      /\ Top \notin Paths /\ None \notin Gens
  BY ConstantsOK
<1>1. Init => TypeInv /\ PlaceInv
  <2> SUFFICES ASSUME Init PROVE TypeInv /\ PlaceInv
    OBVIOUS
  <2>1. /\ pc = "idle" /\ gen = None /\ todo = {} /\ files = {} /\ direct_symlinks = {} /\ beyond = {}
        /\ manifest = [p \in Paths |-> Absent] /\ directState = [p \in Paths |-> Absent]
        /\ base = [p \in Paths |-> Absent] /\ reached = None
        /\ outcome \in Outcomes
    BY DEF Init, Outcomes
  <2>2. PICK g \in PerlGens \cup {None} :
          /\ static = g
          /\ etc = [p \in Paths |-> IF g = None THEN Absent
                                    ELSE IF Tree[g][p] = "none" THEN Absent ELSE PerlNode(g, p)]
          /\ clean \subseteq Paths
    BY DEF Init
  <2>3. g \in Gens \cup {None}
    BY ConstantsOK
  <2>4. ASSUME NEW p \in Paths
        PROVE  /\ etc[p] \in Nodes
               /\ Parent[p] # Top => etc[p] # Dir
               /\ Parent[p] # Top /\ etc[Parent[p]] # Dir => etc[p] = Absent
    <3>1. CASE g = None \/ Tree[g][p] = "none"
      BY <2>2, <3>1, NodeFacts DEF Absent, Dir
    <3>2. CASE g # None /\ Tree[g][p] # "none"
      <4>1. etc[p] = PerlNode(g, p) /\ Tree[g][p] \in {"static", "direct", "copy", "dir"}
        BY <1>c, <2>2, <2>3, <3>2
      <4>2. etc[p] \in {Plain("legacy"), Plain("static"), Plain("direct"), Dir}
        BY <4>1 DEF PerlNode, Dir, Plain
      <4>3. CASE Parent[p] # Top
        <5>1. Parent[p] \in Paths /\ Tree[g][p] # "dir" /\ Tree[g][Parent[p]] = "dir"
          BY <1>c, <2>3, <3>2, <4>3
        <5>2. etc[p] \in {Plain("legacy"), Plain("static"), Plain("direct")}
          BY <4>1, <5>1 DEF PerlNode
        <5>3. etc[Parent[p]] = Dir
          BY <2>2, <3>2, <5>1 DEF PerlNode, Dir, Plain
        <5> QED BY <4>2, <5>2, <5>3, NodeFacts DEF Dir, Plain
      <4> QED BY <4>2, <4>3, NodeFacts
    <3> QED BY <3>1, <3>2
  <2>5. etc \in [Paths -> Nodes] /\ etc \in [Paths -> NodeType]
    BY <1>n, <2>2, <2>4
  <2>6. \A p \in Paths : Parent[p] # Top => etc[p].type # "dir" /\ (etc[Parent[p]].type # "dir" => etc[p] = Absent)
    BY <1>c, <1>n, <2>4
  <2>7. /\ manifest \in [Paths -> Filed] /\ base \in [Paths -> Filed] /\ directState \in [Paths -> Linked]
        /\ manifest \in [Paths -> NodeType] /\ base \in [Paths -> NodeType] /\ directState \in [Paths -> NodeType]
    BY <1>n, <2>1, NodeFacts
  <2>8. TypeOK
    BY <2>1, <2>2, <2>3, <2>5, <2>6, <2>7 DEF TypeOK
  <2> QED BY <2>1, <2>5, <2>6, <2>7, <2>8 DEF TypeInv, PlaceInv
<1>2. TypeInv /\ PlaceInv /\ [Next]_vars => TypeInv' /\ PlaceInv'
  <2> SUFFICES ASSUME TypeInv, PlaceInv, [Next]_vars PROVE TypeInv' /\ PlaceInv'
    OBVIOUS
  <2>t. /\ etc \in [Paths -> Nodes] /\ manifest \in [Paths -> Filed] /\ base \in [Paths -> Filed]
        /\ directState \in [Paths -> Linked] /\ outcome \in Outcomes
        /\ pc # "idle" => gen \in Gens
        /\ \A p \in Paths : Parent[p] # Top => etc[p] # Dir /\ (etc[Parent[p]] # Dir => etc[p] = Absent)
    BY <1>c, <1>n DEF TypeInv, TypeOK
  \* The types follow from the finer ones.
  <2>o. ASSUME etc' \in [Paths -> Nodes], manifest' \in [Paths -> Filed], base' \in [Paths -> Filed],
               directState' \in [Paths -> Linked],
               \A p \in Paths : Parent[p] # Top => etc'[p] # Dir /\ (etc'[Parent[p]] # Dir => etc'[p] = Absent)
        PROVE  /\ etc' \in [Paths -> NodeType] /\ manifest' \in [Paths -> NodeType]
               /\ base' \in [Paths -> NodeType] /\ directState' \in [Paths -> NodeType]
               /\ \A p \in Paths : Parent[p] # Top =>
                    etc'[p].type # "dir" /\ (etc'[Parent[p]].type # "dir" => etc'[p] = Absent)
    <3>1. \A n \in Filed \cup Linked : n \in NodeType
      BY NodeFacts
    <3> QED BY <1>c, <1>n, <2>o, <3>1
  <2>1. ASSUME NEW g \in Gens, Start(g) PROVE TypeInv' /\ PlaceInv'
    <3>1. outcome' \in Outcomes
      <4> DEFINE r == \E p \in Paths : /\ etc[p].type # "absent"
                                       /\ Tree[g][p] # "none"
                                       /\ (etc[p].type = "dir") # (Tree[g][p] = "dir")
                 k == IF outcome.how = "ok" THEN {} ELSE outcome.skipped
                 e == IF g = outcome.goal THEN outcome.settled ELSE 0
      <4>1. r \in BOOLEAN
        OBVIOUS
      <4>2. k \in SUBSET Paths /\ e \in 0 .. 2 /\ outcome.tried \cup {g} \in SUBSET Gens
        BY <2>t DEF Outcomes
      <4>3. outcome' = [outcome EXCEPT !.goal = g, !.tried = outcome.tried \cup {g}, !.skipped = k,
                                       !.settled = e, !.reshaped = r]
        BY <2>1 DEF Start
      <4> HIDE DEF r, k, e
      <4> QED BY <2>t, <4>1, <4>2, <4>3 DEF Outcomes
    <3> QED BY <2>1, <3>1 DEF Start, TypeInv, TypeOK, PlaceInv, disk, DiffBase
  <2>2. CASE SwapStatic
    BY <2>2, <2>t DEF SwapStatic, Go, memory, TypeInv, TypeOK, PlaceInv, DiffBase
  <2>3. ASSUME NEW p \in Paths, RemoveDangling(p) PROVE TypeInv' /\ PlaceInv'
    <3>1. etc' = [etc EXCEPT ![p] = Absent] /\ etc[p] # Dir
      BY <2>3, <2>t, NodeFacts DEF RemoveDangling, Put, Dangling
    <3>2. etc' \in [Paths -> Nodes]
      BY <2>t, <3>1, NodeFacts
    <3>3. \A q \in Paths : Parent[q] # Top => etc'[q] # Dir /\ (etc'[Parent[q]] # Dir => etc'[q] = Absent)
      BY <1>c, <2>t, <3>1 DEF Absent, Dir
    <3> QED BY <2>3, <2>o, <2>t, <3>2, <3>3 DEF RemoveDangling, Go, memory, TypeInv, TypeOK, PlaceInv, DiffBase
  <2>4. CASE EndDangling
    <3>1. \A p \in Paths : Parent[p] \notin todo' /\ Kind(p) # "none" => Parent[p] = Top
      BY <1>c, <2>4, <2>t DEF EndDangling
    <3>2. \A p \in Paths : etc[p].type = "static" => Kind(p) \in Leaves
      BY <2>4 DEF EndDangling, Dangling
    <3> QED BY <2>4, <2>t, <3>1, <3>2 DEF EndDangling, Go, disk, TypeInv, TypeOK, PlaceInv, DiffBase
  \* A directory that gives way to a link or file.
  <2>r. ASSUME NEW p \in Paths, pc = "build", p \in todo, Parent[p] \notin todo, Kind(p) # "dir",
               etc' = Cleared(p), UNCHANGED <<gen, pc>>, todo' = todo \ {p}
        PROVE  /\ etc' \in [Paths -> Nodes]
               /\ \A q \in Paths : etc'[q] \in {etc[q], Absent}
               /\ \A q \in Paths : Parent[q] # Top => etc'[q] # Dir /\ (etc'[Parent[q]] # Dir => etc'[q] = Absent)
               /\ \A q \in Own \cup {p} :
                    /\ etc'[q].type # "dir"
                    /\ Parent[q] # Top => etc'[Parent[q]].type \in {"dir", "direct"}
               /\ \A q \in todo' : Parent[q] # Top /\ Parent[q] \notin todo'
                                     => etc'[Parent[q]].type \in {"dir", "direct"}
               /\ \A q \in Paths : etc'[q].type = "static" => Kind(q) \in Leaves
    <3>1. gen \in Gens /\ Own \subseteq Paths /\ todo \subseteq Paths
      BY <2>r, <2>t DEF TypeInv, TypeOK
    <3>2. \A q \in Paths : etc'[q] = IF etc[p].type = "dir" /\ (q = p \/ Parent[q] = p) THEN Absent ELSE etc[q]
      BY <2>r DEF Cleared, Children
    <3>3. \A q \in Paths : Kind(q) = "dir" => etc'[q] = etc[q]
      BY <1>c, <2>r, <3>1, <3>2
    <3>4. etc' \in [Paths -> Nodes] /\ \A q \in Paths : etc'[q] \in {etc[q], Absent}
      BY <2>r, <2>t, <3>2, NodeFacts DEF Cleared
    <3>5. Absent # Dir /\ Absent.type = "absent"
      BY DEF Absent, Dir
    <3>6. \A q \in Paths : Parent[q] # Top => etc'[q] # Dir /\ (etc'[Parent[q]] # Dir => etc'[q] = Absent)
      <4> SUFFICES ASSUME NEW q \in Paths, Parent[q] # Top
                   PROVE  etc'[q] # Dir /\ (etc'[Parent[q]] # Dir => etc'[q] = Absent)
        OBVIOUS
      <4>1. Parent[q] \in Paths /\ Parent[Parent[q]] = Top /\ p # Top
        BY <1>c
      <4>2. etc'[q] # Dir
        BY <2>t, <3>4, <3>5
      <4>3. CASE etc[Parent[q]] # Dir
        BY <2>t, <3>2, <4>3
      <4>4. CASE etc[Parent[q]] = Dir
        <5>1. etc'[Parent[q]] = IF etc[p].type = "dir" /\ Parent[q] = p THEN Absent ELSE etc[Parent[q]]
          BY <3>2, <4>1
        <5>2. etc'[q] = IF etc[p].type = "dir" /\ (q = p \/ Parent[q] = p) THEN Absent ELSE etc[q]
          BY <3>2
        <5> QED BY <3>5, <4>2, <4>4, <5>1, <5>2
      <4> QED BY <4>2, <4>3, <4>4
    <3>7. \A q \in Own \cup {p} : /\ Kind(q) # "none" /\ q \in Paths
                                  /\ Parent[q] # Top => Parent[q] \in Paths /\ Kind(Parent[q]) = "dir"
      BY <1>c, <2>r, <3>1 DEF TypeInv
    <3>8. \A q \in Own \cup {p} : Parent[q] # Top => etc'[Parent[q]].type \in {"dir", "direct"}
      BY <2>r, <3>3, <3>7 DEF PlaceInv
    <3>9. \A q \in Own \cup {p} : etc'[q].type # "dir"
      BY <2>r, <3>2, <3>4, <3>5, <3>7 DEF PlaceInv
    <3>10. \A q \in todo : Parent[q] # Top => /\ Parent[q] \in Paths /\ Kind(Parent[q]) = "dir" /\ Parent[q] # p
      BY <1>c, <2>r, <3>1 DEF TypeInv
    <3>11. \A q \in todo' : Parent[q] # Top /\ Parent[q] \notin todo'
                                     => etc'[Parent[q]].type \in {"dir", "direct"}
      BY <2>r, <3>3, <3>10 DEF PlaceInv
    <3>12. \A q \in Paths : etc'[q].type = "static" => Kind(q) \in Leaves
      BY <2>r, <3>4, <3>5 DEF PlaceInv
    <3> QED BY <3>4, <3>6, <3>8, <3>9, <3>11, <3>12
  <2>5. ASSUME NEW p \in Paths, BuildEntry(p) PROVE TypeInv' /\ PlaceInv'
    <3>1. /\ pc = "build" /\ pc' = "build" /\ gen \in Gens /\ p \in todo /\ Parent[p] \notin todo
          /\ UNCHANGED <<beyond, static, manifest, directState, clean, gen, base, outcome, reached>>
      BY <2>5, <2>t DEF BuildEntry, Loop, Go
    <3>2. Kind(p) # "none" /\ (Kind(p) = "dir" => Parent[p] = Top)
      BY <1>c, <3>1 DEF TypeInv
    <3>3. CASE /\ Kind(p) = "dir" /\ etc[p].type \in {"absent", "dir", "static", "direct"}
               /\ Put(p, IF etc[p] = Absent THEN Dir ELSE etc[p])
               /\ todo' = todo \ {p} /\ UNCHANGED <<files, direct_symlinks>>
      <4>1. etc' = [etc EXCEPT ![p] = IF etc[p] = Absent THEN Dir ELSE etc[p]]
        BY <3>3 DEF Put
      <4>2. etc[p] # Absent => etc[p].type \in {"dir", "direct"}
        BY <1>n, <2>t, <3>1, <3>3 DEF PlaceInv
      <4>3. etc'[p].type \in {"dir", "direct"} /\ Dir.type = "dir"
        BY <2>t, <4>1, <4>2 DEF Dir
      <4>4. \A q \in Paths : q # p => etc'[q] = etc[q]
        BY <2>t, <4>1
      <4>5. etc' \in [Paths -> Nodes]
        BY <2>t, <4>1, NodeFacts
      <4>6. \A q \in Paths : Parent[q] # Top => etc'[q] # Dir /\ (etc'[Parent[q]] # Dir => etc'[q] = Absent)
        <5> SUFFICES ASSUME NEW q \in Paths, Parent[q] # Top
                     PROVE  etc'[q] # Dir /\ (etc'[Parent[q]] # Dir => etc'[q] = Absent)
          OBVIOUS
        <5>1. q # p /\ Parent[q] \in Paths
          BY <1>c, <3>2, <3>3
        <5>2. etc'[Parent[q]] # Dir => etc[Parent[q]] # Dir
          BY <2>t, <4>1, <4>4, <5>1
        <5> QED BY <2>t, <4>4, <5>1, <5>2
      <4>7. \A q \in Own : /\ etc'[q].type # "dir"
                           /\ Parent[q] # Top => etc'[Parent[q]].type \in {"dir", "direct"}
        <5> SUFFICES ASSUME NEW q \in Own
                     PROVE  /\ etc'[q].type # "dir"
                            /\ Parent[q] # Top => etc'[Parent[q]].type \in {"dir", "direct"}
          OBVIOUS
        <5>1. q \in Paths /\ q # p /\ (Parent[q] # Top => Parent[q] \in Paths)
          BY <1>c, <3>1, <3>3 DEF TypeInv, TypeOK
        <5> QED BY <3>1, <4>3, <4>4, <5>1 DEF PlaceInv
      <4>8. \A q \in todo \ {p} : Parent[q] # Top /\ Parent[q] \notin todo \ {p}
                                    => etc'[Parent[q]].type \in {"dir", "direct"}
        <5> SUFFICES ASSUME NEW q \in todo, Parent[q] # Top, Parent[q] \notin todo \ {p}
                     PROVE  etc'[Parent[q]].type \in {"dir", "direct"}
          OBVIOUS
        <5>1. q \in Paths /\ Parent[q] \in Paths
          BY <1>c DEF TypeInv, TypeOK
        <5> QED BY <3>1, <4>3, <4>4, <5>1 DEF PlaceInv
      <4>9. \A q \in Paths : etc'[q].type = "static" => Kind(q) \in Leaves
        BY <3>1, <4>3, <4>4 DEF PlaceInv
      <4>10. TypeInv'
        BY <2>o, <2>t, <3>1, <3>3, <4>5, <4>6 DEF TypeInv, TypeOK
      <4> QED BY <3>1, <3>3, <4>7, <4>8, <4>9, <4>10 DEF PlaceInv
    <3>4. CASE /\ Kind(p) = "dir" /\ etc[p].type \in {"copy", "legacy", "user"}
               /\ todo' = todo \ SkippedWith(p) /\ UNCHANGED <<etc, files, direct_symlinks>>
      <4>1. \A q \in todo' : q \in todo /\ q # p /\ Parent[q] # p /\ q \in Paths
        BY <3>4 DEF SkippedWith, Children, TypeInv, TypeOK
      <4>2. \A q \in todo' : Parent[q] # Top /\ Parent[q] \notin todo' => Parent[q] \notin todo
        <5> SUFFICES ASSUME NEW q \in todo', Parent[q] # Top, Parent[q] \in todo PROVE Parent[q] \in todo'
          OBVIOUS
        <5>1. Parent[q] \in Paths /\ Parent[Parent[q]] = Top /\ p # Top
          BY <1>c, <4>1
        <5> QED BY <3>4, <4>1, <5>1 DEF SkippedWith, Children
      <4>3. TypeInv'
        BY <2>o, <2>t, <3>1, <3>4, <4>1 DEF TypeInv, TypeOK
      <4> QED BY <3>1, <3>4, <4>1, <4>2, <4>3 DEF PlaceInv
    <3>5. CASE Kind(p) # "dir" /\ Room(p) /\ etc' = Cleared(p) /\ AddEntry(p) /\ todo' = todo \ {p}
      <4>1. Own' = Own \cup {p} /\ files' \subseteq Paths /\ direct_symlinks' \subseteq Paths
        BY <3>1, <3>5 DEF AddEntry, TypeInv, TypeOK
      <4>2. /\ \A q \in files' : Kind(q) \in {"static", "copy"}
            /\ \A q \in direct_symlinks' : Kind(q) = "direct"
        BY <1>c, <3>1, <3>2, <3>5 DEF AddEntry, TypeInv
      <4>3. TypeInv'
        BY <2>o, <2>r, <2>t, <3>1, <3>5, <4>1, <4>2 DEF TypeInv, TypeOK
      <4> QED BY <2>r, <3>1, <3>5, <4>1, <4>3 DEF PlaceInv
    <3>6. CASE Kind(p) # "dir" /\ ~Room(p) /\ todo' = todo \ {p} /\ UNCHANGED <<etc, files, direct_symlinks>>
      <4>1. \A q \in todo' : Parent[q] # Top /\ Parent[q] \notin todo' => Parent[q] \notin todo
        BY <1>c, <3>1, <3>6 DEF TypeInv, TypeOK
      <4>2. TypeInv'
        BY <2>o, <2>t, <3>1, <3>6 DEF TypeInv, TypeOK
      <4> QED BY <3>1, <3>6, <4>1, <4>2 DEF PlaceInv
    <3> QED BY <2>5, <3>3, <3>4, <3>5, <3>6 DEF BuildEntry, Loop, Go
  <2>6. ASSUME NEW p \in Paths, SkipEntry(p) PROVE TypeInv' /\ PlaceInv'
    <3>1. /\ pc = "build" /\ pc' = "build" /\ gen \in Gens /\ p \in todo /\ Parent[p] \notin todo
          /\ Kind(p) = "copy" /\ etc' = Cleared(p) /\ todo' = todo \ {p}
          /\ UNCHANGED <<beyond, static, manifest, directState, clean, gen, base, files, direct_symlinks, reached>>
      BY <2>6, <2>t DEF SkipEntry
    <3>2. outcome' \in Outcomes
      <4>1. outcome.skipped \cup {p} \in SUBSET Paths
        BY <2>t DEF Outcomes
      <4>2. outcome' = [outcome EXCEPT !.skipped = outcome.skipped \cup {p}]
        BY <2>6 DEF SkipEntry
      <4> QED BY <2>t, <4>1, <4>2 DEF Outcomes
    <3>3. TypeInv'
      BY <2>o, <2>r, <2>t, <3>1, <3>2 DEF TypeInv, TypeOK
    <3> QED BY <2>r, <3>1, <3>3 DEF PlaceInv
  <2>7. CASE Prepare
    <3>1. DiffBase \in [Paths -> Filed]
      BY <2>t, NodeFacts DEF DiffBase
    <3> QED BY <2>7, <2>t, <2>o, <3>1 DEF Prepare, Go, disk, TypeInv, TypeOK, PlaceInv, DiffBase
  \* A path is written to, where there is a directory for it.
  <2>w. ASSUME NEW p \in Paths, NEW n \in Nodes, etc' = [etc EXCEPT ![p] = n], etc[p] # Dir, n # Dir,
               n = Absent \/ Parent[p] = Top \/ etc[Parent[p]] = Dir
        PROVE  /\ etc' \in [Paths -> Nodes]
               /\ \A q \in Paths : Parent[q] # Top => etc'[q] # Dir /\ (etc'[Parent[q]] # Dir => etc'[q] = Absent)
               /\ \A q \in Paths : q # p => etc'[q] = etc[q]
               /\ etc'[p] = n
    <3>1. Absent # Dir
      BY DEF Absent, Dir
    <3>2. etc' \in [Paths -> Nodes] /\ etc'[p] = n /\ \A q \in Paths : q # p => etc'[q] = etc[q]
      BY <2>t, <2>w
    <3>3. ASSUME NEW q \in Paths, Parent[q] # Top
          PROVE  etc'[q] # Dir /\ (etc'[Parent[q]] # Dir => etc'[q] = Absent)
      <4>1. Parent[q] \in Paths /\ (Parent[q] = p => q # p)
        BY <1>c, <3>3
      <4>2. CASE q = p
        <5>1. Parent[q] # p
          BY <4>1, <4>2
        <5> QED BY <2>w, <3>1, <3>2, <3>3, <4>1, <4>2, <5>1
      <4>3. CASE q # p
        <5>1. CASE Parent[q] = p
          BY <2>t, <2>w, <3>1, <3>2, <3>3, <4>3, <5>1
        <5>2. CASE Parent[q] # p
          BY <2>t, <3>2, <3>3, <4>1, <4>3, <5>2
        <5> QED BY <5>1, <5>2
      <4> QED BY <4>2, <4>3
    <3> QED BY <3>2, <3>3
  <2>8. ASSUME NEW p \in Paths, Diff(p) PROVE TypeInv' /\ PlaceInv'
    <3>1. /\ pc = "diff" /\ pc' = "diff" /\ gen \in Gens /\ todo' \subseteq todo
          /\ UNCHANGED <<static, manifest, directState, clean, gen, base, files, direct_symlinks, outcome, reached>>
          /\ beyond' \subseteq Paths
      BY <2>8, <2>t DEF Diff, Loop, Go, TypeInv, TypeOK
    <3>2. ASSUME etc' \in [Paths -> Nodes],
                 \A q \in Paths : Parent[q] # Top => etc'[q] # Dir /\ (etc'[Parent[q]] # Dir => etc'[q] = Absent)
          PROVE  TypeInv'
      BY <2>o, <2>t, <3>1, <3>2 DEF TypeInv, TypeOK, DiffBase
    <3>3. CASE etc' = etc
      BY <2>t, <3>1, <3>2, <3>3 DEF PlaceInv
    <3>4. ASSUME etc' # etc
          PROVE  /\ etc[p] # Dir
                 /\ \/ etc' = [etc EXCEPT ![p] = Absent] /\ p \notin files /\ etc[p] = base[p]
                    \/ /\ etc' = [etc EXCEPT ![p] = Wanted(gen, p)] /\ p \in files
                       /\ Parent[p] # Top => etc[Parent[p]] = Dir
      <4>1. CASE p \in files
        <5>1. ~Through(p) /\ etc' = [etc EXCEPT ![p] = Wanted(gen, p)]
          BY <2>8, <3>4, <4>1 DEF Diff, Put
        <5>2. etc[p].type # "dir" /\ (Parent[p] # Top => etc[Parent[p]].type \in {"dir", "direct"})
          BY <3>1, <4>1 DEF PlaceInv
        <5> QED BY <1>c, <1>n, <2>t, <4>1, <5>1, <5>2 DEF Through
      <4>2. CASE p \notin files
        <5>1. etc' = [etc EXCEPT ![p] = Absent] /\ etc[p] = base[p]
          BY <2>8, <3>4, <4>2 DEF Diff, Put
        <5>2. base[p] # Dir
          BY <2>t, NodeFacts DEF Dir, Absent
        <5> QED BY <4>2, <5>1, <5>2
      <4> QED BY <4>1, <4>2
    <3>5. ASSUME NEW n \in Nodes, etc' = [etc EXCEPT ![p] = n], etc[p] # Dir, n # Dir,
                 n = Absent \/ Parent[p] = Top \/ etc[Parent[p]] = Dir,
                 n = Absent => etc[p] = base[p], n # Absent => p \in files,
                 n.type = "static" => Kind(p) \in Leaves
          PROVE  TypeInv' /\ PlaceInv'
      <4>1. TypeInv'
        BY <2>w, <3>2, <3>5
      <4>2. \A q \in Own : /\ q \in Paths
                           /\ Parent[q] # Top => Parent[q] \in Paths /\ Kind(Parent[q]) = "dir"
        BY <1>c, <3>1 DEF TypeInv, TypeOK
      <4>3. \A q \in Own : etc'[q].type # "dir"
        BY <1>n, <2>w, <3>1, <3>5, <4>2 DEF PlaceInv
      <4>4. ASSUME NEW q \in Own, Parent[q] = p, p # Top PROVE n.type \in {"dir", "direct"}
        <5>1. Kind(p) = "dir" /\ etc[p].type \in {"dir", "direct"}
          BY <3>1, <4>2, <4>4 DEF PlaceInv
        <5>2. p \notin files
          BY <3>1, <5>1 DEF TypeInv
        <5>3. etc[p] = Absent \/ etc[p].type \in {"static", "copy"}
          BY <2>t, <3>5, <5>2, NodeFacts
        <5> QED BY <5>1, <5>3 DEF Absent
      <4>5. \A q \in Own : Parent[q] # Top => etc'[Parent[q]].type \in {"dir", "direct"}
        BY <2>w, <3>1, <3>5, <4>2, <4>4 DEF PlaceInv
      <4>6. \A q \in Paths : etc'[q].type = "static" => Kind(q) \in Leaves
        BY <2>w, <3>1, <3>5 DEF PlaceInv
      <4> QED BY <3>1, <4>1, <4>3, <4>5, <4>6 DEF PlaceInv
    <3>6. Absent \in Nodes /\ Absent # Dir /\ Absent.type # "static"
      BY NodeFacts DEF Absent, Dir
    <3>7. p \in files => /\ Wanted(gen, p) \in Nodes /\ Wanted(gen, p) # Dir /\ Wanted(gen, p) # Absent
                         /\ Kind(p) \in Leaves
      BY <3>1, NodeFacts DEF TypeInv, Dir, Absent
    <3> QED BY <3>3, <3>4, <3>5, <3>6, <3>7
  <2>10. ASSUME NEW p \in Paths, RemoveOldLink(p) PROVE TypeInv' /\ PlaceInv'
    <3>1. /\ pc = "old links" /\ pc' = "old links" /\ gen \in Gens /\ todo' \subseteq todo
          /\ UNCHANGED <<beyond, static, manifest, directState, clean, gen, base, files, direct_symlinks, outcome, reached>>
      BY <2>10, <2>t DEF RemoveOldLink, Loop, Go
    <3>2. \/ etc' = etc
          \/ etc' = [etc EXCEPT ![p] = Absent] /\ etc[p] # Dir
      <4>1. CASE Obsolete(p)
        <5>1. directState[p] # Dir
          BY <2>t, NodeFacts DEF Dir, Absent
        <5> QED BY <2>10, <4>1, <5>1 DEF RemoveOldLink, Put, Obsolete
      <4>2. CASE ~Obsolete(p)
        BY <2>10, <2>t, <4>2 DEF RemoveOldLink, Put
      <4> QED BY <4>1, <4>2
    <3>3. /\ etc' \in [Paths -> Nodes] /\ \A q \in Paths : etc'[q] \in {etc[q], Absent}
          /\ \A q \in Paths : Parent[q] # Top => etc'[q] # Dir /\ (etc'[Parent[q]] # Dir => etc'[q] = Absent)
      <4>1. CASE etc' = etc
        BY <2>t, <4>1
      <4>2. CASE etc' = [etc EXCEPT ![p] = Absent] /\ etc[p] # Dir
        <5>1. Absent \in Nodes /\ Absent # Dir
          BY NodeFacts DEF Absent, Dir
        <5> QED BY <2>w, <4>2, <5>1
      <4> QED BY <3>2, <4>1, <4>2
    <3>4. TypeInv'
      BY <2>o, <2>t, <3>1, <3>3 DEF TypeInv, TypeOK
    <3>5. \A q \in direct_symlinks : Parent[q] # Top => Parent[q] \in Paths
      BY <1>c DEF TypeInv, TypeOK
    <3>6. Absent.type = "absent"
      BY DEF Absent
    <3> QED BY <3>1, <3>3, <3>4, <3>5, <3>6 DEF PlaceInv
  <2>12. ASSUME NEW p \in Paths, MakeLink(p) PROVE TypeInv' /\ PlaceInv'
    <3>1. /\ pc = "new links" /\ pc' = "new links" /\ gen \in Gens /\ todo' \subseteq todo /\ p \in todo
          /\ UNCHANGED <<static, manifest, directState, clean, gen, base, files, direct_symlinks, outcome, reached>>
          /\ beyond' \subseteq Paths
      BY <2>12, <2>t DEF MakeLink, Loop, Go, TypeInv, TypeOK
    <3>2. p \in direct_symlinks /\ Kind(p) = "direct" /\ direct_symlinks \subseteq Paths
      BY <3>1 DEF TypeInv, TypeOK
    <3>3. CASE etc' = etc
      <4>1. TypeInv'
        BY <2>o, <2>t, <3>1, <3>3 DEF TypeInv, TypeOK
      <4> QED BY <3>1, <3>3, <4>1 DEF PlaceInv
    <3>4. CASE etc' # etc
      <4>1. /\ ~Through(p) /\ etc[p] # Dir
            /\ etc' = [q \in Paths |-> IF q = p THEN Wanted(gen, p)
                                       ELSE IF q = Parent[p] /\ etc[q] = Absent THEN Dir ELSE etc[q]]
        BY <1>n, <2>12, <2>t, <3>4 DEF MakeLink
      <4>2. Parent[p] # Top => Parent[p] \in Paths /\ etc'[Parent[p]] = Dir /\ Parent[p] # p
        <5> SUFFICES ASSUME Parent[p] # Top PROVE Parent[p] \in Paths /\ etc'[Parent[p]] = Dir /\ Parent[p] # p
          OBVIOUS
        <5>1. Parent[p] \in Paths /\ Parent[p] # p
          BY <1>c
        <5>2. etc[Parent[p]].type \in {"dir", "absent"}
          BY <3>1, <3>2, <4>1 DEF PlaceInv, Through
        <5> QED BY <1>n, <2>t, <4>1, <5>1, <5>2
      <4>3. Wanted(gen, p) \in Nodes /\ Dir \in Nodes /\ Wanted(gen, p) # Dir /\ Wanted(gen, p).type = "direct"
        <5>1. Wanted(gen, p) \in Nodes /\ Dir \in Nodes /\ Wanted(gen, p).type = "direct"
          <6>1. Tree[gen][p] = "direct" /\ gen \in Gens
            BY <3>1, <3>2
          <6> HIDE DEF Kind
          <6> QED BY <6>1, NodeFacts
        <5> QED BY <5>1 DEF Dir
      <4>4. etc' \in [Paths -> Nodes]
        BY <2>t, <4>1, <4>3
      <4>5. ASSUME NEW q \in Paths, Parent[q] # Top
            PROVE  etc'[q] # Dir /\ (etc'[Parent[q]] # Dir => etc'[q] = Absent)
        <5>1. Parent[q] \in Paths /\ Parent[Parent[q]] = Top
          BY <1>c, <4>5
        <5>2. CASE q = p
          BY <4>1, <4>2, <4>3, <4>5, <5>2
        <5>3. CASE q # p
          <6>1. etc'[q] = etc[q]
            BY <1>c, <4>1, <4>2, <4>5, <5>3
          <6>2. etc'[Parent[q]] # Dir => etc[Parent[q]] # Dir
            BY <4>1, <5>1
          <6> QED BY <2>t, <4>5, <6>1, <6>2
        <5> QED BY <5>2, <5>3
      <4>6. TypeInv'
        BY <2>o, <2>t, <3>1, <4>4, <4>5 DEF TypeInv, TypeOK
      <4>7. \A q \in Paths : q # p => etc'[q] = etc[q] \/ etc'[q] = Dir
        BY <4>1
      <4>8. \A q \in direct_symlinks : Parent[q] # Top => Parent[q] \in Paths /\ Parent[q] # p
        BY <1>c, <3>1, <3>2 DEF TypeInv
      <4>9. Dir.type = "dir"
        BY DEF Dir
      <4>10. \A q \in direct_symlinks : Parent[q] # Top => etc'[Parent[q]].type \in {"dir", "direct", "absent"}
        BY <3>1, <4>7, <4>8, <4>9 DEF PlaceInv
      <4>11. \A q \in Paths : etc'[q].type = "static" => Kind(q) \in Leaves
        BY <3>1, <3>2, <4>7, <4>9 DEF PlaceInv
      <4> QED BY <3>1, <4>6, <4>10, <4>11 DEF PlaceInv
    <3> QED BY <3>3, <3>4
  <2>9. CASE EndDiff
    <3>1. \A p \in direct_symlinks : Parent[p] # Top => etc[Parent[p]].type \in {"dir", "direct"}
      BY <2>9 DEF EndDiff, PlaceInv
    <3> QED BY <2>9, <2>t, <3>1 DEF EndDiff, Go, disk, TypeInv, TypeOK, PlaceInv
  <2>11. CASE EndOldLinks
    BY <2>11, <2>t DEF EndOldLinks, Go, disk, TypeInv, TypeOK, PlaceInv, DiffBase
  <2>13. CASE CommitManifest
    <3>1. Recorded(files) \in [Paths -> Filed]
      BY <2>13, <2>t, NodeFacts DEF CommitManifest, Recorded, TypeInv
    <3> QED BY <2>13, <2>t, <2>o, <3>1 DEF CommitManifest, Go, memory, TypeInv, TypeOK, PlaceInv
  <2>14. CASE CommitDirect
    <3>1. Recorded(direct_symlinks) \in [Paths -> Linked]
      BY <2>14, <2>t, NodeFacts DEF CommitDirect, Recorded, TypeInv
    <3> QED BY <2>14, <2>t, <2>o, <3>1 DEF CommitDirect, Go, TypeInv, TypeOK, PlaceInv
  <2>15. ASSUME NEW p \in Paths, Migrate(p) PROVE TypeInv' /\ PlaceInv'
    <3>1. /\ pc = "migrate" /\ pc' = "migrate" /\ gen \in Gens /\ todo' \subseteq todo
          /\ UNCHANGED <<beyond, static, manifest, directState, clean, gen, base, files, direct_symlinks, outcome, reached>>
      BY <2>15, <2>t DEF Migrate, Loop, Go
    <3>2. Absent \in Nodes /\ Absent # Dir /\ Absent.type # "static"
      BY NodeFacts DEF Absent, Dir
    <3>3. etc' = etc \/ (etc' = [etc EXCEPT ![p] = Absent] /\ etc[p] # Dir)
      BY <1>n, <2>15, <2>t DEF Migrate, Put
    <3>4. /\ etc' \in [Paths -> Nodes] /\ \A q \in Paths : etc'[q] \in {etc[q], Absent}
          /\ \A q \in Paths : Parent[q] # Top => etc'[q] # Dir /\ (etc'[Parent[q]] # Dir => etc'[q] = Absent)
      BY <2>t, <2>w, <3>2, <3>3
    <3>5. TypeInv'
      BY <2>o, <2>t, <3>1, <3>4 DEF TypeInv, TypeOK
    <3> QED BY <3>1, <3>2, <3>4, <3>5 DEF PlaceInv
  <2>16. CASE Finish
    <3>1. outcome' \in Outcomes
      <4> DEFINE e == IF outcome.settled < 2 THEN outcome.settled + 1 ELSE outcome.settled
                 n == IF outcome.torn \subseteq {gen} /\ outcome.skipped = {} THEN {} ELSE outcome.torn
                 h == {p \in Paths : Tree[gen][p] # "none" /\ etc[p] = Wanted(gen, p)}
      <4>1. outcome' = [outcome EXCEPT !.how = "ok", !.settled = e, !.tried = {}, !.shown = h, !.torn = n]
        BY <2>16 DEF Finish
      <4>2. e \in 0 .. 2 /\ n \in SUBSET Gens /\ h \in SUBSET Paths
        BY <2>t DEF Outcomes
      <4> HIDE DEF e, n, h
      <4> QED BY <2>t, <4>1, <4>2 DEF Outcomes
    <3>2. base' \in [Paths -> Filed]
      BY <2>16, NodeFacts DEF Finish, Unload
    <3>3. gen \in Gens
      BY <2>16, <2>t DEF Finish
    <3> QED BY <2>16, <2>t, <2>o, <3>1, <3>2, <3>3 DEF Finish, Unload, TypeInv, TypeOK, PlaceInv
  <2>17. CASE Stop
    <3>1. outcome' \in Outcomes
      <4> DEFINE n == outcome.torn \cup {gen}
      <4>1. n \in SUBSET Gens
        BY <2>17, <2>t DEF Stop, Outcomes
      <4>2. outcome' = [outcome EXCEPT !.how = "failed", !.settled = 0, !.torn = n]
        BY <2>17 DEF Stop, Abort
      <4>3. 0 \in 0 .. 2
        OBVIOUS
      <4> HIDE DEF n
      <4> QED BY <2>t, <4>1, <4>2, <4>3 DEF Outcomes
    <3>2. base' \in [Paths -> Filed]
      BY <2>17, NodeFacts DEF Stop, Abort, Unload
    <3> QED BY <2>17, <2>t, <2>o, <3>1, <3>2 DEF Stop, Abort, Unload, disk, TypeInv, TypeOK, PlaceInv
  <2>18. ASSUME NEW p \in Paths, AdminWrite(p) PROVE TypeInv' /\ PlaceInv'
    <3>1. /\ pc = "idle" /\ pc' = "idle" /\ etc' = [etc EXCEPT ![p] = Plain("user")] /\ etc[p] # Dir
          /\ Parent[p] = Top \/ etc[Parent[p]] = Dir
          /\ UNCHANGED <<beyond, static, manifest, directState, clean, memory, reached>>
      BY <1>c, <1>n, <2>18, <2>t DEF AdminWrite, Put
    <3>2. Plain("user") \in Nodes /\ Plain("user") # Dir
      BY NodeFacts DEF Plain, Dir
    <3>3. outcome' \in Outcomes
      <4>1. outcome' = [outcome EXCEPT !.settled = 0]
        BY <2>18 DEF AdminWrite
      <4> QED BY <2>t, <4>1 DEF Outcomes
    <3>4. /\ etc' \in [Paths -> Nodes]
          /\ \A q \in Paths : Parent[q] # Top => etc'[q] # Dir /\ (etc'[Parent[q]] # Dir => etc'[q] = Absent)
      BY <2>w, <3>1, <3>2
    <3> QED BY <2>o, <2>t, <3>1, <3>3, <3>4 DEF memory, TypeInv, TypeOK, PlaceInv
  <2>19. CASE UNCHANGED vars
    BY <2>19, ZenonT(60) DEF vars, disk, memory, TypeInv, TypeOK, PlaceInv, DiffBase
  <2> QED BY <2>1, <2>2, <2>3, <2>4, <2>5, <2>6, <2>7, <2>8, <2>9, <2>10, <2>11, <2>12, <2>13, <2>14,
             <2>15, <2>16, <2>17, <2>18, <2>19 DEF Next, Step
<1> QED BY <1>1, <1>2, PTL DEF Spec

\* What may become of a path in a step, and why.
Change(q) ==
  \/ etc'[q] = etc[q]
  \/ pc = "dangling" /\ etc[q] = Plain("static") /\ Kind(q) \notin Leaves /\ etc'[q] = Absent
  \/ pc = "build" /\ etc[q] = Absent /\ Kind(q) = "dir" /\ etc'[q] = Dir
  \/ pc = "build" /\ etc[q] = Dir /\ Kind(q) \in Leaves /\ FullyStatic(q) /\ etc'[q] = Absent
  \/ /\ pc = "build" /\ etc[q] = Plain("static") /\ etc'[q] = Absent
     /\ Parent[q] \in Paths /\ Kind(Parent[q]) # "dir"
  \/ /\ pc = "diff" /\ q \in files /\ q \in todo /\ todo' = todo \ {q} /\ ~Through(q)
     /\ etc'[q] = Wanted(gen, q)
  \/ pc = "diff" /\ q \notin files /\ q \in todo /\ etc[q] = base[q] /\ etc'[q] = Absent
  \/ pc = "old links" /\ q \notin direct_symlinks /\ etc[q] = directState[q] /\ etc'[q] = Absent
  \/ /\ pc = "new links" /\ q \in todo /\ todo' = todo \ {q} /\ ~Through(q) /\ etc[q] # Dir
     /\ etc'[q] = Wanted(gen, q)
  \/ pc = "new links" /\ etc[q] = Absent /\ Kind(q) = "dir" /\ etc'[q] = Dir
  \/ pc = "migrate" /\ q \in todo /\ q \in Stale /\ etc[q] # Dir /\ etc'[q] = Absent
  \/ /\ pc = "idle" /\ AdminWrite(q) /\ etc'[q] = Plain("user") /\ etc[q] # Dir
     /\ Parent[q] = Top \/ etc[Parent[q]] = Dir

LEMMA Changes ==
  ASSUME TypeInv, PlaceInv, [Next]_vars, NEW q \in Paths
  PROVE  Change(q)
<1> USE DEF Change
<1>t. /\ etc \in [Paths -> Nodes] /\ (pc # "idle" => gen \in Gens)
      /\ etc[q] \in Nodes
      /\ etc[q].type = "dir" <=> etc[q] = Dir
      /\ etc[q].type = "static" <=> etc[q] = Plain("static")
      /\ etc[q].type = "absent" <=> etc[q] = Absent
      /\ \A p \in Paths : etc[p].type = "dir" <=> etc[p] = Dir
  BY NodeFacts DEF TypeInv, TypeOK
<1>c. /\ \A p \in Paths : Parent[p] = Top \/ (Parent[p] \in Paths /\ Parent[Parent[p]] = Top)
      /\ \A g \in Gens, p \in Paths :
           /\ Tree[g][p] \in Leaves \cup {"none", "dir"}
           /\ Tree[g][p] # "none" /\ Parent[p] # Top => Tree[g][p] # "dir" /\ Tree[g][Parent[p]] = "dir"
      /\ Top \notin Paths
  BY ConstantsOK
<1>1. CASE etc' = etc
  BY <1>1
<1>2. ASSUME NEW p \in Paths, RemoveDangling(p) PROVE Change(q)
  BY <1>2, <1>t DEF RemoveDangling, Dangling, Put
<1>3. ASSUME NEW p \in Paths, pc = "build", p \in todo, Kind(p) # "dir", Room(p), etc' = Cleared(p) PROVE Change(q)
  <2>1. etc'[q] = IF etc[p].type = "dir" /\ (q = p \/ Parent[q] = p) THEN Absent ELSE etc[q]
    BY <1>3 DEF Cleared, Children
  <2>2. Kind(p) \in Leaves
    BY <1>3, <1>c, <1>t DEF TypeInv, Kind
  <2>3. CASE q = p /\ etc[p].type = "dir"
    BY <1>3, <1>t, <2>1, <2>2, <2>3 DEF Room
  <2>4. CASE Parent[q] = p /\ etc[p].type = "dir" /\ q # p
    <3>1. etc[q].type \in {"absent", "static"}
      BY <1>3, <2>4 DEF Room, FullyStatic, Children
    <3> QED BY <1>3, <1>t, <2>1, <2>4, <3>1
  <2> QED BY <2>1, <2>3, <2>4
<1>4. ASSUME NEW p \in Paths, BuildEntry(p) PROVE Change(q)
  <2>1. pc = "build" /\ p \in todo
    BY <1>4 DEF BuildEntry
  <2>2. CASE Kind(p) # "dir" /\ Room(p) /\ etc' = Cleared(p)
    BY <1>3, <2>1, <2>2
  <2>3. CASE Kind(p) = "dir" /\ Put(p, IF etc[p] = Absent THEN Dir ELSE etc[p])
    BY <1>t, <2>1, <2>3 DEF Put
  <2> QED BY <1>1, <1>4, <2>2, <2>3 DEF BuildEntry
<1>5. ASSUME NEW p \in Paths, SkipEntry(p) PROVE Change(q)
  BY <1>3, <1>5 DEF SkipEntry
<1>6. ASSUME NEW p \in Paths, Diff(p) PROVE Change(q)
  BY <1>6, <1>t DEF Diff, Put, Loop
<1>7. ASSUME NEW p \in Paths, RemoveOldLink(p) PROVE Change(q)
  BY <1>7, <1>t DEF RemoveOldLink, Obsolete, Put
<1>8. ASSUME NEW p \in Paths, MakeLink(p) PROVE Change(q)
  <2>1. pc = "new links" /\ p \in todo /\ todo' = todo \ {p} /\ gen \in Gens /\ Kind(p) = "direct"
    BY <1>8, <1>t DEF MakeLink, Loop, TypeInv
  <2>2. CASE etc' # etc
    <3>1. /\ ~Through(p) /\ etc[p] # Dir
          /\ etc' = [r \in Paths |-> IF r = p THEN Wanted(gen, p)
                                     ELSE IF r = Parent[p] /\ etc[r] = Absent THEN Dir ELSE etc[r]]
      BY <1>8, <1>t, <2>2 DEF MakeLink
    <3>2. q = Parent[p] => Kind(q) = "dir"
      BY <1>c, <2>1 DEF Kind, Leaves
    <3> QED BY <2>1, <3>1, <3>2
  <2> QED BY <1>1, <2>2
<1>9. ASSUME NEW p \in Paths, Migrate(p) PROVE Change(q)
  BY <1>9, <1>t DEF Migrate, Put
<1>10. ASSUME NEW p \in Paths, AdminWrite(p) PROVE Change(q)
  <2>1. etc' = [etc EXCEPT ![p] = Plain("user")] /\ pc = "idle"
    BY <1>10 DEF AdminWrite, Put
  <2>2. CASE q = p
    BY <1>10, <1>c, <1>t, <2>1, <2>2 DEF AdminWrite
  <2> QED BY <1>t, <2>1, <2>2
<1>11. CASE \/ \E g \in Gens : Start(g)
            \/ SwapStatic \/ EndDangling \/ Prepare \/ EndDiff \/ EndOldLinks \/ CommitManifest
            \/ CommitDirect \/ Finish \/ Stop \/ UNCHANGED vars
  <2>1. etc' = etc
    BY <1>11 DEF Start, SwapStatic, EndDangling, Prepare, EndDiff, EndOldLinks, CommitManifest, CommitDirect,
                 Finish, Stop, disk, vars
  <2> QED BY <1>1, <2>1
<1> HIDE DEF Change
<1> QED BY <1>2, <1>4, <1>5, <1>6, <1>7, <1>8, <1>9, <1>10, <1>11 DEF Next, Step

\* Nothing is taken away from somebody else: a user's file goes only for an entry of the generation at
\* its very path or because the Perl script has listed it, and what the Perl script has copied goes
\* only once the manifest is committed, whatever the directories, generations and interruptions are.
THEOREM OthersAlwaysKept == Spec => OthersKept
<1>1. ASSUME TypeInv, PlaceInv, [Next]_vars PROVE [UserFilesKept /\ LegacyGoesLast]_vars
  <2>t. /\ pc # "idle" => gen \in Gens /\ (\A p \in files : Kind(p) \in Leaves) /\ todo \subseteq Paths
        /\ pc = "new links" => \A p \in todo : Kind(p) \in Leaves
        /\ etc \in [Paths -> Nodes] /\ base \in [Paths -> Filed] /\ directState \in [Paths -> Linked]
    BY <1>1 DEF TypeInv, TypeOK, Leaves
  <2>n. /\ \A n \in Filed \cup Linked : n.type \notin {"user", "legacy"}
        /\ Absent.type = "absent" /\ Dir.type = "dir" /\ Plain("static").type = "static"
        /\ Plain("user").type = "user" /\ Plain("user") # Absent
    BY NodeFacts DEF Absent, Dir, Plain
  <2>1. UserFilesKept
    <3> SUFFICES ASSUME pc # "idle", NEW p \in Paths,
                        etc[p].type = "user", p \notin clean, Tree[gen][p] \notin Leaves
                 PROVE  etc'[p] = etc[p]
      BY DEF UserFilesKept
    <3> QED BY <1>1, <2>t, <2>n, Changes DEF Change, Kind, Stale
  <2>2. LegacyGoesLast
    <3> SUFFICES ASSUME NEW p \in Paths, etc[p].type = "legacy", etc'[p] = Absent PROVE pc = "migrate"
      BY DEF LegacyGoesLast
    <3>1. \A g \in Gens : Tree[g][p] \in Leaves => Wanted(g, p) # Absent
      BY NodeFacts DEF Absent, Leaves
    <3> QED BY <1>1, <2>t, <2>n, <3>1, Changes DEF Change, Kind
  <2> QED BY <2>1, <2>2
<1> QED BY <1>1, TypeCorrect, PTL DEF Spec, OthersKept

\* What a run has written it has written as the generation wants it; a legacy file is on the list of
\* the Perl script until it is gone; and /etc/static leads to the generation that was activated.
LEMMA RunsKept == Spec => [](WrittenInv /\ RunInv /\ LinkInv)
<1> DEFINE I == WrittenInv /\ RunInv /\ LinkInv
<1>1. Init => I
  <2> SUFFICES ASSUME Init PROVE I
    OBVIOUS
  <2>1. /\ pc = "idle" /\ reached = None /\ outcome.how = "none" /\ outcome.settled = 0
        /\ files = {} /\ direct_symlinks = {}
    BY DEF Init
  <2>2. \A p \in Paths : etc[p] = Plain("legacy") => p \in clean
    BY DEF Init, Plain, Absent
  <2> QED BY <2>1, <2>2 DEF WrittenInv, Done, RunInv, LinkInv, Reached
<1>2. TypeInv /\ PlaceInv /\ TypeInv' /\ I /\ [Next]_vars => I'
  <2> SUFFICES ASSUME TypeInv, PlaceInv, TypeInv', WrittenInv, RunInv, LinkInv, [Next]_vars PROVE I'
    OBVIOUS
  <2>t. /\ outcome \in Outcomes /\ (pc # "idle" => gen \in Gens) /\ None \notin Gens
        /\ files \subseteq Paths /\ direct_symlinks \subseteq Paths
        /\ \A p \in Paths : Parent[p] # Top /\ etc[Parent[p]].type # "dir" => etc[p] = Absent
    BY ConstantsOK DEF TypeInv, TypeOK
  <2>k. \A p \in Own : pc # "idle" => Kind(p) \in Leaves /\ Kind(p) # "dir"
    BY DEF TypeInv, Own, Leaves
  <2>l. /\ \A p \in Paths : etc'[p] = Plain("legacy") => etc[p] = Plain("legacy")
        /\ \A p \in Paths : Kind(p) \in Leaves /\ gen \in Gens => Wanted(gen, p) # Plain("legacy")
        /\ Absent # Plain("legacy")
    <3>1. \A p \in Paths : Kind(p) \in Leaves /\ gen \in Gens => Wanted(gen, p) # Plain("legacy")
      BY NodeFacts DEF Kind, Plain, Leaves
    <3>2. Absent # Plain("legacy") /\ Dir # Plain("legacy") /\ Plain("user") # Plain("legacy")
      BY DEF Absent, Dir, Plain
    <3>3. \A p \in todo : pc = "new links" => p \in Own
      BY DEF TypeInv, Own
    <3> QED BY <2>t, <2>k, <3>1, <3>2, <3>3, Changes DEF Change, Own
  \* What was written stays, ...
  <2>d. ASSUME NEW p \in Paths, Done(p), gen' = gen, pc # "idle" PROVE etc'[p] \in {Wanted(gen', p), Absent}
    <3>1. etc[p] \in {Wanted(gen, p), Absent} /\ p \in Own /\ pc \in {"diff", "old links", "new links", "commit", "migrate"}
      BY <2>d DEF WrittenInv, Done, Own
    <3>2. Wanted(gen', p) = Wanted(gen, p)
      BY <2>d DEF Wanted
    <3> QED BY <2>d, <2>k, <3>1, <3>2, Changes DEF Change
  \* ... and most steps neither end nor begin a run, nor change the list of the Perl script.
  <2>i. ASSUME outcome' = outcome, UNCHANGED <<gen, reached, clean>>, pc # "idle", pc' # "idle",
               pc' # "static", static' = gen, pc' = "migrate" => \A p \in clean : etc'[p] = Plain("legacy") => p \in todo'
        PROVE  RunInv' /\ LinkInv'
    BY <2>i, <2>l DEF RunInv, LinkInv, Reached
  <2>1. ASSUME NEW g \in Gens, Start(g) PROVE I'
    <3>1. /\ outcome'.goal = g /\ g \in outcome'.tried /\ outcome'.how = outcome.how
          /\ outcome'.settled > 0 => g = outcome.goal /\ outcome.settled > 0
      BY <2>1, <2>t DEF Start, Outcomes
    <3> QED BY <2>1, <2>l, <3>1 DEF Start, WrittenInv, Done, RunInv, LinkInv, Reached, disk, TypeInv
  <2>2. CASE SwapStatic
    BY <2>2, <2>i, <2>t DEF SwapStatic, Go, memory, WrittenInv, Done
  <2>3. CASE EndDangling \/ \E p \in Paths : RemoveDangling(p) \/ BuildEntry(p)
    BY <2>3, <2>i, <2>t DEF EndDangling, RemoveDangling, BuildEntry, Loop, Go, memory, disk, WrittenInv, Done, LinkInv
  <2>4. ASSUME NEW p \in Paths, SkipEntry(p) PROVE I'
    <3>1. outcome'.goal = outcome.goal /\ outcome'.tried = outcome.tried /\ outcome'.how = outcome.how
          /\ outcome'.settled = outcome.settled
      BY <2>4, <2>t DEF SkipEntry, Outcomes
    <3> QED BY <2>4, <2>l, <3>1 DEF SkipEntry, WrittenInv, Done, RunInv, LinkInv, Reached
  <2>5. CASE Prepare
    BY <2>5, <2>i, <2>t DEF Prepare, Go, disk, WrittenInv, Done, LinkInv, TypeInv
  <2>6. ASSUME NEW r \in Paths, Diff(r) PROVE I'
    <3>1. /\ pc = "diff" /\ pc' = "diff" /\ gen' = gen /\ files' = files /\ direct_symlinks' = direct_symlinks
          /\ todo' = todo \ {r}
      BY <2>6 DEF Diff, Loop, Go
    <3>2. ASSUME NEW p \in Paths, Done(p)' PROVE etc'[p] \in {Wanted(gen', p), Absent}
      <4>1. p \in files /\ p \notin todo'
        BY <3>1, <3>2 DEF Done
      <4>2. CASE p = r
        <5>1. CASE Through(p)
          BY <2>6, <2>t, <4>1, <4>2, <5>1 DEF Diff, Through
        <5>2. CASE ~Through(p)
          BY <2>6, <3>1, <4>1, <4>2, <5>2 DEF Diff, Put, Wanted, TypeInv, TypeOK
        <5> QED BY <5>1, <5>2
      <4>3. CASE p # r
        BY <2>d, <3>1, <4>1, <4>3 DEF Done
      <4> QED BY <4>2, <4>3
    <3>3. RunInv' /\ LinkInv'
      BY <2>6, <2>i, <3>1 DEF Diff, Loop, Go, LinkInv
    <3> QED BY <3>2, <3>3 DEF WrittenInv
  <2>7. CASE EndDiff \/ EndOldLinks \/ CommitManifest \/ CommitDirect \/ \E p \in Paths : RemoveOldLink(p)
    <3>1. /\ pc \notin {"idle", "static"} /\ pc' \notin {"idle", "static"} /\ gen' = gen /\ static' = static
          /\ outcome' = outcome /\ UNCHANGED <<reached, clean>>
          /\ pc' = "migrate" => todo' = clean
      BY <2>7 DEF EndDiff, EndOldLinks, CommitManifest, CommitDirect, RemoveOldLink, Loop, Go, disk, memory
    <3>2. \A p \in Paths : Done(p)' => Done(p)
      BY <2>7 DEF EndDiff, EndOldLinks, CommitManifest, CommitDirect, RemoveOldLink, Loop, Go, disk, memory, Done
    <3> QED BY <2>d, <2>i, <3>1, <3>2 DEF WrittenInv, LinkInv
  <2>8. ASSUME NEW r \in Paths, MakeLink(r) PROVE I'
    <3>1. /\ pc = "new links" /\ pc' = "new links" /\ gen' = gen /\ files' = files /\ direct_symlinks' = direct_symlinks
          /\ todo' = todo \ {r}
      BY <2>8 DEF MakeLink, Loop, Go
    <3>2. ASSUME NEW p \in Paths, Done(p)' PROVE etc'[p] \in {Wanted(gen', p), Absent}
      <4>1. CASE Done(p)
        BY <2>d, <3>1, <4>1
      <4>2. CASE ~Done(p)
        <5>1. p = r
          BY <3>1, <3>2, <4>2 DEF Done
        <5>2. CASE Through(p)
          BY <2>8, <2>t, <5>1, <5>2 DEF MakeLink, Through
        <5>3. CASE ~Through(p)
          BY <2>8, <3>1, <5>1, <5>3 DEF MakeLink, Wanted
        <5> QED BY <5>2, <5>3
      <4> QED BY <4>1, <4>2
    <3>3. RunInv' /\ LinkInv'
      BY <2>8, <2>i, <3>1 DEF MakeLink, Loop, Go, LinkInv
    <3> QED BY <3>2, <3>3 DEF WrittenInv
  <2>9. ASSUME NEW r \in Paths, Migrate(r) PROVE I'
    <3>1. /\ pc = "migrate" /\ pc' = "migrate" /\ gen' = gen /\ files' = files /\ direct_symlinks' = direct_symlinks
          /\ todo' = todo \ {r} /\ outcome' = outcome /\ UNCHANGED <<reached, clean, static>>
      BY <2>9 DEF Migrate, Loop, Go
    <3>2. \A p \in Paths : Done(p)' => Done(p)
      BY <3>1 DEF Done
    <3>3. ASSUME NEW p \in clean, etc'[p] = Plain("legacy") PROVE p \in todo'
      <4>1. p \in Paths
        BY DEF TypeInv, TypeOK
      <4>2. etc[p] = Plain("legacy") /\ p \in todo
        BY <2>l, <3>1, <3>3, <4>1 DEF RunInv
      <4>3. p # r
        <5> SUFFICES ASSUME p = r PROVE FALSE
          OBVIOUS
        <5>1. CASE p \in Stale
          <6>1. etc[p].type # "dir"
            BY <4>2 DEF Plain
          <6>2. etc'[p] = Absent
            BY <2>9, <4>1, <5>1, <6>1 DEF Migrate, Put, TypeInv, TypeOK
          <6> QED BY <2>l, <3>3, <6>2
        <5>2. CASE p \notin Stale
          <6>1. Done(p) /\ p \in Own
            BY <3>1, <5>2 DEF Stale, Done, Own
          <6> QED BY <2>k, <2>l, <2>t, <3>1, <4>1, <4>2, <6>1 DEF WrittenInv
        <5> QED BY <5>1, <5>2
      <4> QED BY <3>1, <4>2, <4>3
    <3>4. RunInv' /\ LinkInv'
      BY <2>i, <3>1, <3>3 DEF LinkInv
    <3> QED BY <2>d, <3>1, <3>2, <3>4 DEF WrittenInv
  <2>10. CASE Finish
    <3>1. /\ outcome'.goal = outcome.goal /\ outcome'.how = "ok" /\ reached' = gen /\ gen \in Gens /\ pc' = "idle"
          /\ files' = {} /\ direct_symlinks' = {} /\ clean' = {} /\ etc' = etc /\ static' = static /\ pc = "migrate"
      BY <2>10, <2>t DEF Finish, Unload, Outcomes
    <3>2. \A p \in Paths : etc[p] # Plain("legacy")
      BY <2>10 DEF Finish, RunInv
    <3>3. RunInv'
      BY <2>t, <3>1, <3>2 DEF RunInv
    <3>4. \A p \in Paths : etc[p] = Plain("static") => Tree[gen][p] \in Leaves
      BY <3>1 DEF PlaceInv, Kind, Plain
    <3> QED BY <3>1, <3>3, <3>4 DEF WrittenInv, Done, LinkInv
  <2>11. CASE Stop
    <3>1. outcome'.settled = 0 /\ outcome'.how = "failed"
      BY <2>11, <2>t DEF Stop, Abort, Outcomes
    <3>2. pc' = "idle" /\ files' = {} /\ direct_symlinks' = {} /\ UNCHANGED <<reached, clean, static, etc>>
      BY <2>11 DEF Stop, Abort, Unload, disk
    <3>3. WrittenInv' /\ LinkInv'
      BY <3>1, <3>2 DEF WrittenInv, Done, LinkInv, Reached
    <3> QED BY <3>1, <3>2, <3>3 DEF RunInv
  <2>12. ASSUME NEW p \in Paths, AdminWrite(p) PROVE I'
    <3>1. outcome'.settled = 0 /\ outcome'.how = outcome.how
      BY <2>12, <2>t DEF AdminWrite, Outcomes
    <3> QED BY <2>12, <2>l, <3>1 DEF AdminWrite, memory, WrittenInv, Done, RunInv, LinkInv, Reached, TypeInv
  <2>13. CASE UNCHANGED vars
    BY <2>13 DEF vars, disk, memory, WrittenInv, Done, RunInv, LinkInv, Reached, Kind, Wanted
  <2> QED BY <2>1, <2>2, <2>3, <2>4, <2>5, <2>6, <2>7, <2>8, <2>9, <2>10, <2>11, <2>12, <2>13 DEF Next, Step
<1> QED BY <1>1, <1>2, TypeCorrect, PTL DEF Spec

\* Of earlier generations nothing stays: when a generation is reached, every copy and direct link that
\* was ever made is of it, on record, or of a run that was cut and followed by another
\* generation; every link into /etc/static and every copy of the Perl script is of it too.
THEOREM NothingEverStays == Spec => [](RecordInv /\ RestInv /\ NothingStays)
<1> DEFINE I == RecordInv /\ RestInv
<1> USE DEF Leaves
<1>n. /\ \A n \in Nodes : n \in {Absent, Dir, Plain("static"), Plain("legacy"), Plain("user"), Plain("direct")}
                             \/ n \in [type : {"direct", "copy"}, gen : Gens]
      /\ \A n \in {Absent, Dir, Plain("static"), Plain("legacy"), Plain("user"), Plain("direct")} :
           n \notin [type : {"direct", "copy"}, gen : Gens]
      /\ None \notin Gens
  BY ConstantsOK DEF Nodes, Absent, Dir, Plain
<1>1. Init => I
  <2> SUFFICES ASSUME Init PROVE I
    OBVIOUS
  <2>1. pc = "idle" /\ outcome.how = "none" /\ files = {} /\ direct_symlinks = {}
    BY DEF Init
  <2>2. \A p \in Paths : ~Ours(p)
    <3> SUFFICES ASSUME NEW p \in Paths PROVE ~Ours(p)
      OBVIOUS
    <3>1. etc[p] \in {Absent} \/ \E g \in Gens : etc[p] = PerlNode(g, p)
      BY ConstantsOK DEF Init
    <3>2. etc[p].gen = None
      <4>1. ASSUME NEW g \in Gens PROVE PerlNode(g, p).gen = None
        BY DEF PerlNode, Plain
      <4>2. Absent.gen = None
        BY DEF Absent
      <4> QED BY <3>1, <4>1, <4>2
    <3> QED BY <1>n, <3>2 DEF Ours
  <2> QED BY <2>1, <2>2 DEF RecordInv, RestInv, Reached
<1>2. TypeInv /\ PlaceInv /\ WrittenInv /\ RunInv /\ LinkInv /\ TypeInv' /\ I /\ [Next]_vars => I'
  <2> SUFFICES ASSUME TypeInv, PlaceInv, WrittenInv, RunInv, LinkInv, TypeInv', RecordInv, RestInv, [Next]_vars
               PROVE  RecordInv' /\ RestInv'
    OBVIOUS
  <2>t. /\ outcome \in Outcomes /\ (pc # "idle" => gen \in Gens)
        /\ files \subseteq Paths /\ direct_symlinks \subseteq Paths /\ Own \subseteq Paths
        /\ etc \in [Paths -> Nodes] /\ manifest \in [Paths -> Filed] /\ directState \in [Paths -> Linked]
        /\ \A p \in Paths : Parent[p] # Top /\ etc[Parent[p]].type # "dir" => etc[p] = Absent
        /\ \A p \in Own : pc # "idle" => Kind(p) \in Leaves /\ Kind(p) # "dir"
    BY DEF TypeInv, TypeOK, Own
  \* What is ours after a step was there before, or the step has written it.
  <2>o. ASSUME NEW p \in Paths, Ours(p)'
        PROVE  (etc'[p] = etc[p] /\ Ours(p)) \/ (p \in Own /\ pc \in {"diff", "new links"} /\ p \notin todo')
    <3>1. etc'[p] \notin {Absent, Dir, Plain("static"), Plain("legacy"), Plain("user"), Plain("direct")}
      BY <1>n, <2>o DEF Ours
    <3>2. pc = "new links" => todo \subseteq Own
      BY DEF TypeInv, Own
    <3> QED BY <2>o, <3>1, <3>2, Changes DEF Change, Ours, Own
  \* Most steps end nothing: the run that is cut and the run that was reached are what they were.
  <2>r. ASSUME pc' # "idle" PROVE RestInv'
    BY <2>r DEF RestInv, Reached
  <2>1. CASE pc' \in {"static", "dangling"}
    <3>1. /\ pc \in {"idle", "static", "dangling"} /\ manifest' = manifest /\ directState' = directState
          /\ outcome'.torn = outcome.torn
      BY <2>1, <2>t DEF Next, Step, Start, SwapStatic, RemoveDangling, EndDangling, BuildEntry, SkipEntry, Prepare,
           Diff, EndDiff, RemoveOldLink, EndOldLinks, MakeLink, CommitManifest, CommitDirect, Migrate, Finish, Stop,
           Abort, AdminWrite, Loop, Go, disk, vars, Outcomes
    <3>2. \A p \in Paths : Ours(p)' => etc'[p] = etc[p] /\ Ours(p) /\ ~Done(p)
      BY <2>o, <3>1 DEF Done
    <3>3. RecordInv'
      BY <2>1, <3>1, <3>2 DEF RecordInv, Torn
    <3> QED BY <2>1, <2>r, <3>3
  <2>2. CASE EndDangling
    <3>1. /\ pc = "dangling" /\ pc' = "build" /\ todo' = {p \in Paths : Kind(p) # "none"} /\ gen' = gen
          /\ manifest' = manifest /\ directState' = directState /\ outcome' = outcome
      BY <2>2 DEF EndDangling, Go, disk
    <3>2. \A p \in Paths : Ours(p)' => etc'[p] = etc[p] /\ Ours(p) /\ ~Done(p)
      BY <2>o, <3>1 DEF Done
    <3>3. RecordInv'
      BY <3>1, <3>2 DEF RecordInv, Torn, Kind
    <3> QED BY <2>r, <3>1, <3>3
  <2>3. ASSUME NEW r \in Paths, BuildEntry(r) \/ SkipEntry(r) PROVE RecordInv' /\ RestInv'
    <3>1. /\ pc = "build" /\ pc' = "build" /\ gen' = gen /\ r \in todo
          /\ manifest' = manifest /\ directState' = directState /\ outcome'.torn = outcome.torn
          /\ outcome.skipped \subseteq outcome'.skipped /\ Own \subseteq Own'
      BY <2>3, <2>t DEF BuildEntry, SkipEntry, AddEntry, Loop, Go, Outcomes, Own
    <3>2. \A p \in Paths : Ours(p)' => etc'[p] = etc[p] /\ Ours(p) /\ ~Done(p)
      BY <2>o, <3>1 DEF Done
    <3>3. ASSUME NEW p \in Paths, p \notin Own' \cup outcome'.skipped, p \notin todo', Kind(p) \in Leaves, Ours(p)'
          PROVE  FALSE
      <4>1. CASE p \notin todo
        BY <3>1, <3>2, <3>3, <4>1 DEF RecordInv
      <4>2. CASE p \in todo
        <5>1. etc[p].type \notin {"absent", "dir"}
          BY <3>2, <3>3 DEF Ours
        <5>2. p = r \/ (BuildEntry(r) /\ Kind(r) = "dir" /\ Parent[p] = r /\ etc[r].type # "dir")
          BY <2>3, <3>3, <4>2 DEF BuildEntry, SkipEntry, SkippedWith, Children, Loop
        <5>3. p = r
          <6>1. Absent.type = "absent" /\ r # Top
            BY ConstantsOK DEF Absent
          <6> QED BY <2>t, <5>1, <5>2, <6>1
        <5>4. CASE BuildEntry(r)
          BY <3>3, <5>1, <5>3, <5>4 DEF BuildEntry, AddEntry, Own, Room
        <5>5. CASE SkipEntry(r)
          BY <2>t, <3>3, <5>3, <5>5 DEF SkipEntry, Outcomes
        <5> QED BY <2>3, <5>4, <5>5
      <4> QED BY <4>1, <4>2
    <3>4. \A p \in Paths : Kind(p)' = Kind(p)
      BY <3>1 DEF Kind
    <3>5. RecordInv'
      BY <3>1, <3>2, <3>3, <3>4 DEF RecordInv, Torn
    <3> QED BY <2>r, <3>1, <3>5
  <2>4. CASE Prepare
    <3>1. /\ pc = "build" /\ pc' = "diff" /\ gen' = gen /\ todo = {} /\ Own' = Own
          /\ base' = DiffBase /\ todo' = files \cup {p \in Paths : base'[p] # Absent}
          /\ manifest' = manifest /\ directState' = directState /\ outcome' = outcome
      BY <2>4 DEF Prepare, Go, disk, Own
    <3>2. \A p \in Paths : Ours(p)' => etc'[p] = etc[p] /\ Ours(p) /\ ~Done(p)
      BY <2>o, <3>1 DEF Done
    <3>3. ASSUME NEW p \in Paths \ Own, Ours(p), ~Torn(p), p \notin todo' PROVE etc[p] = directState[p]
      <4>1. manifest[p] = Absent
        BY <3>1, <3>3 DEF DiffBase, Own
      <4>2. ~Ours(p) \/ etc[p] # Absent
        BY <1>n DEF Ours
      <4> QED BY <3>2, <3>1, <3>3, <4>1, <4>2 DEF RecordInv, Done
    <3>4. \A p \in Paths : Kind(p)' = Kind(p)
      BY <3>1 DEF Kind
    <3>5. RecordInv'
      BY <3>1, <3>2, <3>3, <3>4 DEF RecordInv, Torn
    <3> QED BY <2>r, <3>1, <3>5
  <2>5. ASSUME NEW r \in Paths, Diff(r) PROVE RecordInv' /\ RestInv'
    <3>1. /\ pc = "diff" /\ pc' = "diff" /\ gen' = gen /\ todo' = todo \ {r} /\ base = DiffBase
          /\ files' = files /\ direct_symlinks' = direct_symlinks
          /\ manifest' = manifest /\ directState' = directState /\ outcome' = outcome
      BY <2>5 DEF Diff, Loop, Go, TypeInv
    <3>2. \A p \in Paths : Ours(p)' => (etc'[p] = etc[p] /\ Ours(p)) \/ (p \in Own /\ p \notin todo')
      BY <2>o, <3>1
    <3>3. \A p \in Paths : Done(p) => Done(p)'
      BY <3>1 DEF Done
    <3>4. ASSUME NEW p \in Paths \ Own, etc'[p] = etc[p], Ours(p), ~Torn(p), p \notin todo'
          PROVE  etc[p] = directState[p]
      <4>1. ~Done(p)
        BY <3>4 DEF Done, Own
      <4>2. CASE p \notin todo
        BY <3>1, <3>4, <4>2 DEF RecordInv
      <4>3. CASE p = r
        <5>1. etc[p] # Absent
          BY <1>n, <3>4 DEF Ours
        <5>2. etc[p] # base[p]
          BY <2>5, <2>t, <3>4, <4>3, <5>1 DEF Diff, Put, Own
        <5>3. base[p] = manifest[p]
          BY <3>1, <3>4 DEF DiffBase, Own
        <5> QED BY <3>4, <4>1, <5>2, <5>3 DEF RecordInv
      <4> QED BY <3>1, <3>4, <4>2, <4>3
    <3>5. \A p \in Paths : Kind(p)' = Kind(p)
      BY <3>1 DEF Kind
    <3>6. \A p \in Paths : Ours(p)' => etc'[p] \in {manifest[p], directState[p]} \/ Torn(p) \/ Done(p)'
      <4> SUFFICES ASSUME NEW p \in Paths, Ours(p)'
                   PROVE  etc'[p] \in {manifest[p], directState[p]} \/ Torn(p) \/ Done(p)'
        OBVIOUS
      <4>1. CASE etc'[p] = etc[p] /\ Ours(p)
        BY <3>3, <4>1 DEF RecordInv
      <4>2. CASE etc'[p] # etc[p]
        BY <1>n, <3>1, <4>2, Changes DEF Change, Done, Ours
      <4> QED BY <3>2, <4>1, <4>2 DEF Ours
    <3>7. RecordInv'
      BY <3>1, <3>2, <3>4, <3>5, <3>6 DEF RecordInv, Torn, Own
    <3> QED BY <2>r, <3>1, <3>7
  <2>6. CASE EndDiff
    <3>1. /\ pc = "diff" /\ pc' = "old links" /\ gen' = gen /\ todo = {} /\ Own' = Own /\ etc' = etc
          /\ files' = files /\ direct_symlinks' = direct_symlinks /\ todo' = {p \in Paths : directState[p] # Absent}
          /\ manifest' = manifest /\ directState' = directState /\ outcome' = outcome
      BY <2>6 DEF EndDiff, Go, disk, Own
    <3>2. \A p \in Paths : Ours(p) => etc[p] # Absent
      BY <1>n DEF Ours
    <3>3. \A p \in Paths : (Kind(p)' = Kind(p)) /\ (Done(p) => Done(p)')
      BY <3>1 DEF Kind, Done
    <3>4. RecordInv'
      BY <3>1, <3>2, <3>3 DEF RecordInv, Torn, Ours
    <3> QED BY <2>r, <3>1, <3>4
  <2>7. ASSUME NEW r \in Paths, RemoveOldLink(r) PROVE RecordInv' /\ RestInv'
    <3>1. /\ pc = "old links" /\ pc' = "old links" /\ gen' = gen /\ todo' = todo \ {r} /\ Own' = Own
          /\ files' = files /\ direct_symlinks' = direct_symlinks
          /\ manifest' = manifest /\ directState' = directState /\ outcome' = outcome
      BY <2>7 DEF RemoveOldLink, Loop, Go, Own
    <3>2. \A p \in Paths : Ours(p)' => etc'[p] = etc[p] /\ Ours(p)
      BY <2>o, <3>1
    <3>3. \A p \in Paths : (Kind(p)' = Kind(p)) /\ (Done(p) => Done(p)')
      BY <3>1 DEF Kind, Done
    <3>4. ASSUME r \notin Own, Ours(r)', ~Torn(r) PROVE FALSE
      <4>1. etc'[r] = etc[r] /\ etc[r] = directState[r] /\ etc[r] # Absent
        BY <1>n, <3>1, <3>2, <3>4 DEF RecordInv, Ours
      <4> QED BY <2>7, <2>t, <3>4, <4>1 DEF RemoveOldLink, Obsolete, Put, Own
    <3>5. RecordInv'
      BY <3>1, <3>2, <3>3, <3>4 DEF RecordInv, Torn
    <3> QED BY <2>r, <3>1, <3>5
  <2>8. CASE EndOldLinks
    <3>1. /\ pc = "old links" /\ pc' = "new links" /\ gen' = gen /\ todo = {} /\ Own' = Own /\ etc' = etc
          /\ files' = files /\ direct_symlinks' = direct_symlinks
          /\ manifest' = manifest /\ directState' = directState /\ outcome' = outcome
      BY <2>8 DEF EndOldLinks, Go, disk, Own
    <3>3. \A p \in Paths : (Kind(p)' = Kind(p)) /\ (Done(p) => Done(p)')
      BY <3>1 DEF Kind, Done
    <3>4. RecordInv'
      BY <3>1, <3>3 DEF RecordInv, Torn, Ours
    <3> QED BY <2>r, <3>1, <3>4
  <2>9. ASSUME NEW r \in Paths, MakeLink(r) PROVE RecordInv' /\ RestInv'
    <3>1. /\ pc = "new links" /\ pc' = "new links" /\ gen' = gen /\ todo' = todo \ {r} /\ Own' = Own
          /\ files' = files /\ direct_symlinks' = direct_symlinks
          /\ manifest' = manifest /\ directState' = directState /\ outcome' = outcome
      BY <2>9 DEF MakeLink, Loop, Go, Own
    <3>2. \A p \in Paths : Ours(p)' => (etc'[p] = etc[p] /\ Ours(p)) \/ p \in Own
      BY <2>o, <3>1
    <3>3. \A p \in Paths : (Kind(p)' = Kind(p)) /\ (Done(p) => Done(p)')
      BY <3>1 DEF Kind, Done
    <3>4. \A p \in Paths : Ours(p)' => etc'[p] \in {manifest[p], directState[p]} \/ Torn(p) \/ Done(p)'
      <4> SUFFICES ASSUME NEW p \in Paths, Ours(p)'
                   PROVE  etc'[p] \in {manifest[p], directState[p]} \/ Torn(p) \/ Done(p)'
        OBVIOUS
      <4>1. CASE etc'[p] = etc[p]
        BY <3>3, <4>1 DEF RecordInv, Ours
      <4>2. CASE etc'[p] # etc[p]
        <5>1. pc = "new links" => todo \subseteq direct_symlinks
          BY DEF TypeInv
        <5> QED BY <1>n, <3>1, <4>2, <5>1, Changes DEF Change, Done, Ours
      <4> QED BY <4>1, <4>2
    <3>5. RecordInv'
      BY <3>1, <3>2, <3>3, <3>4 DEF RecordInv, Torn
    <3> QED BY <2>r, <3>1, <3>5
  <2>10. CASE CommitManifest \/ CommitDirect \/ \E r \in Paths : Migrate(r)
    <3>1. /\ pc \in {"new links", "commit", "migrate"} /\ pc' \in {"commit", "migrate"} /\ gen' = gen
          /\ files' = files /\ direct_symlinks' = direct_symlinks /\ Own' = Own /\ outcome' = outcome
          /\ pc = "new links" => todo = {}
          /\ manifest' = IF pc = "new links" THEN Recorded(files) ELSE manifest
          /\ pc' = "migrate" => directState' = IF pc = "commit" THEN Recorded(direct_symlinks) ELSE directState
      BY <2>10 DEF CommitManifest, CommitDirect, Migrate, Loop, Go, memory, Own
    <3>2. \A p \in Paths : Ours(p)' => etc'[p] = etc[p] /\ Ours(p)
      <4>1. CASE CommitManifest
        BY <4>1 DEF CommitManifest, Ours
      <4>2. CASE ~CommitManifest
        <5>1. pc \notin {"diff", "new links"}
          BY <2>10, <4>2 DEF CommitDirect, Migrate
        <5> QED BY <2>o, <5>1
      <4> QED BY <4>1, <4>2
    <3>3. \A p \in Paths : p \in Own => Done(p)'
      BY <3>1 DEF Done, Own
    <3>4. \A p \in Paths \ Own : Ours(p) => Torn(p)
      BY <3>1 DEF RecordInv
    <3>6. (\A p \in Paths : Kind(p)' = Kind(p)) /\ \A S : Recorded(S)' = Recorded(S)
      BY <3>1 DEF Kind, Recorded, Wanted
    <3>7. manifest' = Recorded(files) /\ (pc' = "migrate" => directState' = Recorded(direct_symlinks))
      BY <2>10, <3>1 DEF RecordInv, CommitManifest, CommitDirect, Migrate, Go, Loop
    <3>8. RecordInv'
      BY <3>1, <3>2, <3>3, <3>4, <3>6, <3>7 DEF RecordInv, Torn
    <3> QED BY <2>r, <3>1, <3>8
  <2>11. CASE Finish
    <3>1. /\ pc = "migrate" /\ todo = {} /\ pc' = "idle" /\ etc' = etc /\ gen \in Gens /\ reached' = gen
          /\ files' = {} /\ direct_symlinks' = {} /\ Own' = {}
          /\ manifest' = manifest /\ directState' = directState
          /\ outcome'.torn = IF outcome.torn \subseteq {gen} /\ outcome.skipped = {} THEN {} ELSE outcome.torn
      BY <2>11, <2>t DEF Finish, Unload, Own, Outcomes
    <3>2. ASSUME NEW p \in Paths, Done(p), Ours(p) PROVE etc[p] \in {manifest[p], directState[p]}
      <4>1. etc[p] = Wanted(gen, p)
        BY <1>n, <3>2 DEF WrittenInv, Ours
      <4>2. manifest = Recorded(files) /\ directState = Recorded(direct_symlinks)
        BY <3>1 DEF RecordInv
      <4>3. p \in files \/ p \in direct_symlinks
        BY <3>2 DEF Done
      <4> QED BY <4>1, <4>2, <4>3 DEF Recorded
    <3>3. \A p \in Own : Done(p)
      BY <3>1 DEF Own, Done
    <3>4. ASSUME NEW p \in Paths \ Own, Ours(p) 
          PROVE  \E g \in outcome.torn : Tree[g][p] \in Leaves /\ (g = gen => p \in outcome.skipped)
      <4>1. Torn(p)
        BY <3>1, <3>4 DEF RecordInv
      <4>2. Kind(p) \in Leaves => p \in outcome.skipped
        BY <3>1, <3>4 DEF RecordInv
      <4> QED BY <4>1, <4>2 DEF Torn, Kind
    <3>5. RecordInv'
      BY <3>1, <3>2, <3>3, <3>4 DEF RecordInv, Torn, Ours
    <3>6. ASSUME Reached', outcome'.torn \subseteq {gen}, NEW p \in Paths, Tree[gen][p] \notin Leaves
          PROVE  etc[p] \in {Absent, Dir} \/ Foreign(p)
      <4>1. p \notin Own
        BY <2>t, <3>1, <3>6 DEF Kind
      <4>2. ~Ours(p)
        BY <3>1, <3>4, <3>6, <4>1
      <4>3. etc[p] # Plain("static")
        BY <3>1, <3>6 DEF PlaceInv, Kind, Plain
      <4>4. etc[p] # Plain("legacy")
        BY <3>1 DEF RunInv
      <4> QED BY <1>n, <2>t, <4>2, <4>3, <4>4 DEF Ours, Foreign
    <3>7. RestInv'
      BY <3>1, <3>6 DEF RestInv, Foreign
    <3> QED BY <3>5, <3>7
  <2>12. CASE Stop
    <3>1. /\ pc # "idle" /\ gen \in Gens /\ pc' = "idle" /\ etc' = etc /\ Own' = {}
          /\ manifest' = manifest /\ directState' = directState
          /\ outcome'.torn = outcome.torn \cup {gen} /\ outcome'.settled = 0
      BY <2>12, <2>t DEF Stop, Abort, Unload, disk, Own, Outcomes
    <3>2. \A p \in Paths : Done(p) => Tree[gen][p] \in Leaves
      BY <2>t, <3>1 DEF Done, Own, Kind
    <3>3. RecordInv'
      BY <3>1, <3>2 DEF RecordInv, Torn, Ours
    <3> QED BY <3>1, <3>3 DEF RestInv, Reached
  <2>13. ASSUME NEW r \in Paths, AdminWrite(r) PROVE RecordInv' /\ RestInv'
    <3>1. /\ pc = "idle" /\ pc' = "idle" /\ manifest' = manifest /\ directState' = directState
          /\ outcome'.torn = outcome.torn /\ outcome'.settled = 0
      BY <2>13, <2>t DEF AdminWrite, Outcomes
    <3>2. \A p \in Paths : Ours(p)' => etc'[p] = etc[p] /\ Ours(p) /\ ~Done(p)
      BY <2>o, <3>1 DEF Done
    <3>3. RecordInv'
      BY <3>1, <3>2 DEF RecordInv, Torn
    <3> QED BY <3>1, <3>3 DEF RestInv, Reached
  <2>14. CASE UNCHANGED vars
    BY <2>14 DEF vars, disk, memory, RecordInv, RestInv, Reached, Foreign, Ours, Torn, Done, Own, Kind, Recorded, Wanted
  <2>15. \A g \in Gens : Start(g) => pc' = "static"
    BY DEF Start
  <2>16. SwapStatic \/ (\E p \in Paths : RemoveDangling(p)) => pc' = "dangling"
    BY DEF SwapStatic, RemoveDangling, Go
  <2> QED BY <2>1, <2>2, <2>3, <2>4, <2>5, <2>6, <2>7, <2>8, <2>9, <2>10, <2>11, <2>12, <2>13, <2>14, <2>15, <2>16
          DEF Next, Step
<1>3. TypeInv /\ RunInv /\ I => NothingStays
  <2> SUFFICES ASSUME TypeInv, RunInv, RecordInv, RestInv PROVE NothingStays
    OBVIOUS
  <2>1. NoOrphans
    BY DEF NoOrphans, RestInv, Absent, Dir
  <2>2. LegacyGone
    <3>1. \A p \in Paths : etc[p].type = "legacy" => etc[p] = Plain("legacy")
      BY NodeFacts DEF TypeInv
    <3> QED BY <3>1 DEF LegacyGone, Reached, RunInv
  <2> QED BY <2>1, <2>2 DEF NothingStays
<1> QED BY <1>1, <1>2, <1>3, TypeCorrect, RunsKept, PTL DEF Spec

\* A path that was in place when a generation was reached, and that every generation tried since has as
\* a file or link, shows one of them at all times, whatever the runs are cut at.
THEOREM AlwaysOldOrNew == Spec => []OldOrNew
<1> USE DEF Leaves, Tried
<1>n. /\ \A n \in Filed \cup Linked : n \notin {Plain("user"), Plain("direct")}
      /\ Absent.gen = None /\ Dir.gen = None /\ Absent.type # "static" /\ Dir.type # "static"
      /\ Absent \notin {Plain("user"), Plain("direct")} /\ Dir \notin {Plain("user"), Plain("direct")}
      /\ Plain("static") \notin {Plain("user"), Plain("direct")}
      /\ None \notin Gens
  BY ConstantsOK, NodeFacts DEF Absent, Dir, Plain
<1>c. \A p \in Paths : /\ Parent[p] # Top => Parent[p] \in Paths
                       /\ \A g \in Gens : Tree[g][p] \in Leaves /\ Parent[p] # Top => Tree[g][Parent[p]] = "dir"
  BY ConstantsOK
<1>1. Init => FineInv
  BY DEF Init, FineInv
<1>2. TypeInv /\ PlaceInv /\ WrittenInv /\ RunInv /\ LinkInv /\ TypeInv' /\ FineInv /\ [Next]_vars => FineInv'
  <2> SUFFICES ASSUME TypeInv, PlaceInv, WrittenInv, RunInv, LinkInv, TypeInv', FineInv, [Next]_vars
               PROVE  FineInv'
    OBVIOUS
  <2>t. /\ outcome \in Outcomes /\ (pc # "idle" => gen \in Gens /\ gen \in outcome.tried)
        /\ reached \in Gens \cup {None} /\ outcome.tried \subseteq Gens
        /\ etc \in [Paths -> Nodes] /\ base \in [Paths -> Filed] /\ directState \in [Paths -> Linked]
        /\ todo \subseteq Paths /\ files \subseteq Paths /\ direct_symlinks \subseteq Paths
        /\ \A p \in Own : pc # "idle" => Kind(p) \in Leaves
        /\ pc = "new links" => \A p \in todo : Kind(p) \in Leaves
        /\ \A p \in Paths : Parent[p] # Top /\ etc[Parent[p]].type # "dir" => etc[p] = Absent
    BY DEF TypeInv, TypeOK, Own, RunInv, Outcomes
  <2>m. reached # None /\ pc = "migrate" => todo = {}
    BY DEF RunInv, TypeInv
  \* A run leaves alone what is nobody's where the generation has a directory.
  <2>h. ASSUME NEW p \in Paths, Hidden(p), reached # None, pc # "idle", Kind(p) \in Leaves PROVE Hidden(p)'
    <3>1. Parent[p] \in Paths /\ Kind(Parent[p]) = "dir" /\ Foreign(Parent[p])
      BY <1>c, <2>h, <2>t DEF Hidden, Kind
    <3>2. Parent[p] \notin Own
      BY <2>h, <2>t, <3>1
    <3>3. etc'[Parent[p]] = etc[Parent[p]]
      BY <1>n, <2>h, <2>m, <2>t, <3>1, <3>2, Changes DEF Change, Foreign, Own
    <3> QED BY <2>h, <3>1, <3>3 DEF Hidden, Foreign
  \* What is shown is shown after a step of a run.
  <2>s. ASSUME NEW p \in Paths, Steady(p), reached # None, pc # "idle", static' \in Tried
        PROVE  Foreign(p)' \/ Hidden(p)' \/ Shows(p)' \in Tried
    <3>1. /\ Kind(p) \in Leaves /\ Kind(p) # "dir" /\ (Parent[p] \in Paths => Kind(Parent[p]) = "dir")
          /\ Foreign(p) \/ Hidden(p) \/ Shows(p) \in Tried
      <4>1. gen \in Tried /\ gen \in Gens /\ Tree[gen][p] \in Leaves
        BY <2>s, <2>t DEF Steady
      <4>2. Parent[p] \in Paths => Parent[p] # Top
        BY ConstantsOK
      <4>3. Foreign(p) \/ Hidden(p) \/ Shows(p) \in Tried
        BY <2>s DEF FineInv
      <4> QED BY <1>c, <4>1, <4>2, <4>3 DEF Kind
    <3>2. CASE Hidden(p)
      BY <2>h, <2>s, <3>1, <3>2
    <3>3. CASE etc'[p] = etc[p] /\ ~Hidden(p)
      BY <2>s, <3>1, <3>3 DEF Shows, Foreign
    <3>4. CASE etc'[p] = Wanted(gen, p)
      <4>1. etc'[p].type = "static" \/ etc'[p].gen = gen
        <5>1. gen \in Gens /\ Tree[gen][p] \in Leaves
          BY <2>s, <2>t, <3>1 DEF Kind
        <5>2. Wanted(gen, p).type = Tree[gen][p] /\ (Tree[gen][p] \in {"direct", "copy"} => Wanted(gen, p).gen = gen)
          BY <5>1, NodeFacts
        <5> QED BY <3>4, <5>1, <5>2
      <4> QED BY <2>s, <2>t, <4>1 DEF Shows
    <3>5. CASE etc'[p] = Absent /\ etc[p] # Absent /\ ~Hidden(p)
      <4>1. etc[p] # Dir
        BY <1>n, <2>s, <2>t, <3>1, <3>5 DEF Shows, Foreign
      <4>2. pc \in {"diff", "old links", "new links", "commit", "migrate"} => p \in Own
        BY <2>s, <3>5 DEF FineInv
      <4>3. pc = "diff" /\ p \notin files => base[p] = Absent
        BY <4>2 DEF Own, DiffBase, TypeInv
      <4>4. pc = "old links" /\ p \notin direct_symlinks => etc[p] = Absent \/ etc[p] # directState[p]
        <5> SUFFICES ASSUME pc = "old links", p \notin direct_symlinks, etc[p] # Absent, etc[p] = directState[p]
                     PROVE  FALSE
          OBVIOUS
        <5>1. p \in files /\ etc[p] = Wanted(gen, p)
          BY <4>2 DEF Own, Done, WrittenInv
        <5>2. Kind(p) \in {"static", "copy"}
          BY <2>t, <5>1 DEF TypeInv
        <5>3. Wanted(gen, p).type = Kind(p)
          BY <2>t, NodeFacts DEF Kind
        <5>4. \A n \in Linked : n = Absent \/ n.type = "direct"
          BY NodeFacts
        <5>5. directState[p] \in Linked
          BY <2>t DEF TypeInv
        <5> QED BY <5>1, <5>2, <5>3, <5>4, <5>5
      <4> QED BY <2>m, <2>s, <2>t, <3>1, <3>4, <3>5, <4>1, <4>3, <4>4, ConstantsOK, Changes, ZenonT(60) DEF Change
    <3>6. etc'[p] \in {etc[p], Absent, Wanted(gen, p)}
      BY <2>s, <3>1, Changes DEF Change
    <3> QED BY <3>2, <3>3, <3>4, <3>5, <3>6
  \* So a step within a run need only keep the path on the list.
  <2>w. ASSUME pc # "idle", pc' # "idle", reached' = reached, gen' = gen, static' \in {static, gen},
               outcome'.tried = outcome.tried, outcome'.shown = outcome.shown, outcome.skipped \subseteq outcome'.skipped,
               \A p \in Paths : Steady(p) /\ reached # None /\ p \notin outcome'.skipped /\ ~Hidden(p) =>
                 /\ pc' = "build" => p \in todo' \/ p \in Own'
                 /\ pc' \in {"diff", "old links", "new links", "commit", "migrate"} => p \in Own'
        PROVE  FineInv'
    <3> SUFFICES ASSUME reached # None PROVE FineInv'
      BY <2>w DEF FineInv
    <3>1. static' \in Tried
      BY <2>t, <2>w DEF FineInv
    <3>2. ASSUME NEW p \in Paths, Steady(p)' PROVE Steady(p) /\ p \notin outcome'.skipped /\ Kind(p) \in Leaves
      BY <2>t, <2>w, <3>2 DEF Steady, Kind
    <3> QED BY <2>h, <2>s, <2>w, <3>1, <3>2 DEF FineInv
  <2>1. ASSUME NEW g \in Gens, Start(g) PROVE FineInv'
    <3>1. /\ pc = "idle" /\ pc' = "static" /\ outcome'.tried = outcome.tried \cup {g} /\ outcome'.shown = outcome.shown
          /\ outcome'.skipped = IF outcome.how = "ok" THEN {} ELSE outcome.skipped
          /\ etc' = etc /\ static' = static /\ reached' = reached
      BY <2>1, <2>t DEF Start, Outcomes, disk
    <3>2. \A p \in Paths : Steady(p)' => Steady(p)
      BY <3>1 DEF Steady
    <3> QED BY <3>1, <3>2 DEF FineInv, Shows, Foreign, Hidden
  <2>2. CASE SwapStatic
    BY <2>2, <2>w DEF SwapStatic, Go, memory
  <2>3. CASE EndDangling
    BY <2>3, <2>t, <2>w DEF EndDangling, Go, disk, Steady, Kind
  <2>4. ASSUME NEW p \in Paths, RemoveDangling(p) PROVE FineInv'
    BY <2>4, <2>w DEF RemoveDangling, Go, memory
  <2>5. ASSUME NEW r \in Paths, BuildEntry(r) \/ SkipEntry(r) PROVE FineInv'
    <3>1. /\ pc = "build" /\ pc' = "build" /\ gen' = gen /\ static' = static /\ reached' = reached /\ Own \subseteq Own'
          /\ outcome'.tried = outcome.tried /\ outcome'.shown = outcome.shown
          /\ outcome.skipped \subseteq outcome'.skipped
      <4>1. CASE BuildEntry(r)
        <5>1. Own \subseteq Own'
          BY <4>1 DEF BuildEntry, AddEntry, Own
        <5>2. UNCHANGED <<gen, static, reached, outcome>> /\ pc = "build" /\ pc' = "build"
          BY <4>1 DEF BuildEntry, Loop, Go
        <5> QED BY <5>1, <5>2
      <4>2. CASE SkipEntry(r)
        <5>1. Own' = Own /\ UNCHANGED <<gen, static, reached>> /\ pc = "build" /\ pc' = "build"
          BY <4>2 DEF SkipEntry, Own
        <5>2. outcome' = [outcome EXCEPT !.skipped = @ \cup {r}]
          BY <4>2 DEF SkipEntry
        <5> QED BY <2>t, <5>1, <5>2 DEF Outcomes
      <4> QED BY <2>5, <4>1, <4>2
    <3>2. ASSUME NEW p \in Paths, Steady(p), reached # None, p \notin outcome'.skipped, ~Hidden(p)
          PROVE  p \in todo' \/ p \in Own'
      <4>1. Foreign(p) \/ Shows(p) \in Tried
        BY <3>2 DEF FineInv
      <4>2. etc[p] # Absent /\ etc[p] # Dir
        BY <1>n, <2>t, <3>2, <4>1 DEF Shows, Foreign
      <4>3. p \in todo \/ p \in Own
        BY <3>1, <3>2 DEF FineInv
      <4>4. Kind(p) \in Leaves
        BY <2>t, <3>1, <3>2 DEF Steady, Kind
      <4>5. CASE BuildEntry(r) /\ p = r
        <5>1. Room(p)
          BY <2>t, <4>2, NodeFacts DEF Room
        <5> QED BY <4>4, <4>5, <5>1 DEF BuildEntry, AddEntry, Own
      <4>6. CASE BuildEntry(r) /\ p # r
        <5>1. Parent[p] = r /\ r # Top => etc[r].type = "dir"
          BY <2>t, <4>2
        <5>2. r # Top
          BY ConstantsOK
        <5>3. todo \ {r} \subseteq todo' \/ (todo' = todo \ SkippedWith(r) /\ etc[r].type # "dir")
          BY <4>6 DEF BuildEntry, Loop
        <5> QED BY <3>1, <4>3, <4>6, <5>1, <5>2, <5>3 DEF SkippedWith, Children
      <4>7. CASE SkipEntry(r)
        BY <2>t, <3>1, <3>2, <4>3, <4>7 DEF SkipEntry, Outcomes
      <4> QED BY <2>5, <4>5, <4>6, <4>7
    <3> QED BY <2>w, <3>1, <3>2
  <2>6. CASE Prepare
    <3>1. pc = "build" /\ todo = {} /\ pc' = "diff" /\ Own' = Own /\ UNCHANGED <<gen, static, outcome, reached>>
      BY <2>6 DEF Prepare, Go, disk, Own
    <3> QED BY <2>w, <3>1 DEF FineInv
  <2>7. CASE \/ EndDiff \/ EndOldLinks \/ CommitManifest \/ CommitDirect
             \/ \E p \in Paths : Diff(p) \/ RemoveOldLink(p) \/ MakeLink(p) \/ Migrate(p)
    <3>1. /\ pc \in {"diff", "old links", "new links", "commit", "migrate"} /\ Own' = Own
          /\ pc' \in {"diff", "old links", "new links", "commit", "migrate"}
          /\ UNCHANGED <<gen, static, outcome, reached>>
      BY <2>7 DEF EndDiff, EndOldLinks, CommitManifest, CommitDirect, Diff, RemoveOldLink, MakeLink, Migrate, Loop, Go,
                  disk, memory, Own
    <3> QED BY <2>w, <3>1 DEF FineInv
  <2>8. CASE Finish
    <3>1. /\ pc = "migrate" /\ gen \in Gens /\ pc' = "idle" /\ reached' = gen /\ outcome'.tried = {}
          /\ outcome'.shown = {p \in Paths : Tree[gen][p] # "none" /\ etc[p] = Wanted(gen, p)}
          /\ static' = static /\ etc' = etc /\ static = gen
      BY <2>8, <2>t DEF Finish, Outcomes, LinkInv
    <3>2. ASSUME NEW p \in Paths, Steady(p)' PROVE Shows(p)' = gen
      <4>1. Tree[gen][p] \in Leaves /\ etc[p] = Wanted(gen, p)
        BY <3>1, <3>2 DEF Steady
      <4>2. etc[p].type = "static" \/ etc[p].gen = gen
        BY <3>1, <4>1, NodeFacts
      <4> QED BY <3>1, <4>2 DEF Shows
    <3> QED BY <3>1, <3>2 DEF FineInv
  <2>9. CASE Stop
    <3>1. /\ pc # "idle" /\ pc' = "idle" /\ outcome'.how = "failed" /\ outcome'.tried = outcome.tried
          /\ outcome'.shown = outcome.shown /\ outcome'.skipped = outcome.skipped
          /\ etc' = etc /\ static' = static /\ reached' = reached
      BY <2>9, <2>t DEF Stop, Abort, disk, Outcomes
    <3>2. \A p \in Paths : Steady(p)' => Steady(p)
      BY <3>1 DEF Steady
    <3> QED BY <3>1, <3>2 DEF FineInv, Shows, Foreign, Hidden
  <2>10. ASSUME NEW r \in Paths, AdminWrite(r) PROVE FineInv'
    <3>1. /\ pc = "idle" /\ pc' = "idle" /\ outcome'.how = outcome.how /\ outcome'.tried = outcome.tried
          /\ outcome'.shown = outcome.shown /\ outcome'.skipped = outcome.skipped
          /\ etc' = [etc EXCEPT ![r] = Plain("user")] /\ static' = static /\ reached' = reached
      BY <2>10, <2>t DEF AdminWrite, Put, Outcomes
    <3>2. \A p \in Paths : Steady(p)' => Steady(p)
      BY <3>1 DEF Steady
    <3>3. \A p \in Paths : Foreign(p) => Foreign(p)'
      BY <2>t, <3>1 DEF Foreign
    <3>4. \A p \in Paths : Hidden(p) => Hidden(p)'
      BY <1>c, <3>3 DEF Hidden
    <3>5. \A p \in Paths : Foreign(p)' \/ Shows(p)' = Shows(p)
      BY <2>t, <3>1 DEF Foreign, Shows
    <3> QED BY <3>1, <3>2, <3>3, <3>4, <3>5 DEF FineInv
  <2>11. CASE UNCHANGED vars
    BY <2>11 DEF vars, disk, memory, FineInv, Steady, Hidden, Foreign, Shows, Own
  <2> QED BY <2>1, <2>2, <2>3, <2>4, <2>5, <2>6, <2>7, <2>8, <2>9, <2>10, <2>11 DEF Next, Step
<1>3. TypeInv /\ FineInv => OldOrNew
  BY DEF TypeInv, Outcomes, FineInv, OldOrNew, Steady, Hidden, Blocked
<1> QED BY <1>1, <1>2, <1>3, TypeCorrect, RunsKept, PTL DEF Spec

\* When a generation is reached, all it has is in /etc but what was skipped or is in the way of somebody
\* else's file, and no link into /etc/static dangles; the directories, generations and interruptions
\* may be any.
THEOREM GenerationAlwaysShown == Spec => []GenerationShown
<1> USE DEF Leaves
<1>n. /\ \A n \in Nodes : (n.type = "absent" <=> n = Absent) /\ (n.type = "dir" <=> n = Dir)
      /\ \A n \in Filed \cup Linked : n \notin {Plain("user"), Plain("direct"), Dir}
      /\ Absent.type = "absent" /\ Dir.type = "dir" /\ Plain("static").type = "static" /\ Dir # Absent
      /\ Absent \notin {Plain("user"), Plain("direct")} /\ Dir \notin {Plain("user"), Plain("direct")}
      /\ Plain("static") \notin {Plain("user"), Plain("direct")}
      /\ Plain("user").type = "user" /\ Plain("direct").type = "direct"
      /\ \A g \in Gens, p \in Paths : Tree[g][p] = "dir" => Wanted(g, p) = Dir
  BY NodeFacts DEF Absent, Dir, Plain
<1>c. /\ Top \notin Paths
      /\ \A p \in Paths : Parent[p] # Top => Parent[p] \in Paths /\ Parent[Parent[p]] = Top
      /\ \A g \in Gens, p \in Paths :
           /\ Tree[g][p] \in Leaves \cup {"none", "dir"}
           /\ Tree[g][p] # "none" /\ Parent[p] # Top => Tree[g][p] # "dir" /\ Tree[g][Parent[p]] = "dir"
  BY ConstantsOK
<1>1. Init => CalmInv /\ Faithful
  BY DEF Init, CalmInv, Faithful, Reached
<1>2. TypeInv /\ PlaceInv /\ WrittenInv /\ RunInv /\ LinkInv /\ RestInv /\ CalmInv /\ [Next]_vars => CalmInv'
  <2> SUFFICES ASSUME TypeInv, PlaceInv, WrittenInv, RunInv, LinkInv, RestInv, CalmInv, [Next]_vars
               PROVE  CalmInv'
    OBVIOUS
  <2>t. /\ outcome \in Outcomes /\ (pc # "idle" => gen \in Gens)
        /\ etc \in [Paths -> Nodes] /\ base \in [Paths -> Filed] /\ directState \in [Paths -> Linked]
        /\ todo \subseteq Paths /\ files \subseteq Paths /\ direct_symlinks \subseteq Paths /\ clean \subseteq Paths
        /\ \A p \in Own : pc # "idle" => Kind(p) \in Leaves
        /\ \A p \in todo : (pc = "new links" => p \in Own) /\ (pc = "migrate" => p \in clean)
        /\ \A p \in Paths : Parent[p] # Top => etc[p].type # "dir"
    BY DEF TypeInv, TypeOK, Own, Outcomes
  \* A run leaves alone what is nobody's where the generation has no file or link, ...
  <2>k. ASSUME NEW p \in Paths, Kept(p), pc # "idle", clean' = clean, Kind(p) \notin Leaves PROVE Kept(p)'
    <3>1. etc'[p] = etc[p]
      BY <1>n, <2>k, <2>t, Changes DEF Change, Kept, Foreign, Own, Stale
    <3> QED BY <2>k, <3>1 DEF Kept, Foreign
  \* ... and so a directory that is held back, or one with such a file in its place.
  <2>h. ASSUME NEW p \in Paths, HeldBack(p), pc # "idle", clean' = clean, Kind(p) \in Leaves PROVE HeldBack(p)'
    <3>1. PICK q \in Children(p) : Kept(q)
      BY <2>h DEF HeldBack
    <3>2. q \in Paths /\ Kind(q) \notin Leaves
      <4>1. q \in Paths /\ Parent[q] = p /\ p # Top /\ gen \in Gens /\ Tree[gen][p] \in Leaves
        BY <1>c, <2>h, <2>t DEF Children, Kind
      <4>2. Tree[gen][q] = "none"
        BY <1>c, <4>1
      <4> QED BY <4>1, <4>2 DEF Kind
    <3>3. Kept(q)'
      BY <2>h, <2>k, <3>1, <3>2
    <3>4. ~FullyStatic(p) /\ etc[p] = Dir
      BY <1>n, <2>h, <2>t, <3>1 DEF FullyStatic, Kept, Foreign, HeldBack
    <3>5. pc = "diff" => p \notin files
      BY <2>h DEF PlaceInv, Own, HeldBack
    <3>6. etc'[p] = Dir
      BY <1>n, <2>h, <2>t, <3>4, <3>5, Changes DEF Change
    <3> QED BY <1>n, <3>1, <3>3, <3>6 DEF HeldBack, Children
  <2>u. ASSUME NEW p \in Paths, UnderOther(p), pc # "idle", clean' = clean, Kind(p) \in Leaves PROVE UnderOther(p)'
    <3>1. Parent[p] \in Paths /\ Kind(Parent[p]) \notin Leaves
      BY <1>c, <2>u, <2>t DEF UnderOther, Kind
    <3> QED BY <2>k, <2>u, <3>1 DEF UnderOther
  \* A directory of the generation stays one.
  <2>d. ASSUME NEW p \in Paths, etc[p] = Dir, pc # "idle", Kind(p) = "dir" PROVE etc'[p] = Dir
    BY <1>n, <2>d, <2>t, Changes DEF Change, Own
  \* What the run has taken care of stays taken care of.
  <2>a. ASSUME NEW p \in Paths, Taken(p), pc # "idle", clean' = clean, gen' = gen, Own \subseteq Own',
               outcome.skipped \subseteq outcome'.skipped
        PROVE  Taken(p)'
    <3>1. Kind(p)' = Kind(p)
      BY <2>a DEF Kind
    <3> QED BY <2>a, <2>d, <2>h, <2>k, <2>u, <3>1 DEF Taken
  <2>w. ASSUME NEW p \in Paths, Done(p), etc[p] = Wanted(gen, p), pc # "idle", gen' = gen
        PROVE  etc'[p] = Wanted(gen', p)
    <3>1. /\ p \in Own /\ Kind(p) \in Leaves /\ pc \in {"diff", "old links", "new links", "commit", "migrate"}
          /\ pc \in {"diff", "old links"} => p \in files
      BY <2>t, <2>w DEF Done, Own
    <3>2. pc = "old links" => etc[p] # directState[p]
      <4> SUFFICES ASSUME pc = "old links", etc[p] = directState[p] PROVE FALSE
        OBVIOUS
      <4>1. Kind(p) \in {"static", "copy"} /\ etc[p].type = Kind(p)
        <5>1. p \in files /\ gen \in Gens /\ Kind(p) \in {"static", "copy"}
          BY <2>t, <2>w, <3>1 DEF TypeInv
        <5>2. Wanted(gen, p).type = Tree[gen][p]
          BY <2>w, <5>1, NodeFacts
        <5> QED BY <2>w, <5>1, <5>2 DEF Kind
      <4>2. directState[p].type \in {"absent", "direct"}
        BY <1>n, <2>t, NodeFacts
      <4> QED BY <4>1, <4>2
    <3>3. etc'[p] = Wanted(gen, p)
      BY <2>w, <3>1, <3>2, Changes DEF Change, Stale, Own
    <3> QED BY <2>w, <3>3 DEF Wanted
  \* So a step within a run has to look only at the path it comes to.
  <2>s. ASSUME pc # "idle", pc' # "idle", clean' = clean, gen' = gen, Own \subseteq Own',
               outcome.skipped \subseteq outcome'.skipped, outcome'.reshaped = outcome.reshaped,
               outcome'.settled = outcome.settled, outcome'.torn = outcome.torn,
               \A p \in Paths : CalmInv /\ Calm =>
                 /\ Ahead(p)' => Ahead(p) /\ Roomy(p)'
                 /\ ~Ahead(p)' /\ Ahead(p) => Taken(p)'
                 /\ Done(p)' /\ ~Done(p) => etc'[p] = Wanted(gen, p) \/ UnderOther(p)'
        PROVE  CalmInv'
    <3> SUFFICES ASSUME Calm' PROVE CalmInv'
      BY DEF CalmInv
    <3>1. Calm
      BY <2>s DEF Calm
    <3>2. ASSUME NEW p \in Paths
          PROVE  /\ Ahead(p)' => Roomy(p)'
                 /\ ~Ahead(p)' => Taken(p)'
                 /\ Done(p)' => etc'[p] = Wanted(gen', p) \/ UnderOther(p)'
      <4>1. ~Ahead(p) => Taken(p)'
        BY <2>a, <2>s, <3>1 DEF CalmInv
      <4>2. Wanted(gen', p) = Wanted(gen, p)
        BY <2>s DEF Wanted
      <4>3. ASSUME Done(p)' PROVE etc'[p] = Wanted(gen', p) \/ UnderOther(p)'
        <5>1. CASE ~Done(p)
          BY <2>s, <3>1, <4>2, <4>3, <5>1
        <5>2. CASE Done(p)
          <6>1. Kind(p) \in Leaves /\ (etc[p] = Wanted(gen, p) \/ UnderOther(p))
            BY <2>s, <2>t, <3>1, <5>2 DEF CalmInv, Done, Own
          <6> QED BY <2>s, <2>u, <2>w, <4>2, <5>2, <6>1
        <5> QED BY <5>1, <5>2
      <4> QED BY <2>s, <3>1, <4>1, <4>3
    <3> QED BY <3>2 DEF CalmInv
  <2>1. ASSUME NEW g \in Gens, Start(g) PROVE CalmInv'
    <3> SUFFICES ASSUME Calm' PROVE \A p \in Paths : Ahead(p)' /\ Roomy(p)' /\ ~Done(p)'
      BY DEF CalmInv
    <3>1. /\ pc = "idle" /\ pc' = "static" /\ gen' = g /\ etc' = etc /\ clean' = clean
          /\ outcome'.torn = outcome.torn
          /\ outcome'.settled > 0 => g = outcome.goal /\ outcome.settled > 0
          /\ ~outcome'.reshaped => \A p \in Paths : \/ etc[p].type = "absent"
                                                   \/ Tree[g][p] = "none"
                                                   \/ (etc[p].type = "dir") = (Tree[g][p] = "dir")
      <4> DEFINE r == \E p \in Paths : /\ etc[p].type # "absent"
                                       /\ Tree[g][p] # "none"
                                       /\ (etc[p].type = "dir") # (Tree[g][p] = "dir")
                 k == IF outcome.how = "ok" THEN {} ELSE outcome.skipped
                 e == IF g = outcome.goal THEN outcome.settled ELSE 0
      <4>1. outcome' = [outcome EXCEPT !.goal = g, !.tried = outcome.tried \cup {g}, !.skipped = k,
                                       !.settled = e, !.reshaped = r]
        BY <2>1 DEF Start
      <4>2. outcome'.torn = outcome.torn /\ outcome'.settled = e /\ outcome'.reshaped = r
        <5> HIDE DEF r, k, e
        <5> QED BY <2>t, <4>1 DEF Outcomes
      <4> QED BY <2>1, <4>2 DEF Start, disk
    <3>2. \A p \in Paths : Ahead(p)' /\ ~Done(p)'
      BY <3>1 DEF Ahead, Done
    <3>3. ASSUME NEW p \in Paths PROVE Roomy(p)'
      <4>1. CASE ~outcome'.reshaped
        BY <1>n, <2>t, <3>1, <4>1 DEF Roomy, Kind
      <4>2. CASE outcome'.settled > 0 /\ outcome.torn \subseteq {g}
        <5>1. reached = g /\ Reached /\ clean = {}
          BY <3>1, <4>2 DEF RunInv, Reached
        <5>2. \A q \in Paths : Tree[g][q] \notin Leaves => etc[q] \in {Absent, Dir} \/ Kept(q)
          BY <4>2, <5>1 DEF RestInv, Kept
        <5>3. ASSUME Tree[g][p] \in Leaves, etc[p].type = "dir", ~FullyStatic(p) PROVE HeldBack(p)
          <6>1. PICK q \in Children(p) : etc[q].type \notin {"absent", "static"}
            BY <5>3 DEF FullyStatic
          <6>2. q \in Paths /\ Parent[q] = p /\ p # Top
            BY <1>c, <6>1 DEF Children
          <6>3. Tree[g][q] = "none"
            BY <1>c, <5>3, <6>2
          <6>4. etc[q].type # "dir" /\ etc[q] # Absent /\ etc[q] # Dir
            BY <1>n, <2>t, <6>1, <6>2
          <6>5. Kept(q)
            BY <5>2, <6>2, <6>3, <6>4
          <6> QED BY <5>3, <6>1, <6>5 DEF HeldBack
        <5> QED BY <3>1, <5>2, <5>3 DEF Roomy, Kind, Kept, Foreign, HeldBack, FullyStatic
      <4> QED BY <3>1, <4>1, <4>2 DEF Calm
    <3> QED BY <3>2, <3>3
  <2>2. CASE SwapStatic
    BY <2>2, <2>s DEF SwapStatic, Go, memory, Own, CalmInv, Ahead, Done, Roomy, Kind, Kept, Foreign, HeldBack, FullyStatic
  <2>3. CASE EndDangling
    <3>1. /\ pc = "dangling" /\ pc' = "build" /\ todo' = {p \in Paths : Kind(p) # "none"}
          /\ UNCHANGED <<gen, etc, clean, files, direct_symlinks, outcome>>
      BY <2>3 DEF EndDangling, Go, disk
    <3>2. \A p \in Paths : Ahead(p) /\ (~Ahead(p)' => Kind(p) = "none") /\ ~Done(p)' /\ (Roomy(p) => Roomy(p)')
      BY <3>1 DEF Ahead, Done, Roomy, Kind, Kept, Foreign, HeldBack, FullyStatic
    <3>3. \A p \in Paths : Kind(p) = "none" => Taken(p)'
      BY <3>1 DEF Taken, Kind
    <3> QED BY <2>s, <3>1, <3>2, <3>3 DEF CalmInv, Own
  <2>4. ASSUME NEW r \in Paths, RemoveDangling(r) PROVE CalmInv'
    <3>1. /\ pc = "dangling" /\ pc' = "dangling" /\ etc[r].type = "static" /\ Kind(r) \notin Leaves
          /\ etc' = [etc EXCEPT ![r] = Absent]
          /\ UNCHANGED <<gen, clean, files, direct_symlinks, todo, outcome>>
      BY <2>4 DEF RemoveDangling, Dangling, Go, Put, memory
    <3>2. \A p \in Paths : Ahead(p) /\ Ahead(p)' /\ ~Done(p)'
      BY <3>1 DEF Ahead, Done
    <3>3. ASSUME NEW p \in Paths, Roomy(p) PROVE Roomy(p)'
      <4>1. Kept(p) => Kept(p)'
        BY <2>t, <3>1, <1>n DEF Kept, Foreign
      <4>2. etc'[p] = etc[p] \/ (p = r /\ etc'[p] = Absent)
        BY <2>t, <3>1
      <4>3. Kind(p)' = Kind(p)
        BY <3>1 DEF Kind
      <4>4. FullyStatic(p) => FullyStatic(p)'
        BY <1>n, <2>t, <3>1 DEF FullyStatic, Children
      <4>5. HeldBack(p) /\ Kind(p) \in Leaves => HeldBack(p)'
        BY <2>h, <3>1
      <4> QED BY <1>n, <3>3, <4>1, <4>2, <4>3, <4>4, <4>5 DEF Roomy
    <3> QED BY <2>s, <3>1, <3>2, <3>3 DEF CalmInv, Own
  \* A file or link that comes to take the place of a directory: what was in it is nobody's.
  <2>c. ASSUME NEW r \in Paths, pc = "build", pc' = "build", r \in todo, todo' = todo \ {r}, Kind(r) # "dir",
               gen' = gen, clean' = clean, Room(r), etc' = Cleared(r)
        PROVE  \A p \in Paths \ {r} : Roomy(p) => Roomy(p)'
    <3>1. Kind(r) \in Leaves
      BY <1>c, <2>c, <2>t DEF TypeInv, Kind
    <3>2. ASSUME NEW p \in Paths \ {r}, Roomy(p), Kind(p) # "none" PROVE Roomy(p)'
      <4>1. Parent[p] # r
        BY <1>c, <2>c, <2>t, <3>1, <3>2 DEF Kind
      <4>2. etc'[p] = etc[p]
        BY <2>c, <4>1 DEF Cleared, Children
      <4>3. FullyStatic(p) => FullyStatic(p)'
        BY <1>n, <2>c DEF FullyStatic, Children, Cleared
      <4>4. HeldBack(p) /\ Kind(p) \in Leaves => HeldBack(p)'
        BY <2>h, <2>c
      <4>5. Kind(p)' = Kind(p) /\ (Kept(p) => Kept(p)')
        BY <2>c, <4>2 DEF Kind, Kept, Foreign
      <4> QED BY <3>2, <4>2, <4>3, <4>4, <4>5 DEF Roomy
    <3>3. \A p \in Paths : Kind(p) = "none" => Roomy(p)'
      BY <2>c DEF Roomy, Kind
    <3> QED BY <3>2, <3>3
  <2>5. ASSUME NEW r \in Paths, BuildEntry(r) \/ SkipEntry(r) PROVE CalmInv'
    <3>1. /\ pc = "build" /\ pc' = "build" /\ gen' = gen /\ r \in todo /\ clean' = clean /\ Own \subseteq Own'
          /\ outcome.skipped \subseteq outcome'.skipped /\ outcome'.reshaped = outcome.reshaped
          /\ outcome'.settled = outcome.settled /\ outcome'.torn = outcome.torn
          /\ todo' \subseteq todo \ {r}
      <4>1. CASE BuildEntry(r)
        <5>1. Own \subseteq Own'
          BY <4>1 DEF BuildEntry, AddEntry, Own
        <5>2. UNCHANGED <<gen, outcome, clean>> /\ pc = "build" /\ pc' = "build" /\ r \in todo
          BY <4>1 DEF BuildEntry, Loop, Go
        <5>3. todo' \subseteq todo \ {r}
          BY <4>1 DEF BuildEntry, Loop, SkippedWith
        <5> QED BY <5>1, <5>2, <5>3
      <4>2. CASE SkipEntry(r)
        <5>1. /\ Own' = Own /\ UNCHANGED <<gen, clean>> /\ pc = "build" /\ pc' = "build"
              /\ r \in todo /\ todo' = todo \ {r}
          BY <4>2 DEF SkipEntry, Own
        <5>2. outcome' = [outcome EXCEPT !.skipped = @ \cup {r}]
          BY <4>2 DEF SkipEntry
        <5> QED BY <2>t, <5>1, <5>2 DEF Outcomes
      <4> QED BY <2>5, <4>1, <4>2
    <3>2. \A p \in Paths : (Ahead(p) <=> p \in todo) /\ (Ahead(p)' <=> p \in todo') /\ ~Done(p)'
      BY <3>1 DEF Ahead, Done
    <3>3. \A p \in Paths : Kind(p)' = Kind(p)
      BY <3>1 DEF Kind
    <3>4. Kind(r) # "none" /\ Kind(r) \in Leaves \cup {"dir"}
      BY <1>c, <2>t, <3>1 DEF TypeInv, Kind
    <3>5. SUFFICES ASSUME CalmInv, Calm, NEW p \in Paths
                   PROVE (p \in todo' => Roomy(p)') /\ (p \notin todo' /\ p \in todo => Taken(p)')
      BY <2>s, <3>1, <3>2
    <3>6. (p \in todo => Roomy(p)) /\ Roomy(r)
      BY <3>1, <3>2, <3>5 DEF CalmInv
    <3>7. CASE Kind(r) # "dir" /\ Room(r) /\ etc' = Cleared(r) /\ todo' = todo \ {r} /\ r \in Own' \cup outcome'.skipped
      <4>1. p \in todo' => Roomy(p)'
        BY <2>c, <3>1, <3>5, <3>6, <3>7
      <4>2. p \notin todo' /\ p \in todo => Taken(p)'
        BY <3>3, <3>7 DEF Taken
      <4> QED BY <4>1, <4>2
    <3>8. CASE Kind(r) # "dir" /\ ~Room(r) /\ todo' = todo \ {r} /\ UNCHANGED etc
      <4>1. HeldBack(r)
        BY <3>4, <3>6, <3>8 DEF Room, Roomy
      <4>2. HeldBack(r)'
        BY <2>h, <3>1, <3>4, <3>8, <4>1
      <4> QED BY <3>1, <3>3, <3>4, <3>6, <3>8, <4>2 DEF Taken, Roomy, Kept, Foreign, HeldBack, FullyStatic
    <3>9. CASE /\ Kind(r) = "dir" /\ etc[r].type \in {"absent", "dir", "static", "direct"} /\ todo' = todo \ {r}
               /\ etc' = [etc EXCEPT ![r] = IF etc[r] = Absent THEN Dir ELSE etc[r]]
      <4>1. etc'[r] = Dir \/ Kept(r)'
        BY <2>t, <3>1, <3>6, <3>9 DEF Roomy, Kept, Foreign
      <4>2. p = r => Taken(p)'
        BY <3>3, <3>9, <4>1 DEF Taken
      <4>3. ASSUME p # r, p \in todo PROVE Roomy(p)'
        <5>1. etc'[p] = etc[p]
          BY <2>t, <3>9, <4>3
        <5>2. Kind(p) \in Leaves => Parent[r] # p
          BY <1>c, <2>t, <3>1, <3>9 DEF Kind
        <5>3. Kind(p) \in Leaves => (FullyStatic(p) => FullyStatic(p)')
          BY <2>t, <3>9, <5>2 DEF FullyStatic, Children
        <5>4. Kind(p) \in Leaves => (HeldBack(p) => HeldBack(p)')
          BY <2>h, <3>1
        <5> QED BY <3>1, <3>3, <3>6, <4>3, <5>1, <5>3, <5>4 DEF Roomy, Kept, Foreign
      <4> QED BY <3>9, <4>2, <4>3
    <3>10. CASE /\ Kind(r) = "dir" /\ etc[r].type \in {"copy", "legacy", "user"} /\ todo' = todo \ SkippedWith(r)
                /\ UNCHANGED etc
      <4>1. Kept(r) /\ Kept(r)'
        BY <1>n, <3>1, <3>6, <3>10 DEF Roomy, Kept, Foreign
      <4>2. p = r => Taken(p)'
        BY <3>3, <3>10, <4>1 DEF Taken
      <4>3. Parent[p] = r => Taken(p)'
        <5> SUFFICES ASSUME Parent[p] = r PROVE Taken(p)'
          OBVIOUS
        <5>1. r # Top /\ UnderOther(p)'
          BY <1>c, <4>1 DEF UnderOther
        <5>2. Kind(p)' # "dir"
          BY <1>c, <2>t, <3>1, <3>3, <5>1 DEF Kind
        <5> QED BY <5>1, <5>2 DEF Taken
      <4> QED BY <3>1, <3>3, <3>6, <3>10, <4>2, <4>3
              DEF SkippedWith, Children, Roomy, Kept, Foreign, HeldBack, FullyStatic
    <3>11. CASE BuildEntry(r)
      <4>1. Kind(r) # "dir" /\ AddEntry(r) => r \in Own'
        BY DEF AddEntry, Own
      <4> QED BY <3>7, <3>8, <3>9, <3>10, <3>11, <4>1 DEF BuildEntry, Loop, Put
    <3>12. CASE SkipEntry(r)
      <4>1. Kind(r) # "dir" /\ Room(r) /\ etc' = Cleared(r) /\ todo' = todo \ {r} /\ r \in outcome'.skipped
        BY <2>t, <3>12 DEF SkipEntry, Outcomes
      <4> QED BY <3>7, <4>1
    <3> QED BY <2>5, <3>11, <3>12
  <2>6. CASE Prepare
    <3>1. /\ pc = "build" /\ pc' = "diff" /\ todo = {} /\ files \subseteq todo' /\ files' = files
          /\ Own' = Own /\ UNCHANGED <<gen, clean, outcome>>
      BY <2>6 DEF Prepare, Go, disk, Own
    <3>2. \A p \in Paths : ~Ahead(p) /\ ~Ahead(p)' /\ ~Done(p)'
      BY <3>1 DEF Ahead, Done
    <3> QED BY <2>s, <3>1, <3>2
  \* Through a link there is nothing to write to but what is somebody else's.
  <2>7. ASSUME NEW r \in Own, Through(r), CalmInv, Calm, clean' = clean,
               pc \in {"diff", "old links", "new links", "commit", "migrate"}
        PROVE  UnderOther(r)'
    <3>1. r \in Paths /\ Kind(r) \in Leaves /\ gen \in Gens
      BY <2>7, <2>t DEF Own
    <3>2. Parent[r] # Top /\ Parent[r] \in Paths /\ Kind(Parent[r]) = "dir" /\ etc[Parent[r]].type = "direct"
      BY <1>c, <2>7, <3>1 DEF Through, Kind
    <3>3. Taken(Parent[r])
      BY <2>7, <3>2 DEF CalmInv, Ahead
    <3>4. Kept(Parent[r])
      BY <1>n, <3>2, <3>3 DEF Taken
    <3> QED BY <2>7, <2>u, <3>1, <3>2, <3>4 DEF UnderOther
  <2>8. ASSUME NEW r \in Paths, Diff(r) \/ MakeLink(r) PROVE CalmInv'
    <3>1. /\ pc \in {"diff", "new links"} /\ pc' = pc /\ todo' = todo \ {r} /\ r \in todo
          /\ files' = files /\ direct_symlinks' = direct_symlinks
          /\ Own' = Own /\ UNCHANGED <<gen, clean, outcome>>
      BY <2>8 DEF Diff, MakeLink, Loop, Go, Own
    <3>2. \A p \in Paths : ~Ahead(p) /\ ~Ahead(p)'
      BY <3>1 DEF Ahead
    <3>3. ASSUME NEW p \in Paths, CalmInv, Calm, Done(p)', ~Done(p)
          PROVE  etc'[p] = Wanted(gen, p) \/ UnderOther(p)'
      <4>1. p = r /\ p \in Own
        BY <3>1, <3>3 DEF Done, Own
      <4>2. CASE Through(p)
        BY <2>7, <3>1, <3>3, <4>1, <4>2
      <4>3. CASE ~Through(p)
        <5>1. pc = "diff" => p \in files
          BY <3>1, <3>3 DEF Done
        <5> QED BY <2>8, <2>t, <3>1, <4>1, <4>3, <5>1 DEF Diff, MakeLink, Put
      <4> QED BY <4>2, <4>3
    <3> QED BY <2>s, <3>1, <3>2, <3>3
  <2>9. CASE \/ EndDiff \/ EndOldLinks \/ CommitManifest \/ CommitDirect
             \/ \E p \in Paths : RemoveOldLink(p) \/ Migrate(p)
    <3>1. /\ pc \in {"diff", "old links", "new links", "commit", "migrate"} /\ Own' = Own
          /\ pc' \in {"diff", "old links", "new links", "commit", "migrate"}
          /\ UNCHANGED <<gen, clean, outcome>>
      BY <2>9 DEF EndDiff, EndOldLinks, CommitManifest, CommitDirect, RemoveOldLink, Migrate, Loop, Go,
                  disk, memory, Own
    <3>2. \A p \in Paths : Done(p)' => Done(p)
      BY <2>9 DEF EndDiff, EndOldLinks, CommitManifest, CommitDirect, RemoveOldLink, Migrate, Loop, Go, disk, memory, Done
    <3>3. \A p \in Paths : ~Ahead(p) /\ ~Ahead(p)'
      BY <3>1 DEF Ahead
    <3> QED BY <2>s, <3>1, <3>2, <3>3
  <2>10. CASE Finish \/ Stop \/ \E p \in Paths : AdminWrite(p)
    BY <2>10 DEF Finish, Stop, Abort, AdminWrite, CalmInv
  <2>11. CASE UNCHANGED vars
    BY <2>11, ZenonT(60) DEF vars, disk, memory, CalmInv, Calm, Ahead, Roomy, Taken, Done, Own, Kind, Kept, Foreign, HeldBack,
                 UnderOther, FullyStatic, Wanted
  <2> QED BY <2>1, <2>2, <2>3, <2>4, <2>5, <2>6, <2>8, <2>9, <2>10, <2>11 DEF Next, Step
<1>3. TypeInv /\ RunInv /\ CalmInv /\ Faithful /\ [Next]_vars => Faithful'
  <2> SUFFICES ASSUME TypeInv, RunInv, CalmInv, Faithful, [Next]_vars, Reached',
                      ~outcome'.reshaped \/ (outcome'.settled = 2 /\ outcome'.torn = {})
               PROVE  AllInPlace'
    BY DEF Faithful
  <2>t. /\ outcome \in Outcomes /\ (pc # "idle" => gen \in Gens)
        /\ \A p \in Own : pc # "idle" => Kind(p) \in Leaves
    BY DEF TypeInv, TypeOK, Own
  <2>1. CASE Finish
    <3>1. /\ pc = "migrate" /\ gen \in Gens /\ reached' = gen /\ etc' = etc /\ outcome'.skipped = outcome.skipped
          /\ outcome'.reshaped = outcome.reshaped
          /\ outcome'.torn = IF outcome.torn \subseteq {gen} /\ outcome.skipped = {} THEN {} ELSE outcome.torn
          /\ outcome'.settled = IF outcome.settled < 2 THEN outcome.settled + 1 ELSE outcome.settled
      BY <2>1, <2>t DEF Finish, Outcomes
    <3>2. Calm
      <4>1. outcome.settled \in 0 .. 2
        BY <2>t DEF Outcomes
      <4> QED BY <3>1, <4>1 DEF Calm
    <3>3. ASSUME NEW p \in Paths, Tree[gen][p] # "none"
          PROVE  etc[p] = Wanted(gen, p) \/ p \in outcome.skipped \/ Blocked(p)
      <4>1. Taken(p) /\ (Done(p) => etc[p] = Wanted(gen, p) \/ UnderOther(p))
        BY <3>1, <3>2 DEF CalmInv, Ahead
      <4>2. CASE Kind(p) = "dir"
        BY <1>n, <3>1, <4>1, <4>2 DEF Taken, Kept, Blocked, Kind
      <4>3. CASE Kind(p) \in Leaves
        <5>1. p \in Own => Done(p)
          BY <3>1 DEF Own, Done
        <5> QED BY <4>1, <4>3, <5>1 DEF Taken, Kept, Blocked, UnderOther, HeldBack
      <4> QED BY <1>c, <3>1, <3>3, <4>2, <4>3 DEF Kind
    <3> QED BY <3>1, <3>3 DEF AllInPlace, InPlace, Blocked, Foreign
  <2>2. CASE UNCHANGED vars
    BY <2>2 DEF vars, disk, Faithful, Reached, AllInPlace, InPlace, Blocked, Foreign
  <2>3. CASE Stop \/ \E p \in Paths : AdminWrite(p)
    <3>1. outcome'.settled = 0
      BY <2>3, <2>t DEF Stop, Abort, AdminWrite, Outcomes
    <3> QED BY <3>1 DEF Reached
  <2>4. CASE (\E g \in Gens : Start(g)) \/ (Step /\ ~Finish)
    <3>1. pc' # "idle"
      BY <2>4 DEF Start, Step, SwapStatic, EndDangling, Prepare, EndDiff, EndOldLinks, CommitManifest, CommitDirect,
                  RemoveDangling, BuildEntry, SkipEntry, Diff, RemoveOldLink, MakeLink, Migrate, Loop, Go
    <3> QED BY <3>1 DEF Reached
  <2> QED BY <2>1, <2>2, <2>3, <2>4 DEF Next
<1>4. TypeInv /\ LinkInv => NoDanglingLinks
  <2>1. ASSUME TypeInv PROVE \A p \in Paths : etc[p].type = "static" => etc[p] = Plain("static")
    BY <2>1, NodeFacts DEF TypeInv
  <2> QED BY <2>1 DEF LinkInv, NoDanglingLinks
<1> QED BY <1>1, <1>2, <1>3, <1>4, TypeCorrect, RunsKept, NothingEverStays, PTL DEF Spec, GenerationShown
=============================================================================
