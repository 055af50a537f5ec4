--------------------------- MODULE LustrateProofs ---------------------------
(* Theorems about Lustrate, for every tree, every marker and every bound.   *)
EXTENDS Lustrate, TLAPS

\* The pieces of trees have the types of trees; every bound is used up in natural numbers.
LEMMA PiecesTyped ==
  /\ Empty \in Tree
  /\ \A t \in Tree : \A n : In(t, n) \subseteq FilesOf(n)
  /\ \A t \in Tree, p \in Paths : t[p] \in Nat \cup {None, Hollow}
  /\ spent \in [stops : Nat, faults : Nat, requests : Nat, rescues : Nat, writes : Nat]
       /\ (\/ Fault \/ spent' = [spent EXCEPT !.stops = @ + 1]
           \/ spent' = [spent EXCEPT !.requests = @ + 1]
           \/ spent' = [spent EXCEPT !.rescues = @ + 1]
           \/ spent' = [spent EXCEPT !.writes = @ + 1])
     => spent' \in [stops : Nat, faults : Nat, requests : Nat, rescues : Nat, writes : Nat]
BY DEF Empty, Tree, In, FilesOf, Fault

\* The state always has its type: the entry in hand is an entry whose files are the ones
\* left to do, and a boot that is under way has a marker (handle_lustrate).
THEOREM TypeCorrect == Spec => []TypeOK
<1>1. Init => TypeOK
  <2> SUFFICES ASSUME Init PROVE TypeOK
    OBVIOUS
  <2>1. root \in Tree
    BY DEF Init, Tree
  <2>2. spent \in [stops : Nat, faults : Nat, requests : Nat, rescues : Nat, writes : Nat]
    BY DEF Init
  <2>3. QED BY <2>1, <2>2, PiecesTyped, ConstantsOK DEF Init, TypeOK, InHand, Booting
\* Every step keeps the types.
<1>s. TypeOK /\ [Next]_vars => TypeOK'
  \* A step of the loop that stages the entries keeps the types.
  <2>1. TypeOK /\ Stage => TypeOK'
    <3> SUFFICES ASSUME TypeOK, Stage PROVE TypeOK'
      OBVIOUS
    <3> USE PiecesTyped, ConstantsOK DEF TypeOK, history, InHand, Booting
    <3>1. ASSUME NEW n \in Names, Move(n) PROVE TypeOK'
      BY <3>1 DEF Move, Tree
    <3>2. ASSUME NEW n \in Names, BeginCopy(n) PROVE TypeOK'
      BY <3>2 DEF BeginCopy
    <3>3. ASSUME NEW p \in Paths, Copy(p) PROVE TypeOK'
      BY <3>3 DEF Copy, Tree
    <3>4. ASSUME NEW p \in Paths, Delete(p) PROVE TypeOK'
      BY <3>4 DEF Delete, Tree
    <3>5. CASE CopyFails
      BY <3>5 DEF CopyFails, GiveUp
    <3>6. CASE EndCopy
      BY <3>6 DEF EndCopy
    <3>7. CASE DeleteFails
      BY <3>7 DEF DeleteFails, GiveUp
    <3>8. CASE EndDelete
      BY <3>8 DEF EndDelete, GiveUp
    <3>9. CASE Promote
      BY <3>9 DEF Promote
    <3>10. QED BY <3>1, <3>2, <3>3, <3>4, <3>5, <3>6, <3>7, <3>8, <3>9 DEF Stage
  \* A step of the loop that restores the keepers keeps the types.
  <2>2. TypeOK /\ Restore => TypeOK'
    <3> SUFFICES ASSUME TypeOK, Restore PROVE TypeOK'
      OBVIOUS
    <3> USE PiecesTyped, ConstantsOK DEF TypeOK, history, InHand, Booting
    <3>1. ASSUME NEW p \in Paths, RestoreFile(p) PROVE TypeOK'
      BY <3>1 DEF RestoreFile, Tree
    <3>2. ASSUME NEW p \in Paths, CopyBack(p) PROVE TypeOK'
      BY <3>2 DEF CopyBack, Tree
    <3>3. ASSUME NEW n \in Names, RestoreDir(n) PROVE TypeOK'
      BY <3>3 DEF RestoreDir
    <3>4. CASE EndCopyBack
      BY <3>4 DEF EndCopyBack, Restored
    <3>5. CASE CopyBackFails
      BY <3>5 DEF CopyBackFails, Restored
    <3>6. CASE RemoveMarker
      BY <3>6 DEF RemoveMarker, memory
    <3>7. QED BY <3>1, <3>2, <3>3, <3>4, <3>5, <3>6 DEF Restore
  \* A boot, a power failure and what is done to a running system keep the types.
  <2>3. TypeOK /\ (Boot \/ Error \/ Stop \/ PowerOff \/ Admin) => TypeOK'
    <3> SUFFICES ASSUME TypeOK, Boot \/ Error \/ Stop \/ PowerOff \/ Admin PROVE TypeOK'
      OBVIOUS
    <3> USE PiecesTyped, ConstantsOK DEF TypeOK, history, memory, InHand, Booting
    <3>1. CASE Boot
      <4>1. stake' \in Tree
        BY <3>1 DEF Boot, Tree
      <4>2. /\ pc' \in {"up", "move"} /\ (pc' = "move" => marker' # None)
            /\ cur' = None /\ work' = {} /\ todo' \subseteq Names
        BY <3>1 DEF Boot
      <4>3. late' \in BOOLEAN /\ warned' \subseteq Names /\ fresh' \in BOOLEAN
        BY <3>1 DEF Boot
      <4>4. QED BY <3>1, <4>1, <4>2, <4>3 DEF Boot
    <3>2. CASE Stop \/ Error
      BY <3>2 DEF Stop, Error, Halt
    <3>3. CASE PowerOff
      BY <3>3 DEF PowerOff
    <3>4. ASSUME NEW p \in Paths, Write(p) PROVE TypeOK'
      BY <3>4 DEF Write, Tree
    <3>5. ASSUME NEW ks \in Keepers, Request(ks) PROVE TypeOK'
      BY <3>5 DEF Request
    <3>6. CASE MoveOldAway
      BY <3>6 DEF MoveOldAway, Rescue
    <3>7. CASE DropMarker
      BY <3>7 DEF DropMarker, Rescue
    <3> HIDE DEF TypeOK, InHand, Booting
    <3>8. QED BY <3>1, <3>2, <3>3, <3>4, <3>5, <3>6, <3>7 DEF Admin
  <2>4. UNCHANGED vars /\ TypeOK => TypeOK'
    BY DEF vars, memory, history, TypeOK, InHand, Booting, Tree
  <2>5. QED BY <2>1, <2>2, <2>3, <2>4 DEF Next
<1>2. QED BY <1>1, <1>s, PTL DEF Spec
-----------------------------------------------------------------------------
(* No file is lost.                                                         *)

\* The invariant NothingLost rests on: before old-root has a file there is no second
\* version of it, and it is removed only once it is copied.
THEOREM SafeAlways == Spec => []SafeInv
<1>1. Init => SafeInv
  BY DEF Init, SafeInv, Safe, Empty
\* Every step keeps a safe copy of every file.
<1>s. TypeOK /\ SafeInv /\ [Next]_vars => SafeInv'
  \* The loop that stages the entries: a file leaves the root by a rename into
  \* old-root.tmp, or when its copy is there.
  <2>1. TypeOK /\ SafeInv /\ Stage => SafeInv'
    <3> SUFFICES ASSUME TypeOK, SafeInv, Stage PROVE SafeInv'
      OBVIOUS
    <3>t. root \in Tree /\ tmp \in Tree /\ old \in Tree /\ stake \in Tree /\ ConstantsOK
      BY ConstantsOK DEF TypeOK
    <3>1. ASSUME NEW n \in Names, Move(n) PROVE SafeInv'
      <4>1. \A p \in Paths : Safe(p)'
        BY <3>1, <3>t DEF SafeInv, Safe, Move, history, Tree, In, FilesOf
      <4>2. QED BY <3>1, <4>1 DEF Move, SafeInv
    <3>2. ASSUME NEW n \in Names, BeginCopy(n) PROVE SafeInv'
      <4>1. \A p \in Paths : Safe(p)'
        BY <3>2 DEF SafeInv, Safe, BeginCopy, history
      <4>2. QED BY <3>2, <4>1 DEF BeginCopy, SafeInv, In, FilesOf
    <3>3. ASSUME NEW q \in Paths, Copy(q) PROVE SafeInv'
      <4>1. root[q] # None /\ q \in In(root, cur) /\ work \subseteq In(root, cur)
        BY <3>3 DEF Copy, SafeInv, In
      <4>2. \A p \in Paths : Safe(p)'
        BY <3>3, <3>t, <4>1 DEF SafeInv, Safe, Copy, history, Tree
      <4>3. \A p \in In(root, cur)' \ work' : tmp'[p] = root'[p]
        BY <3>3, <3>t, <4>1 DEF SafeInv, Copy, history, Tree, In, FilesOf
      <4>4. QED BY <3>3, <4>1, <4>2, <4>3 DEF Copy, SafeInv, In, FilesOf
    <3>4. ASSUME NEW q \in Paths, Delete(q) PROVE SafeInv'
      <4>1. tmp[q] = root[q]
        BY <3>4 DEF Delete, SafeInv
      <4>2. \A p \in Paths : Safe(p)'
        BY <3>4, <3>t, <4>1 DEF SafeInv, Safe, Delete, history, Tree
      <4>3. \A p \in work' : tmp'[p] = root'[p]
        BY <3>4, <3>t DEF SafeInv, Delete, history, Tree
      <4>4. QED BY <3>4, <4>2, <4>3 DEF Delete, SafeInv
    <3>5. ASSUME CopyFails \/ DeleteFails \/ EndDelete PROVE SafeInv'
      <4>1. pc' = "move" /\ UNCHANGED <<root, tmp, old, stake>>
        BY <3>5 DEF CopyFails, DeleteFails, EndDelete, GiveUp, history
      <4>2. QED BY <4>1 DEF SafeInv, Safe
    <3>6. CASE EndCopy
      BY <3>6 DEF EndCopy, history, SafeInv, Safe, In, FilesOf
    <3>7. CASE Promote
      <4>1. CASE old = Empty
        <5>1. pc' = "restore" /\ old' = tmp /\ tmp' = Empty /\ UNCHANGED <<root, stake>>
          BY <3>7, <4>1 DEF Promote, history
        <5>2. \A p \in Paths : old[p] = None /\ tmp'[p] = None
          BY <4>1, <5>1 DEF Empty
        <5>3. \A p \in Paths : Safe(p)'
          BY <5>1, <5>2 DEF SafeInv, Safe
        <5>4. \A p \in Paths : stake'[p] = None \/ old'[p] \in {None, stake'[p]}
          BY <5>1, <5>2 DEF SafeInv, Safe
        <5>5. QED BY <5>1, <5>3, <5>4 DEF SafeInv, Empty
      <4>2. CASE old # Empty
        BY <3>7, <4>2 DEF Promote, history, SafeInv, Safe
      <4>3. QED BY <4>1, <4>2
    <3>8. QED BY <3>1, <3>2, <3>3, <3>4, <3>5, <3>6, <3>7 DEF Stage
  \* The loop that restores the keepers writes to the root only what old-root has.
  <2>2. TypeOK /\ SafeInv /\ Restore => SafeInv'
    <3> SUFFICES ASSUME TypeOK, SafeInv, Restore PROVE SafeInv'
      OBVIOUS
    <3>t. root \in Tree /\ tmp \in Tree /\ old \in Tree /\ stake \in Tree
      BY DEF TypeOK
    <3>1. ASSUME NEW q \in Paths, RestoreFile(q) PROVE SafeInv'
      <4>1. \A p \in Paths : Safe(p)'
        BY <3>1, <3>t DEF SafeInv, Safe, RestoreFile, history, Tree
      <4>2. QED BY <3>1, <4>1 DEF RestoreFile, history, SafeInv, Empty
    <3>2. ASSUME NEW q \in Paths, CopyBack(q) PROVE SafeInv'
      <4>1. old[q] # None /\ (stake[q] = None \/ old[q] \in {None, stake[q]})
        BY <3>2 DEF CopyBack, SafeInv, In
      <4>2. \A p \in Paths : Safe(p)'
        BY <3>2, <3>t, <4>1 DEF SafeInv, Safe, CopyBack, history, Tree
      <4>3. QED BY <3>2, <4>2 DEF CopyBack, history, SafeInv, Empty, In, FilesOf
    <3>3. ASSUME NEW n \in Names, RestoreDir(n) PROVE SafeInv'
      BY <3>3 DEF RestoreDir, history, SafeInv, Safe, Empty, In, FilesOf
    <3>4. CASE EndCopyBack \/ CopyBackFails
      <4>1. pc' = "restore" /\ pc = "copy back" /\ UNCHANGED <<root, tmp, old, stake>>
        BY <3>4 DEF EndCopyBack, CopyBackFails, Restored, history
      <4>2. QED BY <4>1 DEF SafeInv, Safe, Empty
    <3>5. CASE RemoveMarker
      BY <3>5 DEF RemoveMarker, SafeInv, Safe
    <3>6. QED BY <3>1, <3>2, <3>3, <3>4, <3>5 DEF Restore
  \* What begins a lustrate, and what happens outside of one.
  <2>3. TypeOK /\ SafeInv /\ (Boot \/ Error \/ Stop \/ PowerOff \/ Admin) => SafeInv'
    <3> SUFFICES ASSUME TypeOK, SafeInv, Boot \/ Error \/ Stop \/ PowerOff \/ Admin PROVE SafeInv'
      OBVIOUS
    <3>t. root \in Tree /\ tmp \in Tree /\ stake \in Tree
      BY DEF TypeOK
    <3>1. CASE Boot
      <4>1. pc' \in {"up", "move"} /\ UNCHANGED <<root, tmp, old>>
        BY <3>1 DEF Boot
      <4>2. \/ UNCHANGED stake
            \/ stake' = [p \in Paths |-> IF tmp[p] = None THEN root[p] ELSE None]
        BY <3>1 DEF Boot
      <4>3. \A p \in Paths : Safe(p)'
        BY <4>1, <4>2 DEF SafeInv, Safe
      <4>4. QED BY <4>1, <4>3 DEF SafeInv
    <3>2. CASE Stop \/ Error \/ PowerOff
      <4>1. pc' = "off" /\ UNCHANGED <<root, tmp, old, stake>>
        BY <3>2 DEF Stop, Error, Halt, PowerOff, history
      <4>2. QED BY <4>1 DEF SafeInv, Safe
    <3>3. ASSUME NEW q \in Paths, Write(q) PROVE SafeInv'
      <4>1. pc' = "up" /\ \A p \in Paths : Safe(p)'
        BY <3>3, <3>t DEF Write, SafeInv, Safe, Tree
      <4>2. QED BY <4>1 DEF SafeInv
    <3>4. ASSUME stake' = Empty, pc' \in {"up", "off"} PROVE SafeInv'
      BY <3>4 DEF SafeInv, Safe, Empty
    <3>5. QED BY <3>1, <3>2, <3>3, <3>4 DEF Admin, Request, MoveOldAway, DropMarker, Rescue
  <2>4. UNCHANGED vars /\ SafeInv => SafeInv'
    BY DEF vars, memory, history, SafeInv, Safe, In, FilesOf, Empty
  <2>5. QED BY <2>1, <2>2, <2>3, <2>4 DEF Next
<1>2. QED BY <1>1, <1>s, TypeCorrect, PTL DEF Spec

\* No file that was in the root when a lustrate began is ever lost, whatever power
\* failures and failing calls come in between (handle_lustrate, move_path).
THEOREM NoFileLost == Spec => []NothingLost
<1>1. SafeInv => NothingLost
  BY DEF SafeInv, Safe, NothingLost
<1>2. QED BY <1>1, SafeAlways, PTL
-----------------------------------------------------------------------------
(* What a lustrate that is over has done.                                   *)

\* The loops are over: entries that had their turn have left the root; keepers that had theirs
\* are back, and of the others there is nothing.
Staging   == pc \in {"move", "copy", "delete"}
Restoring == pc \in {"restore", "copy back"}
StagedInv ==
  /\ Staging => \A p \in Paths :
       Top[p] \notin warned \cup todo /\ (pc = "move" \/ Top[p] # cur) => root[p] = None
  /\ pc = "delete" => \A p \in FilesOf(cur) \ work : root[p] = None
RestoredInv ==
  /\ Restoring => todo \subseteq marker
  /\ pc = "copy back" => cur \in marker /\ cur \notin todo
  /\ Restoring => \A p \in Paths : Top[p] \notin warned =>
       /\ stake[p] \in {None, old[p]}
       /\ IF Top[p] \in marker \ todo
          THEN pc = "restore" \/ Top[p] # cur \/ p \notin work => root[p] = old[p]
          ELSE root[p] = IF p \in marker \ todo /\ old[p] # None THEN Hollow ELSE None
ServedInv == served # None => marker = None /\ LustrateComplete

\* A lustrate that ends, in however many boots, has put into old-root all that was in the root, and
\* back what the marker lists; it leaves nothing else, whatever the tree and the markers are.
THEOREM AlwaysComplete == Spec => []LustrateComplete
<1> DEFINE I == StagedInv /\ RestoredInv /\ ServedInv
<1>1. Init => I
  BY ConstantsOK DEF Init, StagedInv, RestoredInv, ServedInv, Staging, Restoring
<1>2. TypeOK /\ SafeInv /\ I /\ [Next]_vars => I'
  <2> SUFFICES ASSUME TypeOK, SafeInv, StagedInv, RestoredInv, ServedInv, [Next]_vars
               PROVE  StagedInv' /\ RestoredInv' /\ ServedInv'
    OBVIOUS
  <2>t. /\ root \in Tree /\ tmp \in Tree /\ old \in Tree /\ stake \in Tree
        /\ Booting => marker # None
        /\ \A p \in Paths : Top[p] \in Names
        /\ Names \cap Paths = {} /\ Hollow # None
        /\ marker # None => marker \subseteq Names \cup Paths
    BY ConstantsOK DEF TypeOK
  <2> USE DEF Staging, Restoring, Booting, history, memory
  \* What was served stays as long as the root, old-root and the history do.
  <2>s. UNCHANGED <<root, old, stake, warned, served, marker>> => ServedInv'
    BY DEF ServedInv, LustrateComplete
  <2>b. Booting => served = None
    BY <2>t DEF ServedInv
  <2>1. CASE Boot
    <3>1. /\ pc' \in {"up", "move"} /\ UNCHANGED <<root, tmp, old, marker, served>>
          /\ pc' = "move" => todo' = {n \in Names : In(root, n) # {}}
          /\ marker = None => UNCHANGED <<warned, stake>>
      BY <2>1 DEF Boot
    <3>2. ServedInv'
      BY <3>1 DEF ServedInv, LustrateComplete
    <3> QED BY <2>t, <3>1, <3>2 DEF StagedInv, RestoredInv, In, FilesOf
  <2>2. ASSUME NEW n \in Names, Move(n) PROVE StagedInv' /\ RestoredInv' /\ ServedInv'
    <3>1. /\ pc = "move" /\ pc' = "move" /\ todo' = todo \ {n} /\ served' = served /\ warned' = warned
          /\ root' = [p \in Paths |-> IF Top[p] = n THEN None ELSE root[p]]
      BY <2>2 DEF Move
    <3> QED BY <2>b, <3>1 DEF StagedInv, RestoredInv, ServedInv
  <2>3. ASSUME NEW n \in Names, BeginCopy(n) PROVE StagedInv' /\ RestoredInv' /\ ServedInv'
    BY <2>3, <2>s DEF BeginCopy, StagedInv, RestoredInv
  <2>4. ASSUME NEW q \in Paths, Copy(q) PROVE StagedInv' /\ RestoredInv' /\ ServedInv'
    BY <2>4, <2>s DEF Copy, StagedInv, RestoredInv
  <2>5. ASSUME NEW q \in Paths, Delete(q) PROVE StagedInv' /\ RestoredInv' /\ ServedInv'
    <3>1. /\ pc = "delete" /\ pc' = "delete" /\ root' = [root EXCEPT ![q] = None] /\ work' = work \ {q}
          /\ UNCHANGED <<todo, cur, warned, served>>
      BY <2>5 DEF Delete
    <3> QED BY <2>b, <2>t, <3>1 DEF StagedInv, RestoredInv, ServedInv, FilesOf, Tree
  <2>6. CASE CopyFails \/ DeleteFails
    <3>1. /\ pc' = "move" /\ root' = root /\ todo' = todo /\ served' = served /\ warned' = warned \cup {cur}
          /\ pc \in {"copy", "delete"}
      BY <2>6 DEF CopyFails, DeleteFails, GiveUp
    <3> QED BY <2>b, <3>1 DEF StagedInv, RestoredInv, ServedInv
  <2>7. CASE EndCopy
    BY <2>7, <2>s DEF EndCopy, StagedInv, RestoredInv, In
  <2>8. CASE EndDelete
    BY <2>8, <2>s DEF EndDelete, GiveUp, StagedInv, RestoredInv, FilesOf
  <2>9. CASE Promote
    <3>1. CASE old = Empty
      <4>1. /\ pc = "move" /\ todo = {} /\ old' = tmp /\ pc' = "restore" /\ todo' = marker
            /\ UNCHANGED <<root, marker, stake, warned, served>>
        BY <2>9, <3>1 DEF Promote
      <4>2. ASSUME NEW p \in Paths, Top[p] \notin warned PROVE root[p] = None /\ stake[p] \in {None, tmp[p]}
        <5>1. root[p] = None
          BY <4>1, <4>2 DEF StagedInv
        <5>2. old[p] = None
          BY <3>1 DEF Empty
        <5> QED BY <5>1, <5>2 DEF SafeInv, Safe
      <4> QED BY <2>b, <4>1, <4>2 DEF StagedInv, RestoredInv, ServedInv
    <3>2. CASE old # Empty
      BY <2>9, <2>s, <3>2 DEF Promote, StagedInv, RestoredInv
    <3> QED BY <3>1, <3>2
  <2>10. ASSUME NEW q \in Paths, RestoreFile(q) PROVE StagedInv' /\ RestoredInv' /\ ServedInv'
    <3>1. /\ pc = "restore" /\ pc' = "restore" /\ q \in todo /\ todo' = todo \ {q}
          /\ root' = IF old[q] # None /\ root[q] = None THEN [root EXCEPT ![q] = Hollow] ELSE root
          /\ UNCHANGED <<old, marker, stake, warned, served>>
      BY <2>10 DEF RestoreFile
    <3>2. ASSUME NEW p \in Paths, Top[p] \notin warned
          PROVE  /\ stake'[p] \in {None, old'[p]}
                 /\ IF Top[p] \in marker' \ todo'
                    THEN root'[p] = old'[p]
                    ELSE root'[p] = IF p \in marker' \ todo' /\ old'[p] # None THEN Hollow ELSE None
      <4>1. (Top[p] \in marker \ todo <=> Top[p] \in marker' \ todo') /\ Top[p] # q /\ q \in marker
        BY <2>t, <3>1 DEF RestoredInv
      <4>2. CASE p = q
        BY <2>t, <3>1, <3>2, <4>1, <4>2 DEF RestoredInv, Tree
      <4>3. CASE p # q
        <5>1. root'[p] = root[p]
          BY <2>t, <3>1, <4>3 DEF Tree
        <5> QED BY <3>1, <3>2, <4>1, <4>3, <5>1 DEF RestoredInv
      <4> QED BY <4>2, <4>3
    <3> QED BY <2>b, <3>1, <3>2 DEF StagedInv, RestoredInv, ServedInv
  <2>11. ASSUME NEW n \in Names, RestoreDir(n) PROVE StagedInv' /\ RestoredInv' /\ ServedInv'
    <3>1. /\ pc = "restore" /\ pc' = "copy back" /\ n \in todo /\ todo' = todo \ {n} /\ cur' = n /\ work' = In(old, n)
          /\ UNCHANGED <<root, old, marker, stake, warned, served>>
      BY <2>11 DEF RestoreDir
    <3>2. ASSUME NEW p \in Paths, Top[p] \notin warned
          PROVE  IF Top[p] \in marker \ todo'
                 THEN Top[p] # n \/ p \notin In(old, n) => root[p] = old[p]
                 ELSE root[p] = IF p \in marker \ todo' /\ old[p] # None THEN Hollow ELSE None
      <4>1. p # n
        BY <2>t
      <4>2. p \notin In(old, Top[p]) => old[p] = None
        BY DEF In, FilesOf
      <4> QED BY <3>1, <3>2, <4>1, <4>2 DEF RestoredInv
    <3> QED BY <2>b, <3>1, <3>2 DEF StagedInv, RestoredInv, ServedInv
  <2>12. ASSUME NEW q \in Paths, CopyBack(q) PROVE StagedInv' /\ RestoredInv' /\ ServedInv'
    <3>1. /\ pc = "copy back" /\ pc' = "copy back" /\ q \in work /\ work' = work \ {q}
          /\ root' = [root EXCEPT ![q] = old[q]]
          /\ UNCHANGED <<old, marker, stake, warned, served, cur, todo>>
      BY <2>12 DEF CopyBack
    <3>2. Top[q] = cur /\ cur \in marker \ todo
      BY <3>1 DEF TypeOK, InHand, FilesOf, RestoredInv
    <3>3. \A p \in Paths : root'[p] = IF p = q THEN old[p] ELSE root[p]
      BY <2>t, <3>1 DEF Tree
    <3> QED BY <2>b, <3>1, <3>2, <3>3 DEF StagedInv, RestoredInv, ServedInv
  <2>13. CASE EndCopyBack
    BY <2>13, <2>s DEF EndCopyBack, Restored, StagedInv, RestoredInv
  <2>14. CASE CopyBackFails
    <3>1. /\ pc = "copy back" /\ pc' = "restore" /\ warned' = warned \cup {cur}
          /\ UNCHANGED <<root, old, marker, stake, served, todo>>
      BY <2>14 DEF CopyBackFails, Restored
    <3> QED BY <2>b, <3>1 DEF StagedInv, RestoredInv, ServedInv
  <2>15. CASE RemoveMarker
    <3>1. /\ pc = "restore" /\ todo = {} /\ marker' = None /\ pc' = "up" /\ served' = marker
          /\ UNCHANGED <<root, old, stake, warned>>
      BY <2>15 DEF RemoveMarker
    <3> QED BY <3>1 DEF StagedInv, RestoredInv, ServedInv, LustrateComplete
  <2>16. CASE Error \/ Stop \/ PowerOff
    BY <2>16, <2>s DEF Error, Stop, Halt, PowerOff, StagedInv, RestoredInv
  <2>17. CASE Admin
    BY <2>17 DEF Admin, Write, Request, MoveOldAway, DropMarker, Rescue, StagedInv, RestoredInv, ServedInv
  <2>18. CASE UNCHANGED vars
    BY <2>18, <2>s DEF vars, StagedInv, RestoredInv
  <2> QED BY <2>1, <2>2, <2>3, <2>4, <2>5, <2>6, <2>7, <2>8, <2>9, <2>10, <2>11, <2>12, <2>13, <2>14, <2>15,
             <2>16, <2>17, <2>18 DEF Next, Stage, Restore
<1>3. ServedInv => LustrateComplete
  BY DEF ServedInv, LustrateComplete
<1> QED BY <1>1, <1>2, <1>3, TypeCorrect, SafeAlways, PTL DEF Spec
-----------------------------------------------------------------------------
(* Boots that fail, and old-root.                                           *)

\* The rename to old-root fails only when there was one before this lustrate, or when a
\* boot ended after making it: up to then a re-run retries (handle_lustrate).
THEOREM RetriesUntilPromoted == Spec => []RetriesBeforePromotion
<1>1. Init => LateInv
  BY DEF Init, LateInv, Booting
<1>2. LateInv => RetriesBeforePromotion
  BY DEF LateInv, RetriesBeforePromotion
\* A step of a boot, of power or of an administrator keeps what the re-runs rest on.
<1>3. TypeOK /\ LateInv /\ [Next]_vars => LateInv'
  <2> SUFFICES ASSUME TypeOK, LateInv, [Next]_vars PROVE LateInv'
    OBVIOUS
  <2> USE DEF LateInv, Booting, history, memory
  <2>1. CASE Boot
    BY <2>1 DEF Boot
  <2>2. CASE Promote
    BY <2>2 DEF Promote
  <2>3. CASE Stage /\ ~Promote
    <3>1. /\ pc \in {"move", "copy", "delete"} /\ pc' \in {"move", "copy", "delete"}
          /\ UNCHANGED <<old, marker, fresh, late>>
      BY <2>3 DEF Stage, Move, BeginCopy, Copy, CopyFails, EndCopy, Delete, DeleteFails,
                  EndDelete, GiveUp
    <3>2. QED BY <3>1
  <2>4. CASE RemoveMarker
    BY <2>4 DEF RemoveMarker
  <2>5. CASE Restore /\ ~RemoveMarker
    <3>1. /\ pc \in {"restore", "copy back"} /\ pc' \in {"restore", "copy back"}
          /\ UNCHANGED <<old, marker, fresh, late>>
      BY <2>5 DEF Restore, RestoreFile, CopyBack, RestoreDir, EndCopyBack, CopyBackFails,
                  Restored
    <3>2. QED BY <3>1
  <2>6. CASE Stop \/ Error
    BY <2>6 DEF Stop, Error, Halt
  <2>7. CASE PowerOff
    BY <2>7 DEF PowerOff
  <2>8. CASE Admin
    BY <2>8 DEF Admin, Write, Request, MoveOldAway, DropMarker, Rescue
  <2>9. CASE UNCHANGED vars
    BY <2>9 DEF vars
  <2>10. QED BY <2>1, <2>2, <2>3, <2>4, <2>5, <2>6, <2>7, <2>8, <2>9 DEF Next
<1>4. QED BY <1>1, <1>2, <1>3, TypeCorrect, PTL DEF Spec

\* Only a rescue changes an old-root with something in it (rename in handle_lustrate).
THEOREM OldRootSafe == Spec => OldRootKept
<1>1. TypeOK /\ [Next]_vars =>
        [old # Empty /\ spent'.rescues = spent.rescues => old' = old]_vars
  <2> SUFFICES ASSUME TypeOK, Next, old # Empty, spent'.rescues = spent.rescues
               PROVE  old' = old
    BY DEF vars, memory, history
  <2>1. ~MoveOldAway
    <3>1. spent.rescues \in Nat
      BY DEF TypeOK
    <3>2. MoveOldAway => spent'.rescues = spent.rescues + 1
      BY DEF MoveOldAway, Rescue, TypeOK
    <3>3. QED BY <3>1, <3>2
  <2>2. CASE Boot \/ Error \/ Stop \/ PowerOff
    BY <2>2 DEF Boot, Error, Stop, Halt, PowerOff
  <2>3. CASE Stage
    BY <2>3 DEF Stage, Move, BeginCopy, Copy, CopyFails, EndCopy, Delete, DeleteFails,
                EndDelete, Promote
  <2>4. CASE Restore
    BY <2>4 DEF Restore, RestoreFile, CopyBack, RestoreDir, EndCopyBack, CopyBackFails,
                RemoveMarker
  <2>5. CASE Admin
    BY <2>1, <2>5 DEF Admin, Write, Request, DropMarker
  <2>6. QED BY <2>2, <2>3, <2>4, <2>5 DEF Next
<1>2. QED BY <1>1, TypeCorrect, PTL DEF Spec, OldRootKept
=============================================================================
