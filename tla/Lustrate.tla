------------------------------ MODULE Lustrate ------------------------------
(***************************************************************************)
(* Lustrate in stage 1 (src/crates/stage1/src/lib.rs, handle_lustrate): when *)
(* the root has a file nixos-lustrate, a boot moves everything but /nix and  *)
(* /boot into old-root, and copies back what the file lists.                 *)
(*                                                                          *)
(* Entries are staged in old-root.tmp, which one rename turns into old-root; *)
(* the file is removed last.  Power may fail between any two steps; the next *)
(* boot starts over.  A boot without the file just goes up.  "failed" is a     *)
(* boot whose rename to old-root has found one with something in it.         *)
(*                                                                          *)
(* Left out: entries the loop skips, modes, and a file that power failure    *)
(* leaves half copied (its source is still there).  A directory is its files, *)
(* or Hollow when it has a name that was a file's.                           *)
(***************************************************************************)
EXTENDS Naturals

CONSTANTS
  Names, Paths, Top,  \* entries of the root; files; the entry a file is, or is in
  Plain,              \* the entries that are files themselves
  Keepers,            \* what the marker may list: each a set of entries and files
  None, Hollow,       \* no such thing; a directory in the place of a file
  MaxStops, MaxFaults, MaxRequests, MaxRescues, MaxWrites  \* bounds

ASSUME ConstantsOK ==
  /\ Top \in [Paths -> Names]
  /\ Plain \subseteq Names
  /\ \A p, q \in Paths : Top[p] = Top[q] /\ Top[p] \in Plain => p = q
  /\ Names \cap Paths = {}
  /\ Keepers \subseteq SUBSET ((Names \ Plain) \cup Paths)
  /\ None \notin Nat \cup Names \cup Keepers \cup {Hollow} /\ Hollow \notin Nat
  /\ {MaxStops, MaxFaults, MaxRequests, MaxRescues, MaxWrites} \subseteq Nat

VARIABLES
  root, tmp, old,  \* the root, old-root.tmp and old-root: what each file holds
  marker,          \* what nixos-lustrate lists, or None
  pc,              \* where the boot is; "up" when the system runs, "off", "failed"
  todo, cur, work, \* entries of the loop; the one being copied; files of it to do
  stake,           \* history: what was in the root when this lustrate began
  fresh,           \* history: no boot has seen the marker yet
  late,            \* history: old-root was there before, or a boot ended after making it
  warned,          \* history: entries a warning was logged for
  served,          \* history: what the last completed lustrate was to keep, while nothing
                   \* has changed since
  spent

memory  == <<todo, cur, work>>
history == <<stake, fresh, late, warned, served>>
vars    == <<root, tmp, old, marker, pc, memory, history, spent>>

Tree        == [Paths -> Nat \cup {None, Hollow}]
Empty       == [p \in Paths |-> None]
FilesOf(n)  == {p \in Paths : Top[p] = n}
In(tree, n) == {p \in FilesOf(n) : tree[p] # None}

\* Something can be copied or renamed onto what is there.
Fits(c, there) == there = None \/ (c = Hollow <=> there = Hollow)

Booting == pc \notin {"up", "off", "failed"}

\* A boot under way ends.
Halt ==
  /\ pc' = "off" /\ todo' = {} /\ cur' = None /\ work' = {}
  /\ late' = (late \/ pc \in {"restore", "copy back"})
  /\ UNCHANGED <<root, tmp, old, marker, stake, fresh, warned, served>>

Fault == spent.faults < MaxFaults /\ spent' = [spent EXCEPT !.faults = @ + 1]
----------------------------------------------------------------------------
\* Mutant: old-root.tmp must not be there (create_dir).
BootOnce ==
  /\ pc = "off"
  /\ pc' = IF marker = None THEN "up" ELSE IF tmp # Empty THEN "failed" ELSE "move"
  /\ todo' = IF pc' # "move" THEN {} ELSE {n \in Names : In(root, n) # {}}
  /\ IF fresh /\ marker # None
     THEN /\ fresh' = FALSE /\ warned' = {} /\ late' = (old # Empty)
          /\ stake' = [p \in Paths |-> IF tmp[p] = None THEN root[p] ELSE None]
     ELSE UNCHANGED <<fresh, warned, late, stake>>
  /\ UNCHANGED <<root, tmp, old, marker, cur, work, served, spent>>

\* handle_lustrate up to its first loop; an old-root.tmp that is there is used.
Boot ==
  /\ pc = "off"
  /\ pc' = IF marker = None THEN "up" ELSE "move"
  /\ todo' = IF marker = None THEN {} ELSE {n \in Names : In(root, n) # {}}
  /\ IF fresh /\ marker # None
     THEN /\ fresh' = FALSE /\ warned' = {} /\ late' = (old # Empty)
          /\ stake' = [p \in Paths |-> IF tmp[p] = None THEN root[p] ELSE None]
     ELSE UNCHANGED <<fresh, warned, late, stake>>
  /\ UNCHANGED <<root, tmp, old, marker, cur, work, served, spent>>

\* rename(2): a directory does not go onto one with something in it.
Renames(n) ==
  \A p \in In(root, n) : IF n \in Plain THEN Fits(root[p], tmp[p]) ELSE In(tmp, n) = {}

\* move_path, in one rename.
Move(n) ==
  /\ pc = "move" /\ n \in todo /\ Renames(n)
  /\ tmp' = [p \in Paths |-> IF p \in In(root, n) THEN root[p] ELSE tmp[p]]
  /\ root' = [p \in Paths |-> IF Top[p] = n THEN None ELSE root[p]]
  /\ todo' = todo \ {n}
  /\ UNCHANGED <<old, marker, pc, cur, work, history, spent>>

\* move_path, when the rename fails: copy it and remove it.
BeginCopy(n) ==
  /\ pc = "move" /\ n \in todo
  /\ \/ ~Renames(n) /\ UNCHANGED spent
     \/ Renames(n) /\ Fault
  /\ pc' = "copy" /\ cur' = n /\ todo' = todo \ {n} /\ work' = In(root, n)
  /\ UNCHANGED <<root, tmp, old, marker, history>>

Copy(p) ==
  /\ pc = "copy" /\ p \in work /\ Fits(root[p], tmp[p])
  /\ tmp' = [tmp EXCEPT ![p] = root[p]] /\ work' = work \ {p}
  /\ UNCHANGED <<root, old, marker, pc, todo, cur, history, spent>>

\* Mutant: an error of the copy is only logged.
GiveUpLate == pc' = (IF pc = "copy" THEN "delete" ELSE "move") /\ UNCHANGED <<cur, work>>

\* An error is a warning: on to the next entry.
GiveUp == pc' = "move" /\ cur' = None /\ work' = {}

CopyFails ==
  /\ pc = "copy"
  /\ \/ (\E p \in work : ~Fits(root[p], tmp[p])) /\ UNCHANGED spent
     \/ work # {} /\ Fault
  /\ GiveUp /\ warned' = warned \cup {cur}
  /\ UNCHANGED <<root, tmp, old, marker, todo, stake, fresh, late, served>>

EndCopy ==
  /\ pc = "copy" /\ work = {}
  /\ pc' = "delete" /\ work' = In(root, cur)
  /\ UNCHANGED <<root, tmp, old, marker, todo, cur, history, spent>>

Delete(p) ==
  /\ pc = "delete" /\ p \in work
  /\ root' = [root EXCEPT ![p] = None] /\ work' = work \ {p}
  /\ UNCHANGED <<tmp, old, marker, pc, todo, cur, history, spent>>

DeleteFails ==
  /\ pc = "delete" /\ work # {} /\ Fault
  /\ GiveUp /\ warned' = warned \cup {cur}
  /\ UNCHANGED <<root, tmp, old, marker, todo, stake, fresh, late, served>>

EndDelete ==
  /\ pc = "delete" /\ work = {} /\ GiveUp
  /\ UNCHANGED <<root, tmp, old, marker, todo, history, spent>>
----------------------------------------------------------------------------
\* Mutant: the rename does not wait for the moves.
PromoteEarly ==
  /\ pc = "move"
  /\ IF old = Empty
     THEN old' = tmp /\ tmp' = Empty /\ pc' = "restore" /\ todo' = marker
     ELSE pc' = "failed" /\ todo' = {} /\ UNCHANGED <<old, tmp>>
  /\ UNCHANGED <<root, marker, cur, work, history, spent>>

\* Mutant: an old-root that is there gives way.
PromoteOver ==
  /\ pc = "move" /\ todo = {}
  /\ old' = tmp /\ tmp' = Empty /\ pc' = "restore" /\ todo' = marker
  /\ UNCHANGED <<root, marker, cur, work, history, spent>>

\* old-root.tmp becomes old-root.  The rename fails onto one with something in it, and
\* with it the boot.
Promote ==
  /\ pc = "move" /\ todo = {}
  /\ IF old = Empty
     THEN old' = tmp /\ tmp' = Empty /\ pc' = "restore" /\ todo' = marker
     ELSE pc' = "failed" /\ todo' = {} /\ UNCHANGED <<old, tmp>>
  /\ UNCHANGED <<root, marker, cur, work, history, spent>>

\* A keeper that is a file: copy_dir_recursive makes a directory of its name, and fails.
RestoreFile(p) ==
  /\ pc = "restore" /\ p \in todo \cap Paths
  /\ root' = IF old[p] # None /\ root[p] = None THEN [root EXCEPT ![p] = Hollow] ELSE root
  /\ todo' = todo \ {p}
  /\ UNCHANGED <<tmp, old, marker, pc, cur, work, history, spent>>

RestoreDir(n) ==
  /\ pc = "restore" /\ n \in todo \cap Names
  /\ pc' = "copy back" /\ cur' = n /\ work' = In(old, n) /\ todo' = todo \ {n}
  /\ UNCHANGED <<root, tmp, old, marker, history, spent>>

CopyBack(p) ==
  /\ pc = "copy back" /\ p \in work /\ Fits(old[p], root[p])
  /\ root' = [root EXCEPT ![p] = old[p]] /\ work' = work \ {p}
  /\ UNCHANGED <<tmp, old, marker, pc, todo, cur, history, spent>>

Restored == pc' = "restore" /\ cur' = None /\ work' = {}
EndCopyBack ==
  /\ pc = "copy back" /\ work = {} /\ Restored
  /\ UNCHANGED <<root, tmp, old, marker, todo, history, spent>>

CopyBackFails ==
  /\ pc = "copy back"
  /\ \/ (\E p \in work : ~Fits(old[p], root[p])) /\ UNCHANGED spent
     \/ work # {} /\ Fault
  /\ Restored /\ warned' = warned \cup {cur}
  /\ UNCHANGED <<root, tmp, old, marker, todo, stake, fresh, late, served>>

\* An error that is not only a warning ends the boot: of making old-root.tmp, reading the
\* root, renaming, making a keeper's parent, removing the marker.
Error == pc \in {"move", "restore"} /\ Fault /\ Halt

\* The marker goes last; the rest of the boot leaves these files alone.
RemoveMarker ==
  /\ pc = "restore" /\ todo = {}
  /\ marker' = None /\ pc' = "up" /\ served' = marker
  /\ UNCHANGED <<root, tmp, old, memory, stake, fresh, late, warned, spent>>
----------------------------------------------------------------------------
(* Power, the running system, and an administrator with a rescue medium.   *)

\* Power fails.
Stop == Booting /\ Halt /\ spent.stops < MaxStops /\ spent' = [spent EXCEPT !.stops = @ + 1]

PowerOff ==
  /\ pc \in {"up", "failed"} /\ pc' = "off"
  /\ UNCHANGED <<root, tmp, old, marker, memory, history, spent>>

Write(p) ==
  /\ pc = "up" /\ root[p] # Hollow
  /\ spent.writes < MaxWrites /\ spent' = [spent EXCEPT !.writes = @ + 1]
  /\ root' = [root EXCEPT ![p] = spent.writes + 1]
  /\ stake' = [stake EXCEPT ![p] = None] /\ served' = None
  /\ UNCHANGED <<tmp, old, marker, pc, memory, fresh, late, warned>>

Request(ks) ==
  /\ pc = "up" /\ marker = None
  /\ spent.requests < MaxRequests /\ spent' = [spent EXCEPT !.requests = @ + 1]
  /\ marker' = ks /\ fresh' = TRUE /\ stake' = Empty /\ served' = None
  /\ UNCHANGED <<root, tmp, old, pc, memory, late, warned>>

Rescue == /\ pc \in {"up", "failed"}
          /\ spent.rescues < MaxRescues /\ spent' = [spent EXCEPT !.rescues = @ + 1]
          /\ pc' = "off" /\ stake' = Empty /\ served' = None
          /\ UNCHANGED <<root, tmp, memory, fresh, warned>>
MoveOldAway == Rescue /\ old # Empty /\ old' = Empty /\ late' = FALSE /\ UNCHANGED marker
DropMarker  == Rescue /\ marker # None /\ marker' = None /\ UNCHANGED <<old, late>>

Init ==
  /\ root \in [Paths -> {0, None}] /\ tmp = Empty /\ old = Empty /\ marker = None
  /\ pc = "up" /\ todo = {} /\ cur = None /\ work = {}
  /\ stake = Empty /\ fresh = FALSE /\ late = FALSE /\ warned = {} /\ served = None
  /\ spent = [stops |-> 0, faults |-> 0, requests |-> 0, rescues |-> 0, writes |-> 0]

Stage   == \/ \E n \in Names : Move(n) \/ BeginCopy(n)
           \/ \E p \in Paths : Copy(p) \/ Delete(p)
           \/ CopyFails \/ EndCopy \/ DeleteFails \/ EndDelete \/ Promote
Restore == \/ \E p \in Paths : RestoreFile(p) \/ CopyBack(p)
           \/ \E n \in Names : RestoreDir(n)
           \/ EndCopyBack \/ CopyBackFails \/ RemoveMarker
Admin   == \/ \E p \in Paths : Write(p)
           \/ \E ks \in Keepers : Request(ks)
           \/ MoveOldAway \/ DropMarker
Next == Boot \/ Stage \/ Restore \/ Error \/ Stop \/ PowerOff \/ Admin

Spec == Init /\ [][Next]_vars
----------------------------------------------------------------------------
(* Properties.                                                              *)

\* The entry in hand is the one whose files are being copied or removed.
InHand == IF pc \in {"copy", "delete", "copy back"}
          THEN cur \in Names /\ work \subseteq FilesOf(cur)
          ELSE cur = None /\ work = {}

TypeOK ==
  /\ root \in Tree /\ tmp \in Tree /\ old \in Tree /\ stake \in Tree
  /\ marker \in Keepers \cup {None} /\ served \in Keepers \cup {None}
  /\ pc \in {"up", "off", "failed", "move", "copy", "delete", "restore", "copy back"}
  /\ Booting => marker # None
  /\ todo \subseteq Names \cup Paths /\ InHand
  /\ fresh \in BOOLEAN /\ late \in BOOLEAN /\ warned \subseteq Names
  /\ spent \in [stops : Nat, faults : Nat, requests : Nat, rescues : Nat, writes : Nat]

\* Whatever power failures, failing calls and repeated boots come in between, each file
\* that was in the root when a lustrate began is in the root, in old-root.tmp or in
\* old-root, unless old-root.tmp had something of that name before (handle_lustrate,
\* move_path: a file is removed only once it is copied).
NothingLost ==
  \A p \in Paths : stake[p] # None => stake[p] \in {root[p], tmp[p], old[p]}

\* When a lustrate is over, in however many boots, everything that was in the root is in
\* old-root, directories to be kept are back and nothing else is left in the root,
\* entries with a warning aside (handle_lustrate).
LustrateComplete ==
  served # None =>
    \A p \in Paths : Top[p] \notin warned =>
      /\ stake[p] \in {None, old[p]}
      /\ root[p] = IF Top[p] \in served THEN old[p]
                   ELSE IF p \in served /\ old[p] # None THEN Hollow ELSE None

\* The rename to old-root fails only because of an old-root from before, or because a boot
\* ended after making it: until then a re-run retries (comment in handle_lustrate).
RetriesBeforePromotion == pc = "failed" => late

\* The rename to old-root never fails because an earlier boot was interrupted (comment in
\* handle_lustrate: "a re-run retries").
Retries == pc # "failed"

\* An old-root with something in it is never changed by a boot (rename in
\* handle_lustrate; nothing else writes to it).
OldRootKept ==
  [][old # Empty /\ spent'.rescues = spent.rescues => old' = old]_vars

\* What NothingLost rests on: before old-root has a file, there is no second version of
\* it, a file is removed once it is copied, and old-root.tmp is empty after the rename.
Safe(p) ==
  \/ stake[p] \in {None, old[p]}
  \/ /\ root[p] \in {None, stake[p]} /\ tmp[p] \in {None, stake[p]}
     /\ root[p] = stake[p] \/ tmp[p] = stake[p]
SafeInv ==
  /\ \A p \in Paths : Safe(p)
  /\ pc = "copy" =>
       work \subseteq In(root, cur) /\ \A p \in In(root, cur) \ work : tmp[p] = root[p]
  /\ pc = "delete" => \A p \in work : tmp[p] = root[p]
  /\ pc \in {"restore", "copy back"} =>
       tmp = Empty /\ \A p \in Paths : stake[p] = None \/ old[p] \in {None, stake[p]}
  /\ pc = "copy back" => work \subseteq In(old, cur)

\* What RetriesBeforePromotion rests on: a lustrate that began has marked that there is
\* an old-root, but for the boot that made it.
LateInv ==
  /\ Booting \/ pc = "failed" => marker # None /\ ~fresh
  /\ pc = "failed" => old # Empty
  /\ marker # None /\ ~fresh /\ old # Empty /\ pc \notin {"restore", "copy back"} => late
=============================================================================
