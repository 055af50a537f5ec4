------------------------------ MODULE MountTree ------------------------------
(***************************************************************************)
(* Mounts over mounts, as the kernel keeps them: a mount sits on a directory *)
(* of another mount, or on the root of the mount that covered it before.     *)
(*                                                                           *)
(* A tree is a function from mounts to where they sit; paths are sequences   *)
(* of names from the root of a mount.                                        *)
(***************************************************************************)
EXTENDS Naturals, Sequences

Nowhere == [on |-> "nothing", at |-> <<>>]
Root(m) == [on |-> m, at |-> <<>>]

Places == [on : STRING, at : Seq(STRING)]

\* Where one ends up at a place: in the mount that covers it, or the one that covers that.
Covered(tree, place) ==
  LET cover[p \in Places] ==
        LET over == {m \in DOMAIN tree : tree[m] = p}
        IN IF over = {} THEN p ELSE cover[Root(CHOOSE m \in over : TRUE)]
  IN cover[place]

\* What a path leads to from the root of a mount.
Walk(tree, top, path) ==
  LET walk[k \in 0 .. Len(path)] ==
        IF k = 0 THEN Covered(tree, Root(top))
        ELSE LET p == walk[k - 1] IN Covered(tree, [p EXCEPT !.at = Append(@, path[k])])
  IN walk[Len(path)]

MountAt(tree, top, path) == Walk(tree, top, path).on
IsMounted(tree, top, path) == Walk(tree, top, path).at = <<>>

\* mount(2): on top of whatever is there. MS_MOVE: the same for a mount there is.
Attach(tree, m, top, path) ==
  [x \in DOMAIN tree \cup {m} |-> IF x = m THEN Walk(tree, top, path) ELSE tree[x]]
=============================================================================
