--------------------------- MODULE MCUsersGroups ---------------------------
(* Instances of UsersGroups: three users, three groups, a handful of ids.     *)
EXTENDS UsersGroups

CONSTANTS a, b, c,   \* users
          wheel, audio, games   \* groups

U(n, i, p, home, sub) ==
  [name |-> n, uid |-> i, isSystemUser |-> FALSE, pw |-> p, badExpires |-> FALSE,
   createHome |-> home, autoSub |-> sub]
G(n, i, ms) == [name |-> n, gid |-> i, members |-> ms]
S(m, us, gs) == [mutableUsers |-> m, users |-> us, groups |-> gs]

AliceNew   == U(a, None, "initial", TRUE, TRUE)
AliceHash  == U(a, None, "hash", FALSE, FALSE)
BobAuto    == U(b, None, "none", FALSE, TRUE)
BobThree   == U(b, 3, "initial", FALSE, FALSE)
BobExpired == [U(b, None, "hash", FALSE, FALSE) EXCEPT !.badExpires = TRUE]
CarolSub   == U(c, None, "initial", FALSE, TRUE)

OnlyAlice   == S(TRUE, {AliceNew}, {G(wheel, None, {a})})
OnlyBob     == S(TRUE, {BobAuto}, {G(audio, None, {})})
BobOnThree  == S(TRUE, {BobThree, AliceHash}, {G(wheel, None, {b})})
WithExpired == S(TRUE, {AliceNew, BobExpired}, {})
Immutable   == S(FALSE, {AliceNew}, {G(wheel, 1, {})})
AllThree    == S(TRUE, {AliceNew, BobAuto, CarolSub}, {G(wheel, None, {}), G(audio, None, {})})
Crowded     == S(TRUE, {}, {G(x, None, {}) : x \in Groups})

ManySpecs    == {OnlyAlice, OnlyBob, BobOnThree, WithExpired, Immutable, AllThree, Crowded}

CarolLocal == [u \in Users |-> IF u = c THEN 3 ELSE None]
GroupLocal == [x \in Groups |-> IF x = wheel THEN 1 ELSE None]
=============================================================================
