----------------------------- MODULE UsersGroups -----------------------------
(***************************************************************************)
(* User and group activation (src/crates/update-users-groups/src/lib.rs):   *)
(* it brings /etc/group, /etc/passwd, /etc/shadow and /etc/subuid in line    *)
(* with a specification, and allocates the ids the specification leaves      *)
(* open so that none ever passes from one name to another.                   *)
(*                                                                          *)
(* Every file is replaced by a rename, so a step that writes a file is one   *)
(* action; so is one round of a loop.  A run can stop, killed or by a        *)
(* failing call, before any of them.  In a loop the order of the list is     *)
(* left open.  A dry run changes nothing and is left out; so are the fields  *)
(* of an account that are copied through (shell, description, primary        *)
(* group), the owner of /etc/shadow and the nscd caches.  Subordinate gids   *)
(* follow the uids.                                                          *)
(***************************************************************************)
EXTENDS Naturals, FiniteSets

CONSTANTS
  Users, Groups,            \* names
  Ids,                      \* the ids there are
  SysIds, NormalIds,        \* 400..999 and 1000..29999
  SubIds,                   \* starts of subordinate ranges, in steps of one range
  Nss,                      \* ids taken in databases other than /etc
  Specs,                    \* the specifications activated
  LocalUsers, LocalGroups,  \* accounts that may exist before the first run
  None,                     \* no such thing
  StopAt, ActAt,            \* where a run may stop, and an administrator act
  MaxRuns, MaxStops, MaxActs  \* bounds

UserSpec == [name : Users, uid : Ids \cup {None}, isSystemUser : BOOLEAN,
             pw : {"none", "initial", "hash"}, badExpires : BOOLEAN,
             createHome : BOOLEAN, autoSub : BOOLEAN]
GroupSpec == [name : Groups, gid : Ids \cup {None}, members : SUBSET Users]
SpecType == [mutableUsers : BOOLEAN, users : SUBSET UserSpec, groups : SUBSET GroupSpec]

ASSUME ConstantsOK ==
  /\ Ids \subseteq Nat /\ SysIds \cup NormalIds \subseteq Ids
  /\ SubIds \subseteq Nat
  /\ None \notin Ids \cup SubIds
  /\ Specs \subseteq SpecType
  /\ \A s \in Specs : /\ \A u, v \in s.users : u.name = v.name => u = v
                      /\ \A g, h \in s.groups : g.name = h.name => g = h
  /\ LocalUsers \in [Users -> Ids \cup {None}]
  /\ LocalGroups \in [Groups -> Ids \cup {None}]
  /\ \A u, v \in Users : u # v /\ LocalUsers[u] = LocalUsers[v] => LocalUsers[u] = None
  /\ {MaxRuns, MaxStops, MaxActs} \subseteq Nat

VARIABLES
  \* files
  group, members,      \* /etc/group: gid and members of each group
  passwd,              \* /etc/passwd: uid of each user
  shadow,              \* /etc/shadow: where each password comes from
  subuid,              \* /etc/subuid: automatic range of each user
  uidMap, gidMap, subMap, declUsers, declGroups,  \* the state directory
  \* a run
  pc, spec, todo,
  prevUsers, prevGroups,        \* the declarative lists as read
  groupsCur, membersCur,        \* /etc/group as read
  groupsOut, membersOut,        \* the groups of the specification
  usersCur, usersOut,           \* /etc/passwd as read; the users of the specification
  shadowOut, subsOut,
  \* history
  given,     \* the uid, gid and subordinate range each name was given last, in a file
             \* or as the owner of its home
  lastUid,   \* the uid each user had last
  initial,   \* users created with an initial password
  local,     \* <<"user" | "group", name>>: made by the administrator
  outcome,   \* how the last run ended, of which specification, where runs were cut,
             \* how often in a row the same specification was activated
  spent

files  == <<group, members, passwd, shadow, subuid>>
stored == <<uidMap, gidMap, subMap, declUsers, declGroups>>
loaded == <<spec, prevUsers, prevGroups, groupsCur, membersCur>>
result == <<groupsOut, membersOut, usersCur, usersOut, shadowOut, subsOut>>
past   == <<given, lastUid, initial, local>>
vars   == <<files, stored, pc, todo, loaded, result, past, outcome, spent>>

Nowhere(S) == [n \in S |-> None]
Named(S)   == {x.name : x \in S}
The(S, n)  == CHOOSE x \in S : x.name = n
Values(f)  == {f[n] : n \in DOMAIN f} \ {None}
Present(f) == {n \in DOMAIN f : f[n] # None}
Over(f, g) == [n \in DOMAIN f |-> IF f[n] # None THEN f[n] ELSE g[n]]
Highest(S) == {i \in S : \A j \in S : j <= i}   \* the set of it; {} if there is none
Lowest(S)  == {i \in S : \A j \in S : i <= j}

NoSpec == [mutableUsers |-> TRUE, users |-> {}, groups |-> {}]
----------------------------------------------------------------------------
(* Allocation: the old id if it is free, else a fresh one; {} if none is left. *)

GidsUsed == ({g.gid : g \in spec.groups} \ {None}) \cup Values(groupsCur)
                                                   \cup Values(groupsOut)
UidsUsed == ({u.uid : u \in spec.users} \ {None}) \cup Values(usersCur)
                                                  \cup Values(usersOut)

alloc_gid(n) ==
  LET free == SysIds \ (GidsUsed \cup Values(gidMap) \cup Nss \cup Values(group))
  IN IF gidMap[n] \notin GidsUsed \cup {None} THEN {gidMap[n]}
     ELSE Highest(free)

\* Mutant: the ids of users that are gone are free again.
alloc_uid_Forgetful(n, isSystem) ==
  LET range == IF isSystem THEN SysIds ELSE NormalIds
      free  == range \ (UidsUsed \cup Nss \cup Values(passwd))
  IN IF uidMap[n] \in range \ UidsUsed THEN {uidMap[n]}
     ELSE IF isSystem THEN Highest(free) ELSE Lowest(free)

\* Mutant: an id is revived without looking whether it is taken by now.
alloc_uid_Revive(n, isSystem) ==
  LET range == IF isSystem THEN SysIds ELSE NormalIds
      free  == range \ (UidsUsed \cup Values(uidMap) \cup Nss \cup Values(passwd))
  IN IF uidMap[n] \in range THEN {uidMap[n]}
     ELSE IF isSystem THEN Highest(free) ELSE Lowest(free)

alloc_uid(n, isSystem) ==
  LET range == IF isSystem THEN SysIds ELSE NormalIds
      free  == range \ (UidsUsed \cup Values(uidMap) \cup Nss \cup Values(passwd))
  IN IF uidMap[n] \in range \ UidsUsed THEN {uidMap[n]}
     ELSE IF isSystem THEN Highest(free) ELSE Lowest(free)

\* Mutant: ranges are not revived.
alloc_sub_uid_Fresh(n) ==
  LET free == SubIds \ (Values(subsOut) \cup Values(subMap))
  IN Lowest(free)

alloc_sub_uid(n) ==
  LET free == SubIds \ (Values(subsOut) \cup Values(subMap))
  IN IF subMap[n] \notin Values(subsOut) \cup {None} THEN {subMap[n]}
     ELSE Lowest(free)
----------------------------------------------------------------------------
(* What is written.                                                         *)

\* Existing entries outside the specification that stay.
Kept(cur, out, prev) ==
  IF spec.mutableUsers THEN Present(cur) \ (Present(out) \cup prev) ELSE {}

Merged(cur, out, prev) ==
  [n \in DOMAIN cur |-> IF n \in Kept(cur, out, prev) THEN cur[n] ELSE out[n]]

UsersMerged == Merged(usersCur, usersOut, prevUsers)

\* In mutable mode members that were not declared before stay in an existing group.
MembersOf(g) ==
  g.members \cup IF groupsCur[g.name] # None /\ spec.mutableUsers
                 THEN membersCur[g.name] \ prevUsers ELSE {}

\* Mutant: new is who is not in the file that has just been written.
PasswordLate(n) ==
  IF n \notin Named(spec.users) THEN "none"
  ELSE IF The(spec.users, n).pw = "initial" /\ passwd[n] # None THEN "none"
  ELSE The(spec.users, n).pw

\* The effective hashed password; an initial one only for a new account.
Password(n) ==
  IF n \notin Named(spec.users) THEN "none"
  ELSE IF The(spec.users, n).pw = "initial" /\ usersCur[n] # None THEN "none"
  ELSE The(spec.users, n).pw

OrLocked(p) == IF p = "none" THEN "locked" ELSE p

\* Mutant: what the specification says replaces what passwd(1) has set.
ShadowOverwrite(n) ==
  IF UsersMerged[n] = None THEN "absent"
  ELSE IF shadow[n] = "absent" \/ n \in Named(spec.users) THEN OrLocked(Password(n))
  ELSE shadow[n]

ShadowLine(n) ==
  IF UsersMerged[n] = None THEN "absent"
  ELSE IF shadow[n] # "absent" /\ spec.mutableUsers THEN shadow[n]
  ELSE OrLocked(Password(n))
----------------------------------------------------------------------------
(* A run.                                                                   *)

Unload ==
  /\ spec' = NoSpec /\ todo' = {} /\ prevUsers' = {} /\ prevGroups' = {}
  /\ groupsCur' = Nowhere(Groups) /\ membersCur' = [g \in Groups |-> {}]
  /\ groupsOut' = Nowhere(Groups) /\ membersOut' = [g \in Groups |-> {}]
  /\ usersCur' = Nowhere(Users) /\ usersOut' = Nowhere(Users)
  /\ shadowOut' = [u \in Users |-> "absent"] /\ subsOut' = Nowhere(Users)

\* A run ends early: a failing call, an error, a kill.
Abort ==
  /\ pc' = "idle" /\ Unload
  /\ outcome' = [how |-> "failed", goal |-> spec, cut |-> outcome.cut \cup {pc},
                 settled |-> 0]

Go(where) == pc' = where /\ UNCHANGED outcome

\* Load the state directory and the specification, read /etc/group.
Start(s) ==
  /\ pc = "idle" /\ spent.runs < MaxRuns
  /\ spent' = [spent EXCEPT !.runs = @ + 1]
  /\ spec' = s /\ todo' = Named(s.groups)
  /\ prevUsers' = declUsers /\ prevGroups' = declGroups
  /\ groupsCur' = group /\ membersCur' = members
  /\ Go("groups")
  /\ UNCHANGED <<files, stored, result, past>>

\* One group of the specification.
GroupStep(n) ==
  LET g    == The(spec.groups, n)
      gids == IF groupsCur[n] # None THEN {groupsCur[n]}
              ELSE IF g.gid # None THEN {g.gid} ELSE alloc_gid(n)
  IN /\ pc = "groups" /\ n \in todo
     /\ \/ /\ gids # {}
           /\ \E i \in gids : groupsOut' = [groupsOut EXCEPT ![n] = i]
           /\ membersOut' = [membersOut EXCEPT ![n] = MembersOf(g)]
           /\ todo' = todo \ {n} /\ Go("groups")
           /\ UNCHANGED <<loaded, usersCur, usersOut, shadowOut, subsOut>>
        \/ gids = {} /\ Abort
     /\ UNCHANGED <<files, stored, past, spent>>

WriteDeclGroups ==
  /\ pc = "groups" /\ todo = {}
  /\ declGroups' = Present(groupsOut) /\ Go("group")
  /\ UNCHANGED <<files, uidMap, gidMap, subMap, declUsers, todo, loaded, result, past,
                 spent>>

WriteGroup ==
  /\ pc = "group"
  /\ group' = Merged(groupsCur, groupsOut, prevGroups)
  /\ members' = [g \in Groups |->
                   IF g \in Kept(groupsCur, groupsOut, prevGroups)
                   THEN membersCur[g] ELSE membersOut[g]]
  /\ given' = [given EXCEPT !.gid = Over(groupsOut, @)]
  /\ local' = local \ {<<"group", g>> : g \in Present(groupsOut)}
  /\ Go("gid map")
  /\ UNCHANGED <<passwd, shadow, subuid, stored, todo, loaded, result, lastUid, initial,
                 spent>>

\* ... and read /etc/passwd.
WriteGidMap ==
  /\ pc = "gid map"
  /\ gidMap' = Over(groupsOut, gidMap)
  /\ usersCur' = passwd /\ todo' = Named(spec.users)
  /\ Go("users")
  /\ UNCHANGED <<files, uidMap, subMap, declUsers, declGroups, loaded, groupsOut,
                 membersOut, usersOut, shadowOut, subsOut, past, spent>>

\* One user of the specification; the home directory is created and given away here.
UserStep(n) ==
  LET u    == The(spec.users, n)
      uids == IF usersCur[n] # None THEN {usersCur[n]}
              ELSE IF u.uid # None THEN {u.uid} ELSE alloc_uid(n, u.isSystemUser)
  IN /\ pc = "users" /\ n \in todo
     /\ \/ \E i \in uids :
           /\ usersOut' = [usersOut EXCEPT ![n] = i]
           /\ given' = IF u.createHome THEN [given EXCEPT !.uid[n] = i] ELSE given
           /\ todo' = todo \ {n} /\ Go("users")
           /\ UNCHANGED <<loaded, groupsOut, membersOut, usersCur, shadowOut, subsOut,
                          lastUid, initial, local>>
        \/ uids = {} /\ Abort /\ UNCHANGED past
     /\ UNCHANGED <<files, stored, spent>>

WriteDeclUsers ==
  /\ pc = "users" /\ todo = {}
  /\ declUsers' = Present(usersOut) /\ Go("passwd")
  /\ UNCHANGED <<files, uidMap, gidMap, subMap, declGroups, todo, loaded, result, past,
                 spent>>

WritePasswd ==
  LET new == {n \in Present(usersOut) : usersCur[n] = None}
  IN /\ pc = "passwd"
     /\ passwd' = UsersMerged
     /\ given' = [given EXCEPT !.uid = Over(usersOut, @)]
     /\ lastUid' = Over(usersOut, lastUid)
     /\ initial' = IF spec.mutableUsers
                   THEN (initial \cap Present(UsersMerged))
                          \cup {n \in new : The(spec.users, n).pw = "initial"}
                   ELSE {}
     /\ local' = local \ {<<"user", n>> : n \in Present(usersOut)}
     /\ Go("uid map")
     /\ UNCHANGED <<group, members, shadow, subuid, stored, todo, loaded, result, spent>>

\* ... and read /etc/shadow; an invalid expiry date is fatal.
WriteUidMap ==
  /\ pc = "uid map"
  /\ uidMap' = Over(usersOut, uidMap)
  /\ \/ /\ \A u \in spec.users : ~u.badExpires
        /\ shadowOut' = [n \in Users |-> ShadowLine(n)]
        /\ Go("shadow")
        /\ UNCHANGED <<todo, loaded, groupsOut, membersOut, usersCur, usersOut, subsOut>>
     \/ (\E u \in spec.users : u.badExpires) /\ Abort
  /\ UNCHANGED <<files, gidMap, subMap, declUsers, declGroups, past, spent>>

WriteShadow ==
  /\ pc = "shadow"
  /\ shadow' = shadowOut
  /\ todo' = {u.name : u \in {v \in spec.users : v.autoSub}}
  /\ Go("subs")
  /\ UNCHANGED <<group, members, passwd, subuid, stored, loaded, result, past, spent>>

SubStep(n) ==
  /\ pc = "subs" /\ n \in todo
  /\ \/ /\ alloc_sub_uid(n) # {}
        /\ \E i \in alloc_sub_uid(n) : subsOut' = [subsOut EXCEPT ![n] = i]
        /\ todo' = todo \ {n} /\ Go("subs")
        /\ UNCHANGED <<loaded, groupsOut, membersOut, usersCur, usersOut, shadowOut>>
     \/ alloc_sub_uid(n) = {} /\ Abort
  /\ UNCHANGED <<files, stored, past, spent>>

WriteSubuid ==
  /\ pc = "subs" /\ todo = {}
  /\ subuid' = subsOut
  /\ given' = [given EXCEPT !.sub = Over(subsOut, @)]
  /\ Go("sub map")
  /\ UNCHANGED <<group, members, passwd, shadow, stored, todo, loaded, result, lastUid,
                 initial, local, spent>>

WriteSubMap ==
  /\ pc = "sub map"
  /\ subMap' = Over(subsOut, subMap)
  /\ pc' = "idle" /\ Unload
  /\ outcome' = [outcome EXCEPT !.how = "ok", !.goal = spec,
                   !.settled = IF outcome.goal = spec /\ @ > 0 THEN 2 ELSE 1]
  /\ UNCHANGED <<files, uidMap, gidMap, declUsers, declGroups, past, spent>>
----------------------------------------------------------------------------
(* The environment.                                                         *)

\* The run is killed, or the next call fails.
Stop == /\ pc \in StopAt \ {"idle"} /\ spent.stops < MaxStops
        /\ spent' = [spent EXCEPT !.stops = @ + 1]
        /\ Abort /\ UNCHANGED <<files, stored, past>>

\* An administrator works on the accounts.
Admin == /\ pc \in ActAt /\ spent.acts < MaxActs
         /\ spent' = [spent EXCEPT !.acts = @ + 1]
         /\ outcome' = [outcome EXCEPT !.settled = 0]
         /\ UNCHANGED <<stored, pc, todo, loaded, result, given, lastUid>>

useradd(n, i) ==
  /\ Admin /\ passwd[n] = None /\ i \notin Values(passwd) \cup Nss
  /\ passwd' = [passwd EXCEPT ![n] = i] /\ shadow' = [shadow EXCEPT ![n] = "own"]
  /\ local' = local \cup {<<"user", n>>}
  /\ UNCHANGED <<group, members, subuid, initial>>
userdel(n) ==
  /\ Admin /\ passwd[n] # None
  /\ passwd' = [passwd EXCEPT ![n] = None] /\ shadow' = [shadow EXCEPT ![n] = "absent"]
  /\ members' = [g \in Groups |-> members[g] \ {n}]
  /\ local' = local \ {<<"user", n>>} /\ initial' = initial \ {n}
  /\ UNCHANGED <<group, subuid>>
passwd1(n) ==
  /\ Admin /\ passwd[n] # None /\ shadow[n] # "absent"
  /\ shadow' = [shadow EXCEPT ![n] = "own"]
  /\ UNCHANGED <<group, members, passwd, subuid, initial, local>>
groupadd(g, i) ==
  /\ Admin /\ group[g] = None /\ i \notin Values(group) \cup Nss
  /\ group' = [group EXCEPT ![g] = i] /\ local' = local \cup {<<"group", g>>}
  /\ UNCHANGED <<members, passwd, shadow, subuid, initial>>
gpasswd(g, n) ==
  /\ Admin /\ group[g] # None /\ passwd[n] # None
  /\ members' = [members EXCEPT ![g] = @ \cup {n}]
  /\ UNCHANGED <<group, passwd, shadow, subuid, initial, local>>

Init ==
  /\ passwd \in {Nowhere(Users), LocalUsers}
  /\ group \in {Nowhere(Groups), LocalGroups}
  /\ members = [g \in Groups |-> IF group[g] = None THEN {} ELSE Present(passwd)]
  /\ shadow = [u \in Users |-> IF passwd[u] = None THEN "absent" ELSE "own"]
  /\ local = {<<"user", u>> : u \in Present(passwd)}
               \cup {<<"group", g>> : g \in Present(group)}
  /\ subuid = Nowhere(Users)
  /\ uidMap = Nowhere(Users) /\ gidMap = Nowhere(Groups) /\ subMap = Nowhere(Users)
  /\ declUsers = {} /\ declGroups = {}
  /\ pc = "idle" /\ spec = NoSpec /\ todo = {} /\ prevUsers = {} /\ prevGroups = {}
  /\ groupsCur = Nowhere(Groups) /\ membersCur = [g \in Groups |-> {}]
  /\ groupsOut = Nowhere(Groups) /\ membersOut = [g \in Groups |-> {}]
  /\ usersCur = Nowhere(Users) /\ usersOut = Nowhere(Users)
  /\ shadowOut = [u \in Users |-> "absent"] /\ subsOut = Nowhere(Users)
  /\ given = [uid |-> Nowhere(Users), gid |-> Nowhere(Groups), sub |-> Nowhere(Users)]
  /\ lastUid = Nowhere(Users) /\ initial = {}
  /\ outcome = [how |-> "none", goal |-> NoSpec, cut |-> {}, settled |-> 0]
  /\ spent = [runs |-> 0, stops |-> 0, acts |-> 0]

Step == \/ \E g \in todo \cap Groups : GroupStep(g)
        \/ \E u \in todo \cap Users : UserStep(u) \/ SubStep(u)
        \/ WriteDeclGroups \/ WriteGroup \/ WriteGidMap
        \/ WriteDeclUsers \/ WritePasswd \/ WriteUidMap
        \/ WriteShadow \/ WriteSubuid \/ WriteSubMap
Environment ==
  \/ Stop
  \/ \E u \in Users : \/ \E i \in NormalIds : useradd(u, i)
                      \/ userdel(u) \/ passwd1(u)
                      \/ \E g \in Groups : gpasswd(g, u)
  \/ \E g \in Groups : \E i \in SysIds : groupadd(g, i)
Next == (\E s \in Specs : Start(s)) \/ Step \/ Environment

Spec == Init /\ [][Next]_vars
----------------------------------------------------------------------------
(* Properties.                                                              *)

FilesType ==
  /\ group \in [Groups -> Ids \cup {None}] /\ members \in [Groups -> SUBSET Users]
  /\ passwd \in [Users -> Ids \cup {None}] /\ subuid \in [Users -> SubIds \cup {None}]
  /\ shadow \in [Users -> {"absent", "locked", "own", "initial", "hash"}]
StoredType ==
  /\ uidMap \in [Users -> Ids \cup {None}] /\ gidMap \in [Groups -> Ids \cup {None}]
  /\ subMap \in [Users -> SubIds \cup {None}]
  /\ declUsers \subseteq Users /\ declGroups \subseteq Groups
Places == {"idle", "groups", "group", "gid map", "users", "passwd", "uid map", "shadow",
           "subs", "sub map"}
RunType ==
  /\ pc \in Places
  /\ spec \in Specs \cup {NoSpec}
  /\ todo \subseteq IF pc = "groups" THEN Named(spec.groups) ELSE Named(spec.users)
  /\ prevUsers \subseteq Users /\ prevGroups \subseteq Groups
  /\ groupsCur \in [Groups -> Ids \cup {None}] /\ membersCur \in [Groups -> SUBSET Users]
  /\ groupsOut \in [Groups -> Ids \cup {None}] /\ membersOut \in [Groups -> SUBSET Users]
  /\ usersCur \in [Users -> Ids \cup {None}] /\ usersOut \in [Users -> Ids \cup {None}]
  /\ shadowOut \in [Users -> {"absent", "locked", "own", "initial", "hash"}]
  /\ subsOut \in [Users -> SubIds \cup {None}]
HistoryType ==
  /\ given \in [uid : [Users -> Ids \cup {None}], gid : [Groups -> Ids \cup {None}],
                sub : [Users -> SubIds \cup {None}]]
  /\ lastUid \in [Users -> Ids \cup {None}] /\ initial \subseteq Users
  /\ outcome \in [how : {"none", "ok", "failed"}, goal : Specs \cup {NoSpec},
                  cut : SUBSET Places, settled : 0 .. 2]
  /\ spent \in [runs : Nat, stops : Nat, acts : Nat]
TypeOK == FilesType /\ StoredType /\ RunType /\ HistoryType

Uncut(points) == outcome.cut \cap points = {}
Allocates(n)  == usersCur[n] = None /\ The(spec.users, n).uid = None

NewTo(owned, i, n) == owned[n] = i \/ i \notin Values(owned)
GidNotReused(g) ==
  groupsOut'[g] # groupsOut[g] /\ groupsCur[g] = None /\ The(spec.groups, g).gid = None
    => NewTo(given.gid, groupsOut'[g], g)
UidNotReused(n) ==
  usersOut'[n] # usersOut[n] /\ Allocates(n) => NewTo(given.uid, usersOut'[n], n)
SubNotReused(n) == subsOut'[n] # subsOut[n] => NewTo(given.sub, subsOut'[n], n)

\* The allocator never gives a name an id that is another's: the last that one was given,
\* in a file or as owner of its home, however long it is gone (alloc_uid; README:
\* "should not cause allocator drift or silently reuse an ID that the system
\* already knows about"), when no run was cut between giving an id away and storing it
\* in the map.  An id before the last is in no map.
IdsNotReused ==
  /\ pc = "groups" /\ pc' # "idle" /\ Uncut({"gid map"})
       => \A g \in Groups : GidNotReused(g)
  /\ pc = "users" /\ pc' # "idle" /\ Uncut({"users", "passwd", "uid map"})
       => \A n \in Users : UidNotReused(n)
  /\ pc = "subs" /\ pc' # "idle" /\ Uncut({"sub map"})
       => \A n \in Users : SubNotReused(n)

\* Two accounts share an id only when a specification gave one of them the id it asked
\* for; automatic subordinate ranges are never shared (alloc_uid, alloc_sub_uid).
Asked(n) == \E s \in Specs : \E u \in s.users : u.name = n /\ u.uid = passwd[n]
IdsUnique ==
  /\ \A a, b \in Present(passwd) : passwd[a] = passwd[b] /\ a # b => Asked(a) \/ Asked(b)
  /\ \A a, b \in Present(subuid) : subuid[a] = subuid[b] => a = b

\* A user who is declared again gets the uid it had, unless somebody else has it now, or
\* had it too (README: "automatically allocated IDs remain stable across activations").
IdsStable ==
  pc = "passwd" /\ pc' = "uid map" /\ Uncut({"uid map"}) =>
    \A n \in Present(usersOut) :
      LET range == IF The(spec.users, n).isSystemUser THEN SysIds ELSE NormalIds
          had   == lastUid[n]
      IN Allocates(n) /\ had \in range =>
           \/ usersOut[n] = had
           \/ \E m \in Users \ {n} : \/ usersCur[m] = had
                                     \/ usersOut[m] = had /\ lastUid[m] = had
           \/ \E u \in spec.users : u.uid = had

\* An id belongs to a name for good: it passes to no other, and returns to its own.
IdsKept == [][IdsNotReused /\ IdsStable]_vars

\* An account created with an initial password never ends up locked, unless mutable mode
\* was off meanwhile (comment in run: "This value is carried forward to shadow writing;
\* it must not be lost") or a run was cut between passwd and shadow.
InitialPassword ==
  outcome.how = "ok" /\ outcome.goal.mutableUsers /\ Uncut({"uid map", "shadow"}) =>
    \A n \in initial : shadow[n] # "locked"

\* In mutable mode a password set by passwd(1) survives every activation (comment in
\* run: "passwords the user set with passwd(1) survive activation").
PasswordsSurvive ==
  [][pc # "idle" /\ spec.mutableUsers /\ spent'.acts = spent.acts =>
       \A n \in Users : shadow[n] = "own" /\ passwd[n] # None => shadow'[n] = "own"]_vars

\* After an activation there are the accounts of the specification and, in mutable mode,
\* those the administrator has made and nobody has declared since; none of an earlier
\* specification is left (run; unless it was cut between the list and the file).
Rightful(kind, names, f) ==
  \A n \in Present(f) : n \in names \/ (outcome.goal.mutableUsers /\ <<kind, n>> \in local)
NoLeftovers ==
  outcome.how = "ok" /\ outcome.settled > 0 /\ pc = "idle" =>
    /\ Uncut({"passwd"}) => Rightful("user", Named(outcome.goal.users), passwd)
    /\ Uncut({"group"}) => Rightful("group", Named(outcome.goal.groups), group)

\* The accounts after an activation are the ones it was to make, and can be used.
AccountsRight == InitialPassword /\ NoLeftovers

\* Activating the same specification a third time changes no file: memberships and
\* passwords that depend on what was declared before have settled after the second.
Settles ==
  [][outcome.settled = 2 /\ pc # "idle" /\ spec = outcome.goal
       /\ spent'.acts = spent.acts => UNCHANGED files]_vars
=============================================================================
