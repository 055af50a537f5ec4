-------------------------- MODULE UsersGroupsProofs --------------------------
(***************************************************************************)
(* Ids are not shared, reused or lost, passwords survive, and the accounts   *)
(* are the right ones, for every set of names, ids and specifications, any   *)
(* number of activations, of runs that are cut and of acts of an             *)
(* administrator.  The dates at which they expire are exact, on every day.   *)
(***************************************************************************)
EXTENDS UsersGroups, Calendar, TLAPS

Early   == {"idle", "groups", "group", "gid map"}
Written == {"passwd", "uid map", "shadow", "subs", "sub map"}

\* What a run has come to: whom it has handled so far.
ProgressInv ==
  /\ pc # "idle" => spec \in Specs
  /\ pc = "idle" => groupsOut = Nowhere(Groups)
  /\ pc = "groups" => Present(groupsOut) = Named(spec.groups) \ todo
  /\ pc \notin {"idle", "groups"} => Present(groupsOut) = Named(spec.groups)
  /\ pc \in Early => usersOut = Nowhere(Users)
  /\ pc = "users" => Present(usersOut) = Named(spec.users) \ todo
  /\ pc \in Written => Present(usersOut) = Named(spec.users)
  /\ pc \notin {"subs", "sub map"} => subsOut = Nowhere(Users)
  /\ pc = "subs" => Present(subsOut) \cap todo = {}

\* Some specification asks for this id for this user.
Wish(n, i) == \E s \in Specs : \E u \in s.users : u.name = n /\ u.uid = i

\* Only an id that was asked for is that of two users.
Apart(f) == \A a, b \in Users : a # b /\ f[a] = f[b] /\ f[a] # None
                                  => Wish(a, f[a]) \/ Wish(b, f[b])

\* An id comes from the file, from a specification, or was in neither.
UniqueInv ==
  /\ Apart(passwd) /\ Apart(usersCur) /\ Apart(usersOut)
  /\ \A n \in Present(usersOut) : \/ usersOut[n] = usersCur[n]
                                  \/ Wish(n, usersOut[n])
                                  \/ usersOut[n] \notin Values(usersCur)
  /\ \A a, b \in Present(subsOut) : subsOut[a] = subsOut[b] => a = b
  /\ \A a, b \in Present(subuid) : subuid[a] = subuid[b] => a = b

\* The maps hold what was given, but for what this run has given and not stored yet.
MapInv ==
  /\ Uncut({"gid map"}) =>
       given.gid = IF pc = "gid map" THEN Over(groupsOut, gidMap) ELSE gidMap
  /\ Uncut({"sub map"}) =>
       given.sub = IF pc = "sub map" THEN Over(subsOut, subMap) ELSE subMap
  /\ Uncut({"users", "passwd", "uid map"}) =>
       /\ pc \in {"users", "passwd"} =>
            \A n \in Users : \/ given.uid[n] = uidMap[n]
                             \/ given.uid[n] = usersOut[n] /\ usersOut[n] # None
       /\ pc = "uid map" => given.uid = Over(usersOut, uidMap)
       /\ pc \notin {"users", "passwd", "uid map"} => given.uid = uidMap
  /\ Uncut({"uid map"}) =>
       lastUid = IF pc = "uid map" THEN Over(usersOut, uidMap) ELSE uidMap

\* Where an id comes from: the file, the specification, the map, or it is in no map.
RangeOf(n) == IF The(spec.users, n).isSystemUser THEN SysIds ELSE NormalIds
Taken(n, i) == \/ \E m \in Users \ {n} : \/ usersCur[m] = i
                                         \/ usersOut[m] = i /\ uidMap[m] = i
               \/ \E u \in spec.users : u.uid = i
StableInv ==
  pc \in {"users", "passwd"} =>
    \A n \in Present(usersOut) :
      /\ \/ usersOut[n] \in {usersCur[n], uidMap[n]}
         \/ \E u \in spec.users : u.uid = usersOut[n]
         \/ usersOut[n] \notin Values(uidMap)
      /\ Allocates(n) /\ uidMap[n] \in RangeOf(n) =>
           usersOut[n] = uidMap[n] \/ Taken(n, uidMap[n])

Window == {"uid map", "shadow"}
QuietRuns == ActAt \subseteq {"idle"}

\* Between passwd and shadow the lines of shadow are those of the users in passwd.
PasswordInv ==
  /\ pc \in {"users", "passwd"} => usersCur = passwd
  /\ pc \in Window => passwd = UsersMerged
  /\ pc = "shadow" => shadowOut = [n \in Users |-> ShadowLine(n)]

\* An account with an initial password has a line, or is new and gets one.
InitialInv ==
  Uncut(Window) =>
    /\ \A n \in Users : passwd[n] = None /\ pc \notin Window => shadow[n] = "absent"
    /\ \A n \in initial :
         /\ passwd[n] # None /\ shadow[n] # "locked"
         /\ pc \notin Window => shadow[n] # "absent"
         /\ pc \in Window => /\ spec.mutableUsers
                             /\ shadow[n] = "absent" => Password(n) = "initial"
    /\ pc \in Window => \A n \in Users : usersCur[n] = None => shadow[n] = "absent"

\* Whoever is in a file was declared or is of the administrator.
Known(kind, f, decl) == \A n \in Present(f) : n \in decl \/ <<kind, n>> \in local
Right(kind, f, names) ==
  \A n \in Present(f) : n \in names \/ (spec.mutableUsers /\ <<kind, n>> \in local)
AccountsInv ==
  /\ pc \in {"groups", "group", "gid map", "users"} => prevUsers = declUsers
  /\ pc = "groups" => prevGroups = declGroups
  /\ pc \in {"groups", "group"} => groupsCur = group
  /\ pc = "group" => declGroups = Named(spec.groups)
  /\ pc \in Written => declUsers = Named(spec.users)
  /\ Uncut({"passwd"}) =>
       /\ Known("user", passwd, IF pc = "passwd" THEN prevUsers ELSE declUsers)
       /\ pc \in Written \ {"passwd"} => Right("user", passwd, Named(spec.users))
  /\ Uncut({"group"}) =>
       /\ Known("group", group, IF pc = "group" THEN prevGroups ELSE declGroups)
       /\ pc \notin {"idle", "groups", "group"} => Right("group", group, Named(spec.groups))
----------------------------------------------------------------------------
\* A specification has the type of one, and its entry of a name is one of that name.
LEMMA SpecTyped ==
  ASSUME TypeOK
  PROVE  /\ spec \in SpecType
         /\ \A n \in Named(spec.users) : The(spec.users, n) \in spec.users /\ The(spec.users, n).name = n
         /\ \A n \in Named(spec.groups) : The(spec.groups, n) \in spec.groups /\ The(spec.groups, n).name = n
<1>1. NoSpec \in SpecType
  BY DEF NoSpec, SpecType
<1>2. ASSUME NEW S, NEW n \in Named(S)
      PROVE  The(S, n) \in S /\ The(S, n).name = n
  BY DEF Named, The
<1> QED BY <1>1, <1>2, ConstantsOK DEF TypeOK, RunType

\* What an allocator returns is an id.
LEMMA Allocated ==
  ASSUME TypeOK
  PROVE  /\ \A n \in Groups : alloc_gid(n) \subseteq Ids
         /\ \A n \in Users : \A b \in BOOLEAN : alloc_uid(n, b) \subseteq Ids
         /\ \A n \in Users : alloc_sub_uid(n) \subseteq SubIds
<1> USE ConstantsOK
<1>1. ASSUME NEW n \in Groups PROVE alloc_gid(n) \subseteq Ids
  BY DEF alloc_gid, Highest, TypeOK, StoredType
<1>2. ASSUME NEW n \in Users, NEW b \in BOOLEAN PROVE alloc_uid(n, b) \subseteq Ids
  BY DEF alloc_uid, Highest, Lowest, TypeOK, StoredType
<1>3. ASSUME NEW n \in Users PROVE alloc_sub_uid(n) \subseteq SubIds
  BY DEF alloc_sub_uid, Lowest, TypeOK, StoredType
<1> QED BY <1>1, <1>2, <1>3
----------------------------------------------------------------------------
\* One round of a loop gives one name of the specification one id: that of the file, that
\* of the specification, or a free one.
LEMMA GroupChoice ==
  ASSUME TypeOK, NEW n \in Groups, GroupStep(n), ~Abort
  PROVE  /\ pc = "groups" /\ pc' = "groups" /\ n \in todo /\ todo' = todo \ {n} /\ n \in Named(spec.groups)
         /\ \E i \in Ids : groupsOut' = [groupsOut EXCEPT ![n] = i]
                           /\ \/ i = groupsCur[n]
                              \/ groupsCur[n] = None /\ i = The(spec.groups, n).gid
                              \/ i \in alloc_gid(n)
         /\ membersOut' = [membersOut EXCEPT ![n] = MembersOf(The(spec.groups, n))]
         /\ UNCHANGED <<files, stored, past, spent, loaded, usersCur, usersOut, shadowOut, subsOut, outcome>>
<1>1. /\ pc = "groups" /\ pc' = "groups" /\ n \in todo /\ todo' = todo \ {n}
      /\ membersOut' = [membersOut EXCEPT ![n] = MembersOf(The(spec.groups, n))]
      /\ UNCHANGED <<files, stored, past, spent, loaded, usersCur, usersOut, shadowOut, subsOut, outcome>>
  BY DEF GroupStep, Go
<1>2. n \in Named(spec.groups)
  BY <1>1 DEF TypeOK, RunType
<1>3. The(spec.groups, n) \in GroupSpec
  BY <1>2, SpecTyped DEF SpecType
<1>4. \E i \in Ids : groupsOut' = [groupsOut EXCEPT ![n] = i]
                     /\ \/ i = groupsCur[n]
                        \/ groupsCur[n] = None /\ i = The(spec.groups, n).gid
                        \/ i \in alloc_gid(n)
  BY <1>3, Allocated DEF GroupStep, GroupSpec, TypeOK, RunType
<1> QED BY <1>1, <1>2, <1>4

LEMMA UserChoice ==
  ASSUME TypeOK, NEW n \in Users, UserStep(n), ~Abort
  PROVE  /\ pc = "users" /\ pc' = "users" /\ n \in todo /\ todo' = todo \ {n} /\ n \in Named(spec.users)
         /\ \E i \in Ids : /\ usersOut' = [usersOut EXCEPT ![n] = i]
                           /\ given' \in {given, [given EXCEPT !.uid[n] = i]}
                           /\ \/ i = usersCur[n]
                              \/ usersCur[n] = None /\ i = The(spec.users, n).uid
                              \/ Allocates(n) /\ i \in alloc_uid(n, The(spec.users, n).isSystemUser)
         /\ UNCHANGED <<files, stored, lastUid, initial, local, spent, loaded, groupsOut, membersOut, usersCur,
                        shadowOut, subsOut, outcome>>
<1>1. /\ pc = "users" /\ pc' = "users" /\ n \in todo /\ todo' = todo \ {n}
      /\ UNCHANGED <<files, stored, lastUid, initial, local, spent, loaded, groupsOut, membersOut, usersCur,
                     shadowOut, subsOut, outcome>>
  BY DEF UserStep, Go
<1>2. n \in Named(spec.users)
  BY <1>1 DEF TypeOK, RunType
<1>3. The(spec.users, n) \in UserSpec
  BY <1>2, SpecTyped DEF SpecType
<1>4. \E i \in Ids : /\ usersOut' = [usersOut EXCEPT ![n] = i]
                     /\ given' \in {given, [given EXCEPT !.uid[n] = i]}
                     /\ \/ i = usersCur[n]
                        \/ usersCur[n] = None /\ i = The(spec.users, n).uid
                        \/ Allocates(n) /\ i \in alloc_uid(n, The(spec.users, n).isSystemUser)
  BY <1>3, Allocated DEF UserStep, UserSpec, TypeOK, RunType, Allocates
<1> QED BY <1>1, <1>2, <1>4

LEMMA SubChoice ==
  ASSUME TypeOK, NEW n \in Users, SubStep(n), ~Abort
  PROVE  /\ pc = "subs" /\ pc' = "subs" /\ n \in todo /\ todo' = todo \ {n}
         /\ \E i \in SubIds : i \in alloc_sub_uid(n) /\ subsOut' = [subsOut EXCEPT ![n] = i]
         /\ UNCHANGED <<files, stored, past, spent, loaded, groupsOut, membersOut, usersCur, usersOut, shadowOut,
                        outcome>>
BY Allocated DEF SubStep, Go

\* Every step keeps the types.
LEMMA StepTyped == TypeOK /\ [Next]_vars => TypeOK'
\* A run that ends has forgotten what it read.
<1>u. pc' = "idle" /\ Unload => RunType'
  BY DEF Unload, RunType, Nowhere, NoSpec, Named, Places
<1> SUFFICES ASSUME TypeOK, [Next]_vars PROVE TypeOK'
  OBVIOUS
<1> USE ConstantsOK
<1>a. spec \in SpecType
  BY SpecTyped
<1>b. Abort => RunType' /\ outcome' \in [how : {"none", "ok", "failed"}, goal : Specs \cup {NoSpec},
                                         cut : SUBSET Places, settled : 0 .. 2]
  <2>1. outcome.cut \subseteq Places /\ pc \in Places /\ spec \in Specs \cup {NoSpec}
    BY DEF TypeOK, RunType, HistoryType
  <2>2. Abort => outcome' \in [how : {"none", "ok", "failed"}, goal : Specs \cup {NoSpec},
                              cut : SUBSET Places, settled : 0 .. 2]
    BY <2>1 DEF Abort
  <2> QED BY <2>2, <1>u DEF Abort
<1>1. ASSUME NEW s \in Specs, Start(s) PROVE TypeOK'
  <2>1. FilesType' /\ StoredType'
    BY <1>1 DEF Start, files, stored, TypeOK, FilesType, StoredType
  <2>2. RunType'
    BY <1>1 DEF Start, Go, result, TypeOK, FilesType, StoredType, RunType, Places
  <2>3. HistoryType'
    BY <1>1 DEF Start, Go, past, TypeOK, HistoryType
  <2> QED BY <2>1, <2>2, <2>3 DEF TypeOK
<1>2. ASSUME NEW n \in todo \cap Groups, GroupStep(n) PROVE TypeOK'
  <2>1. CASE Abort
    BY <1>2, <1>b, <2>1 DEF GroupStep, files, stored, past, TypeOK, FilesType, StoredType, HistoryType
  <2>2. CASE ~Abort
    <3>1. MembersOf(The(spec.groups, n)) \subseteq Users
      <4>1. The(spec.groups, n) \in GroupSpec
        BY <1>a, <1>2, <2>2, GroupChoice, SpecTyped DEF SpecType
      <4> QED BY <4>1 DEF MembersOf, GroupSpec, TypeOK, RunType
    <3>2. RunType'
      <4>1. PICK i \in Ids : groupsOut' = [groupsOut EXCEPT ![n] = i]
        BY <1>2, <2>2, GroupChoice
      <4>2. /\ pc = "groups" /\ pc' = "groups" /\ todo' = todo \ {n}
            /\ membersOut' = [membersOut EXCEPT ![n] = MembersOf(The(spec.groups, n))]
            /\ UNCHANGED <<loaded, usersCur, usersOut, shadowOut, subsOut>>
        BY <1>2, <2>2, GroupChoice
      <4> QED BY <3>1, <4>1, <4>2 DEF loaded, TypeOK, RunType, Places
    <3> QED BY <1>2, <2>2, <3>2, GroupChoice DEF files, stored, past, TypeOK, FilesType, StoredType, HistoryType
  <2> QED BY <2>1, <2>2
<1>3. ASSUME NEW n \in todo \cap Users, UserStep(n) PROVE TypeOK'
  <2>1. CASE Abort
    <3>1. UNCHANGED <<files, stored, spent>> /\ UNCHANGED past
      BY <1>3, <2>1 DEF UserStep, Abort, Go
    <3> QED BY <1>b, <2>1, <3>1 DEF files, stored, past, TypeOK, FilesType, StoredType, HistoryType
  <2>2. CASE ~Abort
    <3>1. RunType'
      <4>1. PICK i \in Ids : usersOut' = [usersOut EXCEPT ![n] = i]
        BY <1>3, <2>2, UserChoice
      <4>2. /\ pc = "users" /\ pc' = "users" /\ todo' = todo \ {n}
            /\ UNCHANGED <<loaded, groupsOut, membersOut, usersCur, shadowOut, subsOut>>
        BY <1>3, <2>2, UserChoice
      <4> QED BY <4>1, <4>2 DEF loaded, TypeOK, RunType, Places
    <3>2. given' \in [uid : [Users -> Ids \cup {None}], gid : [Groups -> Ids \cup {None}],
                      sub : [Users -> SubIds \cup {None}]]
      BY <1>3, <2>2, UserChoice DEF TypeOK, HistoryType
    <3> QED BY <1>3, <2>2, <3>1, <3>2, UserChoice DEF files, stored, TypeOK, FilesType, StoredType, HistoryType
  <2> QED BY <2>1, <2>2
<1>4. ASSUME NEW n \in todo \cap Users, SubStep(n) PROVE TypeOK'
  <2>1. CASE Abort
    BY <1>4, <1>b, <2>1 DEF SubStep, files, stored, past, TypeOK, FilesType, StoredType, HistoryType
  <2>2. CASE ~Abort
    <3>1. RunType'
      <4>1. PICK i \in SubIds : subsOut' = [subsOut EXCEPT ![n] = i]
        BY <1>4, <2>2, SubChoice
      <4>2. /\ pc = "subs" /\ pc' = "subs" /\ todo' = todo \ {n}
            /\ UNCHANGED <<loaded, groupsOut, membersOut, usersCur, usersOut, shadowOut>>
        BY <1>4, <2>2, SubChoice
      <4> QED BY <4>1, <4>2 DEF loaded, TypeOK, RunType, Places
    <3> QED BY <1>4, <2>2, <3>1, SubChoice DEF files, stored, past, TypeOK, FilesType, StoredType, HistoryType
  <2> QED BY <2>1, <2>2
<1>5. CASE WriteDeclGroups
  <2>a. FilesType' /\ StoredType'
    BY <1>5 DEF WriteDeclGroups, files, stored, Present, TypeOK, FilesType, StoredType, RunType
  <2>b. RunType'
    BY <1>5 DEF WriteDeclGroups, Go, loaded, result, TypeOK, FilesType, RunType, Places
  <2>c. HistoryType'
    BY <1>5 DEF WriteDeclGroups, Go, past, TypeOK, HistoryType
  <2> QED BY <2>a, <2>b, <2>c DEF TypeOK
<1>6. CASE WriteGroup
  <2>1. group' \in [Groups -> Ids \cup {None}] /\ members' \in [Groups -> SUBSET Users]
    BY <1>6 DEF WriteGroup, Merged, Kept, TypeOK, RunType
  <2>2. given' \in [uid : [Users -> Ids \cup {None}], gid : [Groups -> Ids \cup {None}],
                    sub : [Users -> SubIds \cup {None}]]
    BY <1>6 DEF WriteGroup, Over, TypeOK, RunType, HistoryType
  <2>a. FilesType' /\ StoredType'
    BY <1>6, <2>1, <2>2 DEF WriteGroup, files, stored, Present, TypeOK, FilesType, StoredType, RunType
  <2>b. RunType'
    BY <1>6, <2>1, <2>2 DEF WriteGroup, Go, loaded, result, TypeOK, FilesType, RunType, Places
  <2>c. HistoryType'
    BY <1>6, <2>1, <2>2 DEF WriteGroup, Go, past, TypeOK, HistoryType
  <2> QED BY <2>a, <2>b, <2>c DEF TypeOK
<1>7. CASE WriteGidMap
  <2>1. gidMap' \in [Groups -> Ids \cup {None}]
    BY <1>7 DEF WriteGidMap, Over, TypeOK, StoredType, RunType
  <2>a. FilesType' /\ StoredType'
    BY <1>7, <2>1 DEF WriteGidMap, files, stored, Present, TypeOK, FilesType, StoredType, RunType
  <2>b. RunType'
    BY <1>7, <2>1 DEF WriteGidMap, Go, loaded, result, TypeOK, FilesType, RunType, Places
  <2>c. HistoryType'
    BY <1>7, <2>1 DEF WriteGidMap, Go, past, TypeOK, HistoryType
  <2> QED BY <2>a, <2>b, <2>c DEF TypeOK
<1>8. CASE WriteDeclUsers
  <2>a. FilesType' /\ StoredType'
    BY <1>8 DEF WriteDeclUsers, files, stored, Present, TypeOK, FilesType, StoredType, RunType
  <2>b. RunType'
    BY <1>8 DEF WriteDeclUsers, Go, loaded, result, TypeOK, FilesType, RunType, Places
  <2>c. HistoryType'
    BY <1>8 DEF WriteDeclUsers, Go, past, TypeOK, HistoryType
  <2> QED BY <2>a, <2>b, <2>c DEF TypeOK
<1>9. CASE WritePasswd
  <2>1. passwd' \in [Users -> Ids \cup {None}] /\ lastUid' \in [Users -> Ids \cup {None}]
    BY <1>9 DEF WritePasswd, UsersMerged, Merged, Over, TypeOK, RunType, HistoryType
  <2>2. given' \in [uid : [Users -> Ids \cup {None}], gid : [Groups -> Ids \cup {None}],
                    sub : [Users -> SubIds \cup {None}]]
    BY <1>9 DEF WritePasswd, Over, TypeOK, RunType, HistoryType
  <2>3. initial' \subseteq Users
    BY <1>9 DEF WritePasswd, Present, TypeOK, RunType, HistoryType
  <2>a. FilesType' /\ StoredType'
    BY <1>9, <2>1, <2>2, <2>3 DEF WritePasswd, files, stored, Present, TypeOK, FilesType, StoredType, RunType
  <2>b. RunType'
    BY <1>9, <2>1, <2>2, <2>3 DEF WritePasswd, Go, loaded, result, TypeOK, FilesType, RunType, Places
  <2>c. HistoryType'
    BY <1>9, <2>1, <2>2, <2>3 DEF WritePasswd, Go, past, TypeOK, HistoryType
  <2> QED BY <2>a, <2>b, <2>c DEF TypeOK
<1>10. CASE WriteUidMap
  <2>1. uidMap' \in [Users -> Ids \cup {None}]
    BY <1>10 DEF WriteUidMap, Over, TypeOK, StoredType, RunType
  <2>2. CASE Abort
    BY <1>10, <1>b, <2>1, <2>2 DEF WriteUidMap, files, past, TypeOK, FilesType, StoredType, HistoryType
  <2>3. CASE ~Abort
    <3>1. ASSUME NEW n \in Users PROVE ShadowLine(n) \in {"absent", "locked", "own", "initial", "hash"}
      <4>1. Password(n) \in {"none", "initial", "hash"}
        BY <1>a, SpecTyped DEF Password, SpecType, UserSpec
      <4> QED BY <4>1 DEF ShadowLine, OrLocked, TypeOK, FilesType
    <3>a. FilesType' /\ StoredType'
      BY <1>10, <2>1, <2>3, <3>1 DEF WriteUidMap, files, stored, Present, TypeOK, FilesType, StoredType, RunType
    <3>b. RunType'
      <4>1. /\ shadowOut' = [n \in Users |-> ShadowLine(n)] /\ pc = "uid map" /\ pc' = "shadow"
            /\ UNCHANGED <<todo, loaded, groupsOut, membersOut, usersCur, usersOut, subsOut>>
        BY <1>10, <2>3 DEF WriteUidMap, Go
      <4> QED BY <3>1, <4>1 DEF loaded, TypeOK, RunType, Places
    <3>c. HistoryType'
      BY <1>10, <2>1, <2>3, <3>1 DEF WriteUidMap, Go, past, TypeOK, HistoryType
    <3> QED BY <3>a, <3>b, <3>c DEF TypeOK
  <2> QED BY <2>2, <2>3
<1>11. CASE WriteShadow
  <2>1. todo' \subseteq Named(spec.users)
    BY <1>11 DEF WriteShadow, Named
  <2>a. FilesType' /\ StoredType'
    BY <1>11, <2>1 DEF WriteShadow, files, stored, Present, TypeOK, FilesType, StoredType, RunType
  <2>b. RunType'
    BY <1>11, <2>1 DEF WriteShadow, Go, loaded, result, TypeOK, FilesType, RunType, Places
  <2>c. HistoryType'
    BY <1>11, <2>1 DEF WriteShadow, Go, past, TypeOK, HistoryType
  <2> QED BY <2>a, <2>b, <2>c DEF TypeOK
<1>12. CASE WriteSubuid
  <2>1. given' \in [uid : [Users -> Ids \cup {None}], gid : [Groups -> Ids \cup {None}],
                    sub : [Users -> SubIds \cup {None}]]
    BY <1>12 DEF WriteSubuid, Over, TypeOK, RunType, HistoryType
  <2>a. FilesType' /\ StoredType'
    BY <1>12, <2>1 DEF WriteSubuid, files, stored, Present, TypeOK, FilesType, StoredType, RunType
  <2>b. RunType'
    BY <1>12, <2>1 DEF WriteSubuid, Go, loaded, result, TypeOK, FilesType, RunType, Places
  <2>c. HistoryType'
    BY <1>12, <2>1 DEF WriteSubuid, Go, past, TypeOK, HistoryType
  <2> QED BY <2>a, <2>b, <2>c DEF TypeOK
<1>13. CASE WriteSubMap
  <2>1. subMap' \in [Users -> SubIds \cup {None}]
    BY <1>13 DEF WriteSubMap, Over, TypeOK, StoredType, RunType
  <2>2. outcome' \in [how : {"none", "ok", "failed"}, goal : Specs \cup {NoSpec},
                      cut : SUBSET Places, settled : 0 .. 2]
    <3>1. /\ outcome \in [how : {"none", "ok", "failed"}, goal : Specs \cup {NoSpec},
                          cut : SUBSET Places, settled : 0 .. 2]
          /\ spec \in Specs \cup {NoSpec}
      BY DEF TypeOK, RunType, HistoryType
    <3>2. (IF outcome.goal = spec /\ outcome.settled > 0 THEN 2 ELSE 1) \in 0 .. 2
      OBVIOUS
    <3> HIDE DEF NoSpec
    <3> QED BY <1>13, <3>1, <3>2 DEF WriteSubMap
  <2> QED
    BY <1>13, <2>1, <2>2, <1>u DEF WriteSubMap, files, past, TypeOK, FilesType, StoredType, HistoryType
<1>14. CASE Stop
  BY <1>14, <1>b DEF Stop, files, stored, past, TypeOK, FilesType, StoredType, HistoryType
<1>15. ASSUME Admin, FilesType', initial' \subseteq Users PROVE TypeOK'
  <2>1. StoredType' /\ RunType'
    BY <1>15 DEF Admin, stored, loaded, result, TypeOK, StoredType, RunType
  <2>2. HistoryType'
    BY <1>15 DEF Admin, TypeOK, HistoryType
  <2> QED BY <1>15, <2>1, <2>2 DEF TypeOK
<1>16. ASSUME NEW n \in Users, \/ \E i \in NormalIds : useradd(n, i)
                               \/ userdel(n) \/ passwd1(n) \/ \E g \in Groups : gpasswd(g, n)
       PROVE  TypeOK'
  <2>1. FilesType' /\ initial' \subseteq Users
    BY <1>16 DEF useradd, userdel, passwd1, gpasswd, TypeOK, FilesType, HistoryType
  <2> QED BY <1>15, <1>16, <2>1 DEF useradd, userdel, passwd1, gpasswd
<1>17. ASSUME NEW g \in Groups, NEW i \in SysIds, groupadd(g, i) PROVE TypeOK'
  BY <1>15, <1>17 DEF groupadd, TypeOK, FilesType, HistoryType
<1>18. CASE UNCHANGED vars
  BY <1>18 DEF vars, files, stored, loaded, result, past, TypeOK, FilesType, StoredType, RunType, HistoryType
<1>19. CASE Step
  BY <1>19, <1>2, <1>3, <1>4, <1>5, <1>6, <1>7, <1>8, <1>9, <1>10, <1>11, <1>12, <1>13 DEF Step
<1>20. CASE Environment
  <2>1. CASE Stop
    BY <1>14, <2>1
  <2>2. ASSUME NEW n \in Users, \/ \E i \in NormalIds : useradd(n, i)
                              \/ userdel(n) \/ passwd1(n) \/ \E g \in Groups : gpasswd(g, n)
        PROVE  TypeOK'
    BY <1>16, <2>2
  <2>3. ASSUME NEW g \in Groups, NEW i \in SysIds, groupadd(g, i) PROVE TypeOK'
    BY <1>17, <2>3
  <2> QED BY <1>20, <2>1, <2>2, <2>3 DEF Environment
<1> QED BY <1>1, <1>18, <1>19, <1>20 DEF Next

\* The variables have their types: a name has at most one id everywhere, and a run works only on the
\* names of its specification (run).
THEOREM TypeCorrect == Spec => []TypeOK
<1>1. Init => TypeOK
  <2> SUFFICES ASSUME Init PROVE TypeOK
    OBVIOUS
  <2> USE ConstantsOK
  <2>1. FilesType /\ StoredType
    BY DEF Init, Nowhere, Present, FilesType, StoredType
  <2>2. RunType
    BY DEF Init, Nowhere, Named, NoSpec, RunType, Places
  <2>3. HistoryType
    BY DEF Init, Nowhere, HistoryType
  <2> QED BY <2>1, <2>2, <2>3 DEF TypeOK
<1> QED BY <1>1, StepTyped, PTL DEF Spec
----------------------------------------------------------------------------
\* What an administrator does.
AdminStep ==
  \/ \E n \in Users : \/ \E i \in NormalIds : useradd(n, i)
                      \/ userdel(n) \/ passwd1(n)
                      \/ \E g \in Groups : gpasswd(g, n)
  \/ \E g \in Groups : \E i \in SysIds : groupadd(g, i)

LEMMA AdminActs == AdminStep => Admin
BY DEF AdminStep, useradd, userdel, passwd1, groupadd, gpasswd

\* A name that gets an id is present.
LEMMA PresentPlus ==
  ASSUME NEW f, NEW n \in DOMAIN f, NEW i, i # None
  PROVE  Present([f EXCEPT ![n] = i]) = Present(f) \cup {n}
BY DEF Present

\* Every run keeps account of whom it has handled.
LEMMA Progress == Spec => []ProgressInv
<1>1. Init => ProgressInv
  BY DEF Init, ProgressInv, Early, Written, Nowhere, Present
<1>2. TypeOK /\ ProgressInv /\ [Next]_vars => ProgressInv'
  <2> SUFFICES ASSUME TypeOK, ProgressInv, [Next]_vars PROVE ProgressInv'
    OBVIOUS
  <2> USE ConstantsOK DEF ProgressInv, Early, Written
  <2>a. Unload /\ pc' = "idle" => ProgressInv'
    BY DEF Unload
  <2>b. Abort => ProgressInv'
    BY <2>a DEF Abort
  <2>1. ASSUME NEW s \in Specs, Start(s) PROVE ProgressInv'
    BY <2>1 DEF Start, Go, result, Present, Nowhere
  <2>2. ASSUME NEW n \in todo \cap Groups, GroupStep(n), ~Abort PROVE ProgressInv'
    <3>1. PICK i \in Ids : groupsOut' = [groupsOut EXCEPT ![n] = i]
      BY <2>2, GroupChoice
    <3>2. Present(groupsOut') = Present(groupsOut) \cup {n}
      <4>1. n \in DOMAIN groupsOut /\ i # None
        BY DEF TypeOK, RunType
      <4> QED BY <3>1, <4>1, PresentPlus
    <3>3. /\ pc = "groups" /\ pc' = "groups" /\ todo' = todo \ {n} /\ n \in Named(spec.groups)
          /\ UNCHANGED <<spec, usersOut, subsOut>>
      BY <2>2, GroupChoice DEF loaded
    <3> QED BY <3>2, <3>3
  <2>3. ASSUME NEW n \in todo \cap Users, UserStep(n), ~Abort PROVE ProgressInv'
    <3>1. PICK i \in Ids : usersOut' = [usersOut EXCEPT ![n] = i]
      BY <2>3, UserChoice
    <3>2. Present(usersOut') = Present(usersOut) \cup {n}
      <4>1. n \in DOMAIN usersOut /\ i # None
        BY DEF TypeOK, RunType
      <4> QED BY <3>1, <4>1, PresentPlus
    <3>3. /\ pc = "users" /\ pc' = "users" /\ todo' = todo \ {n} /\ n \in Named(spec.users)
          /\ UNCHANGED <<spec, groupsOut, subsOut>>
      BY <2>3, UserChoice DEF loaded
    <3> QED BY <3>2, <3>3
  <2>4. ASSUME NEW n \in todo \cap Users, SubStep(n), ~Abort PROVE ProgressInv'
    <3>1. PICK i \in SubIds : subsOut' = [subsOut EXCEPT ![n] = i]
      BY <2>4, SubChoice
    <3>2. Present(subsOut') = Present(subsOut) \cup {n}
      <4>1. n \in DOMAIN subsOut /\ i # None
        BY DEF TypeOK, RunType
      <4> QED BY <3>1, <4>1, PresentPlus
    <3>3. /\ pc = "subs" /\ pc' = "subs" /\ todo' = todo \ {n}
          /\ UNCHANGED <<spec, groupsOut, usersOut>>
      BY <2>4, SubChoice DEF loaded
    <3> QED BY <3>2, <3>3
  <2>5. CASE WriteDeclGroups \/ WriteGroup
    BY <2>5 DEF WriteDeclGroups, WriteGroup, Go, loaded, result
  <2>6. CASE WriteGidMap
    BY <2>6 DEF WriteGidMap, Go, loaded, Present, Nowhere
  <2>7. CASE WriteDeclUsers \/ WritePasswd
    BY <2>7 DEF WriteDeclUsers, WritePasswd, Go, loaded, result
  <2>8. CASE WriteUidMap /\ ~Abort
    BY <2>8 DEF WriteUidMap, Go, loaded
  <2>9. CASE WriteShadow
    BY <2>9 DEF WriteShadow, Go, loaded, result, Present, Nowhere
  <2>10. CASE WriteSubuid
    BY <2>10 DEF WriteSubuid, Go, loaded, result
  <2>11. CASE WriteSubMap
    BY <2>11, <2>a DEF WriteSubMap
  <2>12. CASE Stop
    BY <2>12, <2>b DEF Stop
  <2>13. CASE AdminStep
    BY <2>13, AdminActs DEF Admin, loaded, result
  <2>14. CASE UNCHANGED vars
    BY <2>14 DEF vars, loaded, result
  <2>15. CASE Step
    BY <2>15, <2>b, <2>2, <2>3, <2>4, <2>5, <2>6, <2>7, <2>8, <2>9, <2>10, <2>11 DEF Step
  <2> QED BY <2>1, <2>12, <2>13, <2>14, <2>15 DEF Next, Environment, AdminStep
<1> QED BY <1>1, <1>2, TypeCorrect, PTL DEF Spec
----------------------------------------------------------------------------
\* A fresh id is nobody's whom this run has seen.
LEMMA Fresh ==
  ASSUME TypeOK, NEW n \in Users
  PROVE  /\ \A b \in BOOLEAN : \A i \in alloc_uid(n, b) :
              /\ i \notin UidsUsed
              /\ i = uidMap[n] \/ i \notin Values(uidMap)
              /\ LET range == IF b THEN SysIds ELSE NormalIds IN
                 uidMap[n] \in range => i = uidMap[n] \/ uidMap[n] \in UidsUsed
         /\ \A i \in alloc_sub_uid(n) :
              i \notin Values(subsOut) /\ (i = subMap[n] \/ i \notin Values(subMap))
BY DEF alloc_uid, alloc_sub_uid, Highest, Lowest

\* Two users have the same uid only if a specification wanted that, two subordinate ranges never
\* (alloc_uid, alloc_sub_uid): whatever is revived, and whoever was added meanwhile.
THEOREM IdsAlwaysUnique == Spec => []IdsUnique
<1>1. Init => UniqueInv
  <2> SUFFICES ASSUME Init PROVE UniqueInv
    OBVIOUS
  <2>1. Apart(passwd)
    BY ConstantsOK DEF Init, Apart, Nowhere
  <2> QED BY <2>1 DEF Init, UniqueInv, Apart, Nowhere, Present
<1>2. TypeOK /\ UniqueInv => IdsUnique
  <2> SUFFICES ASSUME TypeOK, UniqueInv PROVE IdsUnique
    OBVIOUS
  <2>1. ASSUME NEW n \in Users, Wish(n, passwd[n]) PROVE Asked(n)
    BY <2>1 DEF Wish, Asked
  <2> QED BY <2>1 DEF UniqueInv, Apart, IdsUnique, Present, TypeOK, FilesType
\* Every step keeps it, because an id that was not asked for is either that of the file or
\* one that is in neither the file nor the list so far.
<1>3. TypeOK /\ ProgressInv /\ UniqueInv /\ [Next]_vars => UniqueInv'
  <2> SUFFICES ASSUME TypeOK, ProgressInv, UniqueInv, [Next]_vars PROVE UniqueInv'
    OBVIOUS
  <2> USE DEF UniqueInv
  <2>a. Unload /\ UNCHANGED <<passwd, subuid>> => UniqueInv'
    BY DEF Unload, Apart, Present, Nowhere
  <2>b. Abort /\ UNCHANGED files => UniqueInv'
    BY <2>a DEF Abort, files
  <2>c. UNCHANGED <<passwd, subuid, usersCur, usersOut, subsOut>> => UniqueInv'
    BY DEF Apart, Present, Values
  <2>1. ASSUME NEW s \in Specs, Start(s) PROVE UniqueInv'
    BY <2>1, <2>c DEF Start, files, result
  <2>2. ASSUME NEW n \in todo \cap Groups, GroupStep(n) PROVE UniqueInv'
    BY <2>2, <2>b, <2>c, GroupChoice DEF GroupStep, files
  <2>3. ASSUME NEW n \in todo \cap Users, UserStep(n), ~Abort PROVE UniqueInv'
    <3>1. PICK i \in Ids : /\ usersOut' = [usersOut EXCEPT ![n] = i]
                           /\ \/ i = usersCur[n]
                              \/ usersCur[n] = None /\ i = The(spec.users, n).uid
                              \/ Allocates(n) /\ i \in alloc_uid(n, The(spec.users, n).isSystemUser)
      BY <2>3, UserChoice
    <3>2. /\ n \in Named(spec.users) /\ pc = "users" /\ usersOut[n] = None
          /\ UNCHANGED <<passwd, subuid, usersCur, subsOut>>
      BY <2>3, UserChoice, ZenonT(60) DEF files, ProgressInv, Present, TypeOK, RunType
    <3>3. spec \in Specs /\ The(spec.users, n) \in spec.users /\ The(spec.users, n).name = n
      BY <3>2, SpecTyped DEF ProgressInv
    <3>4. The(spec.users, n).isSystemUser \in BOOLEAN
      BY <3>3, SpecTyped DEF SpecType, UserSpec
    <3>5. \/ i = usersCur[n] \/ Wish(n, i)
          \/ i \notin Values(usersCur) /\ i \notin Values(usersOut)
      BY <3>1, <3>3, <3>4, Fresh DEF UidsUsed, Wish
    <3>6. DOMAIN usersOut = Users /\ DOMAIN usersCur = Users /\ None \notin Ids
      BY ConstantsOK DEF TypeOK, RunType
    <3>7. ASSUME NEW m \in Users, m # n, usersOut[m] = i PROVE Wish(n, i) \/ Wish(m, i)
      <4>1. usersOut[m] # None /\ m \in Present(usersOut) /\ i \in Values(usersOut)
        BY <3>6, <3>7 DEF Present, Values
      <4>2. CASE i = usersCur[n]
        <5>1. i \in Values(usersCur)
          BY <3>6, <4>2 DEF Values
        <5> QED BY <3>6, <3>7, <4>1, <4>2, <5>1 DEF Apart
      <4> QED BY <3>5, <4>1, <4>2
    <3>8. Apart(usersOut')
      BY <3>1, <3>6, <3>7 DEF Apart
    <3>9. \A m \in Present(usersOut') : \/ usersOut'[m] = usersCur'[m]
                                        \/ Wish(m, usersOut'[m])
                                        \/ usersOut'[m] \notin Values(usersCur')
      BY <3>1, <3>2, <3>5, <3>6 DEF Present
    <3> QED BY <3>2, <3>8, <3>9 DEF Apart
  <2>4. ASSUME NEW n \in todo \cap Users, SubStep(n), ~Abort PROVE UniqueInv'
    <3>1. PICK i \in SubIds : i \in alloc_sub_uid(n) /\ subsOut' = [subsOut EXCEPT ![n] = i]
      BY <2>4, SubChoice
    <3>2. i \notin Values(subsOut)
      BY <3>1, Fresh
    <3>3. UNCHANGED <<passwd, subuid, usersCur, usersOut>>
      BY <2>4, SubChoice DEF files
    <3>4. DOMAIN subsOut = Users /\ None \notin SubIds
      BY ConstantsOK DEF TypeOK, RunType
    <3>5. \A a, b \in Present(subsOut') : subsOut'[a] = subsOut'[b] => a = b
      BY <3>1, <3>2, <3>4 DEF Present, Values
    <3> QED BY <3>3, <3>5 DEF Apart
  <2>5. CASE WriteDeclGroups \/ WriteGroup \/ WriteDeclUsers \/ WriteShadow
    BY <2>5, <2>c DEF WriteDeclGroups, WriteGroup, WriteDeclUsers, WriteShadow, files, result
  <2>6. CASE WriteGidMap
    <3>1. usersOut = Nowhere(Users) /\ usersCur' = passwd /\ UNCHANGED <<passwd, subuid, usersOut, subsOut>>
      BY <2>6 DEF WriteGidMap, ProgressInv, Early, files
    <3> QED BY <3>1 DEF Apart, Nowhere, Present
  <2>7. CASE WritePasswd
    <3>1. UNCHANGED <<subuid, usersCur, usersOut, subsOut>> /\ passwd' = UsersMerged
      BY <2>7 DEF WritePasswd, result
    <3>2. ASSUME NEW n \in Users PROVE UsersMerged[n] \in {usersOut[n], usersCur[n]}
      BY DEF UsersMerged, Merged, TypeOK, RunType
    <3>3. ASSUME NEW n \in Users, UsersMerged[n] # usersOut[n] PROVE usersOut[n] = None /\ UsersMerged[n] = usersCur[n]
      BY <3>3 DEF UsersMerged, Merged, Kept, Present, TypeOK, RunType
    <3>4. DOMAIN usersOut = Users /\ DOMAIN usersCur = Users
      BY DEF TypeOK, RunType
    <3>5. ASSUME NEW m \in Users, NEW n \in Users, m # n, usersOut[m] # None, usersOut[m] = usersCur[n]
          PROVE  Wish(m, usersOut[m]) \/ Wish(n, usersOut[m])
      <4>1. usersOut[m] \in Values(usersCur) /\ m \in Present(usersOut)
        BY <3>4, <3>5 DEF Values, Present
      <4> QED BY <3>5, <4>1 DEF Apart
    <3>6. Apart(UsersMerged)
      <4> SUFFICES ASSUME NEW a \in Users, NEW b \in Users, a # b, UsersMerged[a] = UsersMerged[b],
                          UsersMerged[a] # None
                   PROVE  Wish(a, UsersMerged[a]) \/ Wish(b, UsersMerged[b])
        BY DEF Apart
      <4>1. CASE UsersMerged[a] = usersOut[a] /\ UsersMerged[b] = usersOut[b]
        BY <4>1 DEF Apart
      <4>2. CASE UsersMerged[a] = usersOut[a] /\ UsersMerged[b] = usersCur[b]
        BY <4>2, <3>5
      <4>3. CASE UsersMerged[a] = usersCur[a] /\ UsersMerged[b] = usersOut[b]
        BY <4>3, <3>5
      <4>4. CASE UsersMerged[a] = usersCur[a] /\ UsersMerged[b] = usersCur[b]
        BY <4>4 DEF Apart
      <4> QED BY <3>2, <4>1, <4>2, <4>3, <4>4
    <3> QED BY <3>1, <3>6 DEF Apart, Present, Values
  <2>8. CASE WriteUidMap
    BY <2>8, <2>b, <2>c DEF WriteUidMap, files
  <2>9. CASE WriteSubuid
    <3>1. UNCHANGED <<passwd, usersCur, usersOut, subsOut>> /\ subuid' = subsOut
      BY <2>9 DEF WriteSubuid, result
    <3> QED BY <3>1 DEF Apart, Present
  <2>10. CASE WriteSubMap
    BY <2>10, <2>a DEF WriteSubMap, files
  <2>11. CASE Stop
    BY <2>11, <2>b DEF Stop
  <2>12. CASE AdminStep
    <3>1. UNCHANGED <<usersCur, usersOut, subsOut, subuid>>
      BY <2>12, AdminActs DEF AdminStep, useradd, userdel, passwd1, groupadd, gpasswd, Admin, result
    <3>2. \/ passwd' = passwd
          \/ \E n \in Users : \/ passwd' = [passwd EXCEPT ![n] = None]
                              \/ \E i \in NormalIds : i \notin Values(passwd) /\ passwd' = [passwd EXCEPT ![n] = i]
      BY <2>12 DEF AdminStep, useradd, userdel, passwd1, groupadd, gpasswd
    <3>3. Apart(passwd')
      BY <3>2 DEF Apart, Values, TypeOK, FilesType
    <3> QED BY <3>1, <3>3 DEF Apart, Present, Values
  <2>13. CASE UNCHANGED vars
    BY <2>13, <2>c DEF vars, files, result
  <2>14. CASE Step
    <3>1. ASSUME NEW n \in todo \cap Users, UserStep(n) \/ SubStep(n), Abort PROVE UniqueInv'
      BY <3>1, <2>b DEF UserStep, SubStep
    <3> QED BY <2>14, <3>1, <2>2, <2>3, <2>4, <2>5, <2>6, <2>7, <2>8, <2>9, <2>10 DEF Step
  <2> QED BY <2>1, <2>11, <2>12, <2>13, <2>14 DEF Next, Environment, AdminStep
<1> QED BY <1>1, <1>2, <1>3, Progress, TypeCorrect, PTL DEF Spec
----------------------------------------------------------------------------
\* An id passes to no other name and returns to its own (IdsKept), whatever the specifications are,
\* if no run was cut between giving an id away and storing it.
THEOREM IdsAlwaysKept == Spec => IdsKept
<1>1. Init => MapInv /\ StableInv
  BY DEF Init, MapInv, StableInv
<1>2. TypeOK /\ ProgressInv /\ MapInv /\ StableInv /\ [Next]_vars => [IdsNotReused /\ IdsStable]_vars
  <2> SUFFICES ASSUME TypeOK, ProgressInv, MapInv, StableInv, Next PROVE IdsNotReused /\ IdsStable
    OBVIOUS
  <2>1. ASSUME pc = "groups", pc' # "idle", Uncut({"gid map"}), NEW g \in Groups PROVE GidNotReused(g)
    <3> SUFFICES ASSUME groupsOut'[g] # groupsOut[g], groupsCur[g] = None, The(spec.groups, g).gid = None
                 PROVE  NewTo(given.gid, groupsOut'[g], g)
      BY DEF GidNotReused
    <3>1. given.gid = gidMap
      BY <2>1 DEF MapInv
    <3>2. PICK n \in todo \cap Groups : GroupStep(n) /\ ~Abort
      BY <2>1 DEF Next, Step, Environment, Start, WriteDeclGroups, WriteGroup, WriteGidMap, UserStep, SubStep,
                  WriteDeclUsers, WritePasswd, WriteUidMap, WriteShadow, WriteSubuid, WriteSubMap, Stop, Abort,
                  useradd, userdel, passwd1, gpasswd, groupadd, Admin, result
    <3>3. PICK i \in Ids : groupsOut' = [groupsOut EXCEPT ![n] = i]
                           /\ \/ i = groupsCur[n]
                              \/ groupsCur[n] = None /\ i = The(spec.groups, n).gid
                              \/ i \in alloc_gid(n)
      BY <3>2, GroupChoice
    <3>4. n = g /\ groupsOut'[g] = i /\ i \in alloc_gid(g)
      BY <3>3, ConstantsOK DEF TypeOK, RunType
    <3>5. i = gidMap[g] \/ i \notin Values(gidMap)
      BY <3>4 DEF alloc_gid, Highest
    <3> QED BY <3>1, <3>4, <3>5 DEF NewTo
  <2>2. ASSUME pc = "users", pc' # "idle", Uncut({"users", "passwd", "uid map"}), NEW m \in Users
        PROVE  UidNotReused(m)
    <3> SUFFICES ASSUME usersOut'[m] # usersOut[m], Allocates(m)
                 PROVE  NewTo(given.uid, usersOut'[m], m)
      BY DEF UidNotReused
    <3>1. \A n \in Users : given.uid[n] = uidMap[n] \/ (given.uid[n] = usersOut[n] /\ usersOut[n] # None)
      BY <2>2 DEF MapInv
    <3>2. PICK n \in todo \cap Users : UserStep(n) /\ ~Abort
      BY <2>2 DEF Next, Step, Environment, Start, WriteDeclGroups, WriteGroup, WriteGidMap, GroupStep, SubStep,
                  WriteDeclUsers, WritePasswd, WriteUidMap, WriteShadow, WriteSubuid, WriteSubMap, Stop, Abort,
                  useradd, userdel, passwd1, gpasswd, groupadd, Admin, result
    <3>3. PICK i \in Ids : /\ usersOut' = [usersOut EXCEPT ![n] = i]
                           /\ \/ i = usersCur[n]
                              \/ usersCur[n] = None /\ i = The(spec.users, n).uid
                              \/ Allocates(n) /\ i \in alloc_uid(n, The(spec.users, n).isSystemUser)
      BY <3>2, UserChoice
    <3>4. n = m /\ usersOut'[m] = i /\ i \in alloc_uid(m, The(spec.users, m).isSystemUser)
      BY <3>3, ConstantsOK DEF TypeOK, RunType, Allocates
    <3>5. usersOut[m] = None /\ The(spec.users, m).isSystemUser \in BOOLEAN
      <4>1. m \in todo /\ m \in Named(spec.users)
        BY <3>2, <3>4, UserChoice
      <4>2. The(spec.users, m) \in spec.users
        BY <4>1, SpecTyped
      <4> QED BY <2>2, <4>1, <4>2, SpecTyped DEF ProgressInv, Present, TypeOK, RunType, SpecType, UserSpec
    <3>6. i \notin Values(usersOut) /\ (i = uidMap[m] \/ i \notin Values(uidMap))
      BY <3>4, <3>5, Fresh DEF UidsUsed
    <3>7. DOMAIN usersOut = Users /\ DOMAIN uidMap = Users /\ DOMAIN given.uid = Users /\ None \notin Ids
      BY ConstantsOK DEF TypeOK, RunType, StoredType, HistoryType
    <3>8. given.uid[m] = i \/ i \notin Values(given.uid)
      <4>1. CASE i = uidMap[m]
        BY <3>1, <3>5, <4>1
      <4>2. CASE i \notin Values(uidMap)
        BY <3>1, <3>6, <3>7, <4>2 DEF Values
      <4> QED BY <3>6, <4>1, <4>2
    <3> QED BY <3>4, <3>8 DEF NewTo
  <2>3. ASSUME pc = "subs", pc' # "idle", Uncut({"sub map"}), NEW m \in Users PROVE SubNotReused(m)
    <3> SUFFICES ASSUME subsOut'[m] # subsOut[m]
                 PROVE  NewTo(given.sub, subsOut'[m], m)
      BY DEF SubNotReused
    <3>1. given.sub = subMap
      BY <2>3 DEF MapInv
    <3>2. PICK n \in todo \cap Users : SubStep(n) /\ ~Abort
      BY <2>3 DEF Next, Step, Environment, Start, WriteDeclGroups, WriteGroup, WriteGidMap, GroupStep, UserStep,
                  WriteDeclUsers, WritePasswd, WriteUidMap, WriteShadow, WriteSubuid, WriteSubMap, Stop, Abort,
                  useradd, userdel, passwd1, gpasswd, groupadd, Admin, result
    <3>3. PICK i \in SubIds : i \in alloc_sub_uid(n) /\ subsOut' = [subsOut EXCEPT ![n] = i]
      BY <3>2, SubChoice
    <3>4. n = m /\ subsOut'[m] = i
      BY <3>3 DEF TypeOK, RunType
    <3> QED BY <3>1, <3>3, <3>4, Fresh DEF NewTo
  <2>4. IdsNotReused
    BY <2>1, <2>2, <2>3 DEF IdsNotReused
  <2>5. IdsStable
    <3> SUFFICES ASSUME pc = "passwd", pc' = "uid map", Uncut({"uid map"}), NEW n \in Present(usersOut),
                        Allocates(n), lastUid[n] \in RangeOf(n), usersOut[n] # lastUid[n]
                 PROVE  \/ \E m \in Users \ {n} : \/ usersCur[m] = lastUid[n]
                                                  \/ usersOut[m] = lastUid[n] /\ lastUid[m] = lastUid[n]
                        \/ \E u \in spec.users : u.uid = lastUid[n]
      BY DEF IdsStable, RangeOf
    <3>1. lastUid = uidMap
      BY DEF MapInv
    <3>2. Taken(n, uidMap[n])
      BY <3>1 DEF StableInv
    <3> QED BY <3>1, <3>2 DEF Taken
  <2> QED BY <2>4, <2>5
\* What is given away is stored in the map, or the run is still going to, or it was cut.
<1>3. TypeOK /\ ProgressInv /\ MapInv /\ [Next]_vars => MapInv'
  <2> SUFFICES ASSUME TypeOK, ProgressInv, MapInv, [Next]_vars PROVE MapInv'
    OBVIOUS
  <2> USE DEF MapInv, Uncut
  <2>a. Abort /\ UNCHANGED <<stored, past>> => MapInv'
    <3> SUFFICES ASSUME Abort, UNCHANGED <<stored, past>> PROVE MapInv'
      OBVIOUS
    <3>1. pc' = "idle" /\ outcome'.cut = outcome.cut \cup {pc}
      BY DEF Abort
    <3>2. UNCHANGED <<uidMap, gidMap, subMap, given, lastUid>>
      BY DEF stored, past
    <3> QED BY <3>1, <3>2
  <2>b. UNCHANGED <<given, lastUid, gidMap, subMap, uidMap, groupsOut, usersOut, subsOut, pc, outcome>> => MapInv'
    OBVIOUS
  <2>1. ASSUME NEW s \in Specs, Start(s) PROVE MapInv'
    BY <2>1 DEF Start, Go, stored, past
  <2>2. ASSUME NEW n \in todo \cap Groups, GroupStep(n) PROVE MapInv'
    <3>1. CASE ~Abort
      BY <2>2, <3>1, GroupChoice DEF stored, past
    <3> QED BY <2>2, <2>a, <3>1 DEF GroupStep
  <2>3. ASSUME NEW n \in todo \cap Users, UserStep(n) PROVE MapInv'
    <3>1. CASE ~Abort
      <4>1. PICK i \in Ids : /\ usersOut' = [usersOut EXCEPT ![n] = i]
                             /\ given' \in {given, [given EXCEPT !.uid[n] = i]}
        BY <2>3, <3>1, UserChoice
      <4>2. /\ pc = "users" /\ pc' = "users" /\ usersOut[n] = None
            /\ UNCHANGED <<lastUid, stored, groupsOut, subsOut, outcome>>
        BY <2>3, <3>1, UserChoice DEF ProgressInv, Present, TypeOK, RunType
      <4>3. /\ given'.gid = given.gid /\ given'.sub = given.sub
            /\ given'.uid \in {given.uid, [given.uid EXCEPT ![n] = i]}
        BY <4>1 DEF TypeOK, HistoryType
      <4>4. /\ DOMAIN usersOut = Users /\ DOMAIN given.uid = Users /\ None \notin Ids
        BY ConstantsOK DEF TypeOK, RunType, HistoryType
      <4>5. ASSUME Uncut({"users", "passwd", "uid map"}), NEW m \in Users
            PROVE  given'.uid[m] = uidMap[m] \/ (given'.uid[m] = usersOut'[m] /\ usersOut'[m] # None)
        <5>1. given.uid[m] = uidMap[m] \/ (given.uid[m] = usersOut[m] /\ usersOut[m] # None)
          BY <4>2, <4>5
        <5> QED BY <4>1, <4>2, <4>3, <4>4, <5>1
      <4> QED BY <4>2, <4>3, <4>5 DEF stored
    <3>2. CASE Abort
      <4>1. UNCHANGED <<stored, past>>
        BY <2>3, <3>2 DEF UserStep, Abort, Go
      <4> QED BY <2>a, <3>2, <4>1
    <3> QED BY <3>1, <3>2
  <2>4. ASSUME NEW n \in todo \cap Users, SubStep(n) PROVE MapInv'
    <3>1. CASE ~Abort
      BY <2>4, <3>1, SubChoice DEF stored, past
    <3> QED BY <2>4, <2>a, <3>1 DEF SubStep
  <2>5. CASE WriteDeclGroups \/ WriteShadow
    BY <2>5 DEF WriteDeclGroups, WriteShadow, Go, stored, result, past
  <2>6. CASE WriteGroup
    <3>1. given'.gid = Over(groupsOut, given.gid) /\ given'.uid = given.uid /\ given'.sub = given.sub
      BY <2>6 DEF WriteGroup, TypeOK, HistoryType
    <3> QED BY <2>6, <3>1 DEF WriteGroup, Go, stored, result
  <2>7. CASE WriteGidMap
    <3>1. Over(groupsOut, gidMap) = gidMap'
      BY <2>7 DEF WriteGidMap
    <3>2. pc' = "users" /\ usersOut' = usersOut /\ pc = "gid map"
      BY <2>7 DEF WriteGidMap, Go
    <3> QED BY <2>7, <3>1, <3>2 DEF WriteGidMap, Go, past
  <2>8. CASE WriteDeclUsers
    BY <2>8 DEF WriteDeclUsers, Go, result, past
  <2>9. CASE WritePasswd
    <3>1. /\ given'.gid = given.gid /\ given'.uid = Over(usersOut, given.uid) /\ given'.sub = given.sub
      BY <2>9 DEF WritePasswd, TypeOK, HistoryType
    <3>2. /\ pc = "passwd" /\ pc' = "uid map" /\ lastUid' = Over(usersOut, lastUid)
          /\ UNCHANGED <<stored, groupsOut, usersOut, subsOut, outcome>>
      BY <2>9 DEF WritePasswd, Go, result
    <3>3. ASSUME Uncut({"users", "passwd", "uid map"}) PROVE Over(usersOut, given.uid) = Over(usersOut, uidMap)
      <4>1. ASSUME NEW m \in Users PROVE given.uid[m] = uidMap[m] \/ (given.uid[m] = usersOut[m] /\ usersOut[m] # None)
        BY <3>2, <3>3
      <4> QED BY <4>1 DEF Over, TypeOK, RunType
    <3> QED BY <3>1, <3>2, <3>3 DEF stored
  <2>10. CASE WriteUidMap
    <3>1. CASE ~Abort
      BY <2>10, <3>1 DEF WriteUidMap, Go, past
    <3>2. CASE Abort
      BY <2>10, <3>2 DEF WriteUidMap, Abort, past
    <3> QED BY <3>1, <3>2
  <2>11. CASE WriteSubuid
    <3>1. given'.gid = given.gid /\ given'.uid = given.uid /\ given'.sub = Over(subsOut, given.sub)
      BY <2>11 DEF WriteSubuid, TypeOK, HistoryType
    <3> QED BY <2>11, <3>1 DEF WriteSubuid, Go, stored, result
  <2>12. CASE WriteSubMap
    <3>1. /\ pc = "sub map" /\ pc' = "idle" /\ subMap' = Over(subsOut, subMap)
          /\ UNCHANGED <<given, lastUid, uidMap, gidMap>>
      BY <2>12 DEF WriteSubMap, past
    <3>2. outcome'.cut = outcome.cut
      BY <2>12 DEF WriteSubMap, TypeOK, HistoryType
    <3> QED BY <3>1, <3>2
  <2>13. CASE Stop
    BY <2>13, <2>a DEF Stop
  <2>14. CASE AdminStep
    <3>1. UNCHANGED <<stored, pc, result, given, lastUid>>
      BY <2>14, AdminActs DEF Admin
    <3>2. outcome'.cut = outcome.cut
      BY <2>14, AdminActs DEF Admin, TypeOK, HistoryType
    <3> QED BY <3>1, <3>2 DEF stored, result
  <2>15. CASE UNCHANGED vars
    BY <2>15, <2>b DEF vars, stored, result, past
  <2>16. CASE Step
    BY <2>16, <2>2, <2>3, <2>4, <2>5, <2>6, <2>7, <2>8, <2>9, <2>10, <2>11, <2>12 DEF Step
  <2> QED BY <2>1, <2>13, <2>14, <2>15, <2>16 DEF Next, Environment, AdminStep
\* An id that this run has not revived for its user is one that somebody else has.
<1>4. TypeOK /\ ProgressInv /\ StableInv /\ [Next]_vars => StableInv'
  <2> SUFFICES ASSUME TypeOK, ProgressInv, StableInv, [Next]_vars PROVE StableInv'
    OBVIOUS
  <2>a. UNCHANGED <<usersOut, usersCur, uidMap, spec>> /\ (pc' \in {"users", "passwd"} => pc \in {"users", "passwd"})
          => StableInv'
    BY DEF StableInv, Taken, Allocates, RangeOf, Present, Values
  <2>b. pc' \notin {"users", "passwd"} => StableInv'
    BY DEF StableInv
  <2>1. ASSUME NEW n \in todo \cap Users, UserStep(n), ~Abort PROVE StableInv'
    <3>1. PICK i \in Ids : /\ usersOut' = [usersOut EXCEPT ![n] = i]
                           /\ \/ i = usersCur[n]
                              \/ usersCur[n] = None /\ i = The(spec.users, n).uid
                              \/ Allocates(n) /\ i \in alloc_uid(n, The(spec.users, n).isSystemUser)
      BY <2>1, UserChoice
    <3>2. /\ n \in Named(spec.users) /\ pc = "users" /\ pc' = "users" /\ usersOut[n] = None
          /\ UNCHANGED <<usersCur, uidMap, spec>>
      BY <2>1, UserChoice, ZenonT(60) DEF ProgressInv, Present, TypeOK, RunType, stored, loaded
    <3>3. /\ DOMAIN usersOut = Users /\ DOMAIN usersCur = Users /\ DOMAIN uidMap = Users
          /\ None \notin Ids /\ SysIds \subseteq Ids /\ NormalIds \subseteq Ids
      BY ConstantsOK DEF TypeOK, RunType, StoredType
    <3>4. The(spec.users, n) \in spec.users /\ The(spec.users, n).isSystemUser \in BOOLEAN
      BY <3>2, SpecTyped DEF SpecType, UserSpec
    <3>5. \/ i \in {usersCur[n], uidMap[n]} \/ (\E u \in spec.users : u.uid = i) \/ i \notin Values(uidMap)
      BY <3>1, <3>4, Fresh
    <3>6. ASSUME Allocates(n), uidMap[n] \in RangeOf(n), i # uidMap[n] PROVE Taken(n, uidMap[n])
      <4>1. uidMap[n] \in UidsUsed /\ uidMap[n] # None
        BY <3>1, <3>3, <3>4, <3>6, Fresh DEF Allocates, RangeOf
      <4>2. CASE uidMap[n] \in Values(usersCur)
        BY <3>3, <3>6, <4>1, <4>2 DEF Values, Taken, Allocates
      <4>3. CASE uidMap[n] \in Values(usersOut)
        <5>1. PICK m \in Users : usersOut[m] = uidMap[n]
          BY <3>3, <4>3 DEF Values
        <5>2. m # n /\ m \in Present(usersOut) /\ usersOut[m] \in Values(uidMap)
          BY <3>2, <3>3, <4>1, <5>1 DEF Present, Values
        <5>3. usersOut[m] \in {usersCur[m], uidMap[m]} \/ \E u \in spec.users : u.uid = usersOut[m]
          BY <3>2, <5>2 DEF StableInv
        <5> QED BY <5>1, <5>2, <5>3 DEF Taken
      <4> QED BY <4>1, <4>2, <4>3 DEF UidsUsed, Taken
    <3>7. ASSUME NEW k \in Users, NEW j \in Ids, Taken(k, j) PROVE Taken(k, j)'
      BY <3>1, <3>2, <3>3, <3>7 DEF Taken
    <3>8. ASSUME NEW k \in Users, uidMap[k] \in RangeOf(k) PROVE uidMap[k] \in Ids
      BY <3>3, <3>8 DEF RangeOf
    <3> SUFFICES ASSUME NEW k \in Present(usersOut')
                 PROVE  /\ \/ usersOut'[k] \in {usersCur'[k], uidMap'[k]}
                           \/ \E u \in spec'.users : u.uid = usersOut'[k]
                           \/ usersOut'[k] \notin Values(uidMap')
                        /\ Allocates(k)' /\ uidMap'[k] \in RangeOf(k)' =>
                             usersOut'[k] = uidMap'[k] \/ Taken(k, uidMap[k])'
      BY <3>2 DEF StableInv
    <3>9. k \in Users /\ (Allocates(k)' <=> Allocates(k)) /\ RangeOf(k)' = RangeOf(k)
      BY <3>1, <3>2, <3>3 DEF Present, Allocates, RangeOf
    <3>10. CASE k = n
      BY <3>1, <3>2, <3>3, <3>5, <3>6, <3>7, <3>8, <3>9, <3>10
    <3>11. CASE k # n
      <4>1. usersOut'[k] = usersOut[k] /\ k \in Present(usersOut)
        BY <3>1, <3>3, <3>11 DEF Present
      <4> QED BY <3>2, <3>7, <3>8, <3>9, <4>1 DEF StableInv
    <3> QED BY <3>10, <3>11
  <2>2. CASE WriteGidMap
    BY <2>2 DEF WriteGidMap, Go, StableInv, ProgressInv, Early, Present, Nowhere
  <2>3. CASE WriteDeclUsers
    BY <2>3, <2>a DEF WriteDeclUsers, Go, result, loaded
  <2>4. CASE AdminStep
    BY <2>4, <2>a, AdminActs DEF Admin, stored, loaded, result
  <2>5. CASE UNCHANGED vars
    BY <2>5, <2>a DEF vars, stored, loaded, result
  <2>6. CASE Stop \/ \E s \in Specs : Start(s)
    BY <2>6, <2>b DEF Stop, Abort, Start, Go
  <2>7. CASE Step
    <3>1. ASSUME NEW n \in todo \cap Groups, GroupStep(n) PROVE StableInv'
      BY <3>1, <2>b, GroupChoice DEF Abort
    <3>2. ASSUME NEW n \in todo \cap Users, UserStep(n) \/ SubStep(n) PROVE StableInv'
      BY <3>2, <2>b, <2>1, SubChoice DEF Abort
    <3>3. CASE WriteDeclGroups \/ WriteGroup \/ WritePasswd \/ WriteUidMap \/ WriteShadow \/ WriteSubuid \/ WriteSubMap
      BY <3>3, <2>b DEF WriteDeclGroups, WriteGroup, WritePasswd, WriteUidMap, WriteShadow, WriteSubuid, WriteSubMap, Go, Abort
    <3> QED BY <2>2, <2>3, <2>7, <3>1, <3>2, <3>3 DEF Step
  <2> QED BY <2>4, <2>5, <2>6, <2>7 DEF Next, Environment, AdminStep
<1> QED BY <1>1, <1>2, <1>3, <1>4, Progress, TypeCorrect, PTL DEF Spec, IdsKept
----------------------------------------------------------------------------
\* From reading passwd to writing shadow the files are those this run has read or written.
LEMMA Passwords ==
  ASSUME QuietRuns
  PROVE  Spec => []PasswordInv
<1>1. Init => PasswordInv
  BY DEF Init, PasswordInv, Window
<1>2. QuietRuns /\ TypeOK /\ ProgressInv /\ PasswordInv /\ [Next]_vars => PasswordInv'
  <2> SUFFICES ASSUME QuietRuns, TypeOK, ProgressInv, PasswordInv, [Next]_vars PROVE PasswordInv'
    OBVIOUS
  <2> USE DEF PasswordInv, Window
  <2>a. pc' \notin {"users", "passwd", "uid map", "shadow"} => PasswordInv'
    OBVIOUS
  <2>1. ASSUME NEW n \in todo \cap Users, UserStep(n), ~Abort PROVE PasswordInv'
    BY <2>1, UserChoice DEF files
  <2>2. CASE WriteGidMap
    BY <2>2 DEF WriteGidMap, Go, files
  <2>3. CASE WriteDeclUsers
    BY <2>3 DEF WriteDeclUsers, Go, files, result
  <2>4. CASE WritePasswd
    <3>1. UNCHANGED <<spec, usersCur, usersOut, prevUsers>>
      BY <2>4 DEF WritePasswd, loaded, result
    <3>2. UsersMerged' = UsersMerged
      BY <3>1 DEF UsersMerged, Merged, Kept, Present
    <3> QED BY <2>4, <3>2 DEF WritePasswd, Go
  <2>5. CASE WriteUidMap /\ ~Abort
    <3>1. /\ UNCHANGED <<spec, usersCur, usersOut, prevUsers, passwd, shadow>> /\ pc' = "shadow" /\ pc = "uid map"
          /\ shadowOut' = [n \in Users |-> ShadowLine(n)]
      BY <2>5 DEF WriteUidMap, Go, files, loaded
    <3>2. UsersMerged' = UsersMerged
      BY <3>1 DEF UsersMerged, Merged, Kept, Present
    <3>3. ASSUME NEW n \in Users PROVE ShadowLine(n)' = ShadowLine(n)
      BY <3>1, <3>2 DEF ShadowLine, Password, OrLocked
    <3> QED BY <3>1, <3>2, <3>3
  <2>6. CASE AdminStep
    BY <2>6, <2>a, AdminActs DEF QuietRuns, Admin
  <2>7. CASE UNCHANGED vars
    <3>1. /\ UNCHANGED <<spec, usersCur, usersOut, prevUsers, passwd, shadow, shadowOut, pc>>
      BY <2>7 DEF vars, files, loaded, result
    <3>2. UsersMerged' = UsersMerged
      BY <3>1 DEF UsersMerged, Merged, Kept, Present
    <3>3. ASSUME NEW n \in Users PROVE ShadowLine(n)' = ShadowLine(n)
      BY <3>1, <3>2 DEF ShadowLine, Password, OrLocked
    <3> QED BY <3>1, <3>2, <3>3
  <2>8. CASE Stop \/ \E s \in Specs : Start(s)
    BY <2>8, <2>a DEF Stop, Abort, Start, Go
  <2>9. CASE Step
    <3>1. ASSUME NEW n \in todo \cap Groups, GroupStep(n) PROVE PasswordInv'
      BY <3>1, <2>a, GroupChoice DEF Abort
    <3>2. ASSUME NEW n \in todo \cap Users, UserStep(n) \/ SubStep(n) PROVE PasswordInv'
      BY <3>2, <2>a, <2>1, SubChoice DEF Abort
    <3>3. CASE WriteDeclGroups \/ WriteGroup \/ (WriteUidMap /\ Abort) \/ WriteShadow \/ WriteSubuid \/ WriteSubMap
      BY <3>3, <2>a DEF WriteDeclGroups, WriteGroup, WriteShadow, WriteSubuid, WriteSubMap, Go, Abort
    <3> QED BY <2>2, <2>3, <2>4, <2>5, <2>9, <3>1, <3>2, <3>3 DEF Step
  <2> QED BY <2>6, <2>7, <2>8, <2>9 DEF Next, Environment, AdminStep
<1> QED BY <1>1, <1>2, TypeCorrect, Progress, PTL DEF Spec

\* In mutable mode every user in passwd keeps the password that passwd(1) has set, in every step of
\* every activation (ShadowLine), if nobody works on the accounts while it runs.
THEOREM PasswordsAlwaysSurvive ==
  ASSUME QuietRuns
  PROVE  Spec => PasswordsSurvive
<1>1. TypeOK /\ ProgressInv /\ PasswordInv /\ [Next]_vars =>
        [pc # "idle" /\ spec.mutableUsers /\ spent'.acts = spent.acts =>
           \A n \in Users : shadow[n] = "own" /\ passwd[n] # None => shadow'[n] = "own"]_vars
  <2> SUFFICES ASSUME TypeOK, PasswordInv, Next, pc # "idle", spec.mutableUsers,
                      NEW n \in Users, shadow[n] = "own", passwd[n] # None
               PROVE  shadow'[n] = "own"
    OBVIOUS
  <2>1. CASE WriteShadow
    BY <2>1 DEF WriteShadow, PasswordInv, Window, ShadowLine
  <2>2. ASSUME NEW s \in Specs, Start(s) PROVE FALSE
    BY <2>2 DEF Start
  <2>3. CASE Stop
    BY <2>3 DEF Stop, files
  <2>4. CASE AdminStep
    BY <2>4, AdminActs DEF QuietRuns, Admin
  <2>5. CASE Step /\ ~WriteShadow
    <3>1. shadow' = shadow
      BY <2>5 DEF Step, GroupStep, UserStep, SubStep, WriteDeclGroups, WriteGroup, WriteGidMap, WriteDeclUsers,
                  WritePasswd, WriteUidMap, WriteSubuid, WriteSubMap, files
    <3> QED BY <3>1
  <2> QED BY <2>1, <2>2, <2>3, <2>4, <2>5 DEF Next, Environment, AdminStep
<1> QED BY <1>1, Progress, Passwords, TypeCorrect, PTL DEF Spec, PasswordsSurvive
----------------------------------------------------------------------------
\* After an activation no account that was to have an initial password is locked, and the
\* accounts are those of the specification and, in mutable mode, those the administrator
\* has made (run; ShadowLine, Merged), if nobody works on the accounts while it runs.
THEOREM AccountsAlwaysRight ==
  ASSUME QuietRuns
  PROVE  Spec => []AccountsRight
<1>1. Init => InitialInv
  BY DEF Init, InitialInv, Window, Nowhere
<1>2. Init => AccountsInv /\ NoLeftovers
  BY DEF Init, AccountsInv, NoLeftovers, Known, Present, Written
<1>3. TypeOK /\ InitialInv /\ NoLeftovers => AccountsRight
  BY DEF AccountsRight, InitialPassword, InitialInv, Window
\* An account keeps the prospect of its initial password until shadow is written.
<1>4. QuietRuns /\ TypeOK /\ ProgressInv /\ PasswordInv /\ InitialInv /\ [Next]_vars => InitialInv'
  <2> SUFFICES ASSUME QuietRuns, TypeOK, ProgressInv, PasswordInv, InitialInv, [Next]_vars PROVE InitialInv'
    OBVIOUS
  <2> USE DEF InitialInv, Window, Uncut
  <2>a. Abort /\ UNCHANGED <<files, past>> => InitialInv'
    <3> SUFFICES ASSUME Abort, UNCHANGED <<files, past>> PROVE InitialInv'
      OBVIOUS
    <3>1. pc' = "idle" /\ outcome'.cut = outcome.cut \cup {pc}
      BY DEF Abort
    <3> QED BY <3>1 DEF files, past
  <2>b. UNCHANGED <<passwd, shadow, initial, outcome>> /\ {pc, pc'} \cap {"uid map", "shadow"} = {} => InitialInv'
    OBVIOUS
  <2>1. ASSUME NEW s \in Specs, Start(s) PROVE InitialInv'
    BY <2>1, <2>b DEF Start, Go, files, past
  <2>2. ASSUME NEW n \in todo \cap Groups, GroupStep(n) PROVE InitialInv'
    BY <2>2, <2>a, <2>b, GroupChoice DEF GroupStep, files, past
  <2>3. ASSUME NEW n \in todo \cap Users, UserStep(n) PROVE InitialInv'
    <3>1. UNCHANGED files /\ (Abort => UNCHANGED past)
      BY <2>3 DEF UserStep, Abort, Go
    <3> QED BY <2>3, <2>a, <2>b, <3>1, UserChoice DEF files
  <2>4. ASSUME NEW n \in todo \cap Users, SubStep(n) PROVE InitialInv'
    BY <2>4, <2>a, <2>b, SubChoice DEF SubStep, files, past
  <2>5. CASE WriteDeclGroups \/ WriteGroup \/ WriteGidMap \/ WriteDeclUsers \/ WriteSubuid
    BY <2>5, <2>b DEF WriteDeclGroups, WriteGroup, WriteGidMap, WriteDeclUsers, WriteSubuid, Go, files, past
  <2>6. CASE WritePasswd
    <3>1. /\ pc = "passwd" /\ pc' = "uid map" /\ passwd' = UsersMerged /\ usersCur = passwd
          /\ UNCHANGED <<shadow, spec, usersCur, outcome>>
      BY <2>6 DEF WritePasswd, Go, PasswordInv, loaded, result
    <3>2. Present(usersOut) = Named(spec.users) /\ DOMAIN UsersMerged = Users
      BY <3>1 DEF ProgressInv, Written, UsersMerged, Merged, TypeOK, RunType
    <3>3. ASSUME NEW n \in initial' PROVE /\ spec.mutableUsers /\ UsersMerged[n] # None
                                          /\ n \in initial \/ (usersCur[n] = None /\ Password(n) = "initial")
      <4>1. spec.mutableUsers
        BY <2>6, <3>3 DEF WritePasswd
      <4>2. CASE n \in initial /\ n \in Present(UsersMerged)
        BY <4>1, <4>2 DEF Present
      <4>3. CASE n \in Present(usersOut) /\ usersCur[n] = None /\ The(spec.users, n).pw = "initial"
        BY <3>2, <4>1, <4>3 DEF Password, UsersMerged, Merged, Kept, Present, TypeOK, RunType
      <4> QED BY <2>6, <3>3, <4>1, <4>2, <4>3 DEF WritePasswd
    <3>4. ASSUME NEW n \in Users PROVE Password(n)' = Password(n)
      BY <3>1 DEF Password
    <3>5. initial' \subseteq Users
      BY StepTyped DEF TypeOK, HistoryType
    <3> QED BY <3>1, <3>3, <3>4, <3>5
  <2>7. CASE WriteUidMap
    <3>1. CASE Abort
      BY <2>7, <2>a, <3>1 DEF WriteUidMap
    <3>2. CASE ~Abort
      <4>1. /\ pc = "uid map" /\ pc' = "shadow" /\ UNCHANGED <<passwd, shadow, spec, usersCur, initial, outcome>>
        BY <2>7, <3>2 DEF WriteUidMap, Go, files, loaded, past
      <4>2. ASSUME NEW n \in Users PROVE Password(n)' = Password(n)
        BY <4>1 DEF Password
      <4> QED BY <4>1, <4>2 DEF TypeOK, HistoryType
    <3> QED BY <3>1, <3>2
  <2>8. CASE WriteShadow
    <3>1. /\ pc = "shadow" /\ pc' = "subs" /\ shadow' = [n \in Users |-> ShadowLine(n)] /\ passwd = UsersMerged
          /\ UNCHANGED <<passwd, initial, outcome>>
      BY <2>8 DEF WriteShadow, Go, PasswordInv, past
    <3>2. initial \subseteq Users
      BY DEF TypeOK, HistoryType
    <3> QED BY <3>1, <3>2 DEF ShadowLine, OrLocked
  <2>9. CASE WriteSubMap
    <3>1. pc = "sub map" /\ pc' = "idle" /\ outcome'.cut = outcome.cut /\ UNCHANGED <<passwd, shadow, initial>>
      BY <2>9 DEF WriteSubMap, files, past, TypeOK, HistoryType
    <3> QED BY <3>1
  <2>10. CASE Stop
    BY <2>10, <2>a DEF Stop
  <2>11. CASE AdminStep
    <3>1. pc = "idle" /\ pc' = "idle" /\ outcome'.cut = outcome.cut
      BY <2>11, AdminActs DEF Admin, QuietRuns, TypeOK, HistoryType
    <3>2. /\ NormalIds \subseteq Ids /\ None \notin Ids /\ initial \subseteq Users
          /\ DOMAIN passwd = Users /\ DOMAIN shadow = Users
      BY ConstantsOK DEF TypeOK, FilesType, HistoryType
    <3>3. ASSUME NEW n \in Users, NEW i \in NormalIds, useradd(n, i) PROVE InitialInv'
      BY <3>1, <3>2, <3>3 DEF useradd
    <3>4. ASSUME NEW n \in Users, userdel(n) PROVE InitialInv'
      BY <3>1, <3>2, <3>4 DEF userdel
    <3>5. ASSUME NEW n \in Users, passwd1(n) PROVE InitialInv'
      BY <3>1, <3>2, <3>5 DEF passwd1
    <3>6. ASSUME UNCHANGED <<passwd, shadow, initial>> PROVE InitialInv'
      BY <3>1, <3>6
    <3> QED BY <2>11, <3>3, <3>4, <3>5, <3>6 DEF AdminStep, gpasswd, groupadd
  <2>12. CASE UNCHANGED vars
    <3>1. UNCHANGED <<passwd, shadow, initial, outcome, pc, spec, usersCur>>
      BY <2>12 DEF vars, files, past, loaded, result
    <3>2. ASSUME NEW n \in Users PROVE Password(n)' = Password(n)
      BY <3>1 DEF Password
    <3> QED BY <3>1, <3>2 DEF TypeOK, HistoryType
  <2>13. CASE Step
    BY <2>13, <2>2, <2>3, <2>4, <2>5, <2>6, <2>7, <2>8, <2>9 DEF Step
  <2> QED BY <2>1, <2>10, <2>11, <2>12, <2>13 DEF Next, Environment, AdminStep
\* The two files hold the accounts of the specification and those of the administrator.
<1>5. QuietRuns /\ TypeOK /\ ProgressInv /\ PasswordInv /\ AccountsInv /\ NoLeftovers /\ [Next]_vars
        => AccountsInv' /\ NoLeftovers'
  <2> SUFFICES ASSUME QuietRuns, TypeOK, ProgressInv, PasswordInv, AccountsInv, NoLeftovers, [Next]_vars
               PROVE  AccountsInv' /\ NoLeftovers'
    OBVIOUS
  <2> USE DEF Uncut
  <2>a. Abort /\ UNCHANGED <<files, past, declUsers, declGroups>> => AccountsInv' /\ NoLeftovers'
    <3> SUFFICES ASSUME Abort, UNCHANGED <<files, past, declUsers, declGroups>> PROVE AccountsInv' /\ NoLeftovers'
      OBVIOUS
    <3>1. pc' = "idle" /\ outcome'.cut = outcome.cut \cup {pc} /\ outcome'.how = "failed"
      BY DEF Abort
    <3>2. UNCHANGED <<passwd, group, local>>
      BY DEF files, past
    <3> QED BY <3>1, <3>2 DEF AccountsInv, Known, Present, NoLeftovers, Written
  <2>b. ASSUME UNCHANGED <<passwd, group, local, declUsers, declGroups, prevUsers, prevGroups, groupsCur, spec, outcome>>,
               \/ pc' = pc
               \/ pc = "gid map" /\ pc' = "users"
               \/ {pc, pc'} \subseteq {"uid map", "shadow", "subs", "sub map"}
        PROVE  AccountsInv' /\ NoLeftovers'
    BY <2>b DEF AccountsInv, Known, Right, Present, NoLeftovers, Rightful, Written
  <2>1. ASSUME NEW s \in Specs, Start(s) PROVE AccountsInv' /\ NoLeftovers'
    BY <2>1 DEF Start, Go, files, stored, past, AccountsInv, Known, Present, NoLeftovers, Written
  <2>2. ASSUME NEW n \in todo \cap Groups, GroupStep(n) PROVE AccountsInv' /\ NoLeftovers'
    <3>1. CASE ~Abort
      BY <2>2, <2>b, <3>1, GroupChoice DEF files, stored, past, loaded
    <3> QED BY <2>2, <2>a, <3>1 DEF GroupStep, stored
  <2>3. ASSUME NEW n \in todo \cap Users, UserStep(n) PROVE AccountsInv' /\ NoLeftovers'
    <3>1. CASE ~Abort
      BY <2>3, <2>b, <3>1, UserChoice DEF files, stored, loaded
    <3>2. CASE Abort
      <4>1. UNCHANGED <<files, stored, past>>
        BY <2>3, <3>2 DEF UserStep, Abort, Go
      <4> QED BY <2>a, <3>2, <4>1 DEF stored
    <3> QED BY <3>1, <3>2
  <2>4. ASSUME NEW n \in todo \cap Users, SubStep(n) PROVE AccountsInv' /\ NoLeftovers'
    <3>1. CASE ~Abort
      BY <2>4, <2>b, <3>1, SubChoice DEF files, stored, past, loaded
    <3> QED BY <2>4, <2>a, <3>1 DEF SubStep, stored
  <2>5. CASE WriteDeclGroups
    <3>1. /\ pc = "groups" /\ pc' = "group" /\ declGroups' = Named(spec.groups) /\ prevGroups = declGroups
          /\ UNCHANGED <<passwd, group, local, declUsers, prevUsers, prevGroups, groupsCur, spec, outcome>>
      BY <2>5 DEF WriteDeclGroups, Go, files, loaded, past, ProgressInv, AccountsInv, TypeOK, RunType
    <3> QED BY <3>1 DEF AccountsInv, Known, Present, NoLeftovers, Written
  <2>6. CASE WriteGroup
    <3> DEFINE new == Merged(groupsCur, groupsOut, prevGroups)
    <3>1. /\ pc = "group" /\ pc' = "gid map" /\ group' = new /\ groupsCur = group
          /\ local' = local \ {<<"group", g>> : g \in Present(groupsOut)}
          /\ UNCHANGED <<passwd, declUsers, declGroups, prevUsers, prevGroups, groupsCur, spec, outcome>>
      BY <2>6 DEF WriteGroup, Go, stored, loaded, AccountsInv
    <3>2. Present(groupsOut) = Named(spec.groups) /\ declGroups = Named(spec.groups)
      BY <3>1 DEF ProgressInv, AccountsInv
    <3>3. ASSUME NEW g \in Present(new)
          PROVE  \/ g \in Present(groupsOut)
                 \/ g \notin Present(groupsOut) /\ g \notin prevGroups /\ g \in Present(groupsCur) /\ spec.mutableUsers
      BY DEF Merged, Kept, Present, TypeOK, RunType
    <3>4. ASSUME Uncut({"group"}), NEW g \in Present(new), g \notin Present(groupsOut)
          PROVE  spec.mutableUsers /\ <<"group", g>> \in local'
      BY <3>1, <3>3, <3>4 DEF AccountsInv, Known
    <3>5. \A n : <<"user", n>> \in local => <<"user", n>> \in local'
      BY <3>1
    <3>6. Uncut({"group"}) => Known("group", group, declGroups)' /\ Right("group", group, Named(spec.groups))'
      BY <3>1, <3>2, <3>4 DEF Known, Right
    <3>7. Uncut({"passwd"}) => Known("user", passwd, declUsers)'
      BY <3>1, <3>5 DEF AccountsInv, Known
    <3> QED BY <3>1, <3>6, <3>7 DEF AccountsInv, NoLeftovers, Written
  <2>7. CASE WriteGidMap
    BY <2>7, <2>b DEF WriteGidMap, Go, files, loaded, past
  <2>8. CASE WriteDeclUsers
    <3>1. /\ pc = "users" /\ pc' = "passwd" /\ declUsers' = Named(spec.users) /\ prevUsers = declUsers
          /\ UNCHANGED <<passwd, group, local, declGroups, prevUsers, prevGroups, groupsCur, spec, outcome>>
      BY <2>8 DEF WriteDeclUsers, Go, files, loaded, past, ProgressInv, AccountsInv, TypeOK, RunType
    <3> QED BY <3>1 DEF AccountsInv, Known, Right, Present, NoLeftovers, Written
  <2>9. CASE WritePasswd
    <3>1. /\ pc = "passwd" /\ pc' = "uid map" /\ passwd' = UsersMerged /\ usersCur = passwd
          /\ local' = local \ {<<"user", n>> : n \in Present(usersOut)}
          /\ UNCHANGED <<group, declUsers, declGroups, prevUsers, prevGroups, groupsCur, spec, outcome>>
      BY <2>9 DEF WritePasswd, Go, stored, loaded, PasswordInv
    <3>2. Present(usersOut) = Named(spec.users) /\ declUsers = Named(spec.users)
      BY <3>1 DEF ProgressInv, AccountsInv, Written
    <3>3. ASSUME NEW n \in Present(UsersMerged)
          PROVE  \/ n \in Present(usersOut)
                 \/ n \notin Present(usersOut) /\ n \notin prevUsers /\ n \in Present(usersCur) /\ spec.mutableUsers
      BY DEF UsersMerged, Merged, Kept, Present, TypeOK, RunType
    <3>4. ASSUME Uncut({"passwd"}), NEW n \in Present(UsersMerged), n \notin Present(usersOut)
          PROVE  spec.mutableUsers /\ <<"user", n>> \in local'
      BY <3>1, <3>3, <3>4 DEF AccountsInv, Known
    <3>5. \A g : <<"group", g>> \in local => <<"group", g>> \in local'
      BY <3>1
    <3>6. Uncut({"passwd"}) => Known("user", passwd, declUsers)' /\ Right("user", passwd, Named(spec.users))'
      BY <3>1, <3>2, <3>4 DEF Known, Right
    <3>7. Uncut({"group"}) => Known("group", group, declGroups)' /\ Right("group", group, Named(spec.groups))'
      BY <3>1, <3>5 DEF AccountsInv, Known, Right
    <3> QED BY <3>1, <3>2, <3>6, <3>7 DEF AccountsInv, NoLeftovers, Written
  <2>10. CASE WriteUidMap
    <3>1. CASE ~Abort
      BY <2>10, <2>b, <3>1 DEF WriteUidMap, Go, files, loaded, past
    <3> QED BY <2>10, <2>a, <3>1 DEF WriteUidMap
  <2>11. CASE WriteShadow \/ WriteSubuid
    <3>1. CASE WriteShadow
      BY <3>1, <2>b DEF WriteShadow, Go, stored, loaded, past
    <3>2. CASE WriteSubuid
      BY <3>2, <2>b DEF WriteSubuid, Go, stored, loaded
    <3> QED BY <2>11, <3>1, <3>2
  <2>12. CASE WriteSubMap
    <3>1. /\ pc = "sub map" /\ pc' = "idle" /\ outcome'.cut = outcome.cut /\ outcome'.goal = spec
          /\ UNCHANGED <<passwd, group, local, declUsers, declGroups>>
      BY <2>12 DEF WriteSubMap, files, past, TypeOK, HistoryType
    <3> QED BY <3>1 DEF AccountsInv, Known, Right, Present, NoLeftovers, Rightful, Written
  <2>13. CASE Stop
    BY <2>13, <2>a DEF Stop, stored
  <2>14. CASE AdminStep
    <3>1. /\ pc = "idle" /\ pc' = "idle" /\ outcome'.cut = outcome.cut /\ outcome'.settled = 0
          /\ UNCHANGED <<declUsers, declGroups>>
      BY <2>14, AdminActs DEF Admin, QuietRuns, TypeOK, HistoryType, stored
    <3>2. DOMAIN passwd = Users /\ DOMAIN group = Groups
      BY DEF TypeOK, FilesType
    <3>3. /\ Known("user", passwd, declUsers) => Known("user", passwd, declUsers)'
          /\ Known("group", group, declGroups) => Known("group", group, declGroups)'
      <4>1. ASSUME NEW n \in Users, NEW i \in NormalIds, useradd(n, i)
            PROVE  /\ \A m \in Present(passwd)' : m \in Present(passwd) \/ m = n
                   /\ <<"user", n>> \in local' /\ local \subseteq local' /\ group' = group
        BY <3>2, <4>1 DEF useradd, Present
      <4>2. ASSUME NEW n \in Users, userdel(n)
            PROVE  /\ \A m \in Present(passwd)' : m \in Present(passwd) /\ m # n
                   /\ local' = local \ {<<"user", n>>} /\ group' = group
        BY <3>2, <4>2, ConstantsOK DEF userdel, Present
      <4>3. ASSUME NEW g \in Groups, NEW i \in SysIds, groupadd(g, i)
            PROVE  /\ \A m \in Present(group)' : m \in Present(group) \/ m = g
                   /\ <<"group", g>> \in local' /\ local \subseteq local' /\ passwd' = passwd
        BY <3>2, <4>3 DEF groupadd, Present
      <4>4. ASSUME UNCHANGED <<passwd, group, local>>
            PROVE  /\ Known("user", passwd, declUsers) => Known("user", passwd, declUsers)'
                   /\ Known("group", group, declGroups) => Known("group", group, declGroups)'
        BY <3>1, <4>4 DEF Known, Present
      <4>5. ASSUME NEW n \in Users, userdel(n)
            PROVE  /\ Known("user", passwd, declUsers) => Known("user", passwd, declUsers)'
                   /\ Known("group", group, declGroups) => Known("group", group, declGroups)'
        <5>1. \A g : <<"group", g>> \in local => <<"group", g>> \in local'
          BY <4>2, <4>5
        <5>2. \A m : m # n /\ <<"user", m>> \in local => <<"user", m>> \in local'
          BY <4>2, <4>5
        <5> QED BY <3>1, <4>2, <4>5, <5>1, <5>2 DEF Known, Present
      <4>6. ASSUME NEW n \in Users, NEW i \in NormalIds, useradd(n, i)
            PROVE  /\ Known("user", passwd, declUsers) => Known("user", passwd, declUsers)'
                   /\ Known("group", group, declGroups) => Known("group", group, declGroups)'
        BY <3>1, <4>1, <4>6 DEF Known, Present
      <4>7. ASSUME NEW g \in Groups, NEW i \in SysIds, groupadd(g, i)
            PROVE  /\ Known("user", passwd, declUsers) => Known("user", passwd, declUsers)'
                   /\ Known("group", group, declGroups) => Known("group", group, declGroups)'
        BY <3>1, <4>3, <4>7 DEF Known, Present
      <4> QED BY <2>14, <4>4, <4>5, <4>6, <4>7 DEF AdminStep, passwd1, gpasswd
    <3> QED BY <3>1, <3>3 DEF AccountsInv, NoLeftovers, Written
  <2>15. CASE UNCHANGED vars
    BY <2>15, <2>b DEF vars, files, stored, loaded, past
  <2>16. CASE Step
    BY <2>16, <2>2, <2>3, <2>4, <2>5, <2>6, <2>7, <2>8, <2>9, <2>10, <2>11, <2>12 DEF Step
  <2> QED BY <2>1, <2>13, <2>14, <2>15, <2>16 DEF Next, Environment, AdminStep
<1> QED BY <1>1, <1>2, <1>3, Progress, Passwords, <1>4, <1>5,
           TypeCorrect, PTL DEF Spec

----------------------------------------------------------------------------
\* The dates of the accounts, and of the boot menu's labels: the days before the first of
\* March of a year, and the year a date is in when years begin with March.
Years(y) == 365 * y + y \div 4 - y \div 100 + y \div 400
MarchYear(y, m) == IF m <= 2 THEN y - 1 ELSE y
Epoch == 719468  \* days from there to the epoch
Leap(y) == 4 * (y \div 4) = y /\ (100 * (y \div 100) = y => 400 * (y \div 400) = y)

\* The leaf that is up is a date there is, and its number is the days of all the years before
\* its year and of the days before it in its year.
WallInv ==
  /\ year \in Int /\ month \in 1 .. 12 /\ day \in 1 .. MonthLength(year, month)
  /\ z = Years(MarchYear(year, month)) + DayOfYear(month, day) - Epoch

\* What civil_from_days comes by on the way: the year, from March on, the day of it, the era, and
\* the year and the day of that.
Y   == MarchYear(year, month)
Doy == DayOfYear(month, day)
Era == Y \div 400
Yoe == Y - 400 * Era
Doe == 365 * Yoe + Yoe \div 4 - Yoe \div 100 + Doy

\* The lengths of the months, in a form that is instantiated.
LEMMA MonthLengths ==
  ASSUME NEW y \in Int, NEW m \in 1 .. 12
  PROVE  /\ m \in {4, 6, 9, 11} => MonthLength(y, m) = 30
         /\ m = 2 => MonthLength(y, m) = IF Leap(y) THEN 29 ELSE 28
         /\ m \in {1, 3, 5, 7, 8, 10, 12} => MonthLength(y, m) = 31
         /\ MonthLength(y, m) \in 28 .. 31
<1>1. m \in {4, 6, 9, 11} => MonthLength(y, m) = 30
  BY DEF MonthLength
<1>2. m = 2 => MonthLength(y, m) = IF Leap(y) THEN 29 ELSE 28
  BY DEF MonthLength, Leap
<1>3. m \in {1, 3, 5, 7, 8, 10, 12} => MonthLength(y, m) = 31
  BY DEF MonthLength
<1>4. m \in {4, 6, 9, 11} \/ m = 2 \/ m \in {1, 3, 5, 7, 8, 10, 12}
  OBVIOUS
<1> QED BY <1>1, <1>2, <1>3, <1>4

\* From one year to the next a quotient grows by one at a multiple, and stays otherwise.
LEMMA NextMultiple ==
  ASSUME NEW y \in Int, NEW n \in {4, 100, 400}
  PROVE  y \div n = (y - 1) \div n + (IF n * (y \div n) = y THEN 1 ELSE 0)
<1>1. CASE n = 4
  BY <1>1
<1>2. CASE n = 100
  BY <1>2
<1>3. CASE n = 400
  BY <1>3
<1> QED BY <1>1, <1>2, <1>3

\* A year has 365 days, and one more when it is a leap year.
LEMMA YearLength ==
  ASSUME NEW y \in Int
  PROVE  Years(y) = Years(y - 1) + 365 + (IF Leap(y) THEN 1 ELSE 0)
<1>1. \A n \in {4, 100, 400} : y \div n = (y - 1) \div n + (IF n * (y \div n) = y THEN 1 ELSE 0)
  BY NextMultiple
<1>2. 400 * (y \div 400) = y => 100 * (y \div 100) = y
  OBVIOUS
<1>3. 100 * (y \div 100) = y => 4 * (y \div 4) = y
  OBVIOUS
<1> QED BY <1>1, <1>2, <1>3 DEF Years, Leap

\* What is made ready for a division that rounds towards zero is rounded down by it.
LEMMA Rounded ==
  ASSUME NEW n \in Int
  PROVE  /\ DayEra(n) = n \div 146097
         /\ Quot(IF n >= 0 THEN n ELSE n - 399, 400) = n \div 400
<1>1. CASE n >= 0
  BY <1>1 DEF DayEra, Quot
<1>2. CASE n < 0
  <2>1. DayEra(n) = -((146096 - n) \div 146097)
    BY <1>2 DEF DayEra, Quot
  <2>2. Quot(IF n >= 0 THEN n ELSE n - 399, 400) = -((399 - n) \div 400)
    BY <1>2 DEF Quot
  <2>3. -((146096 - n) \div 146097) = n \div 146097
    OBVIOUS
  <2>4. -((399 - n) \div 400) = n \div 400
    OBVIOUS
  <2> QED BY <2>1, <2>2, <2>3, <2>4
<1> QED BY <1>1, <1>2
----------------------------------------------------------------------------
\* The day after the last of a month is the first of the next.
LEMMA MonthEnds ==
  ASSUME NEW y \in Int, NEW m \in 1 .. 12, NEW w \in Int, NEW n \in 1 .. 12,
         IF m = 12 THEN n = 1 /\ w = y + 1 ELSE n = m + 1 /\ w = y
  PROVE  Years(MarchYear(w, n)) + DayOfYear(n, 1)
           = Years(MarchYear(y, m)) + DayOfYear(m, MonthLength(y, m)) + 1
<1>t. Years(y) \in Int /\ Years(y - 1) \in Int
  BY DEF Years
<1>1. CASE m = 2
  <2>1. MonthLength(y, 2) = IF Leap(y) THEN 29 ELSE 28
    BY MonthLengths
  <2>2. Years(y) = Years(y - 1) + 365 + (IF Leap(y) THEN 1 ELSE 0)
    BY YearLength
  <2>3. MarchYear(w, n) = y /\ MarchYear(y, m) = y - 1 /\ n = 3
    BY <1>1 DEF MarchYear
  <2>4. DayOfYear(3, 1) = 0 /\ DayOfYear(2, 28) = 364 /\ DayOfYear(2, 29) = 365
    BY DEF DayOfYear
  <2> QED BY <1>1, <1>t, <2>1, <2>2, <2>3, <2>4
<1>2. CASE m # 2
  <2>1. MarchYear(w, n) = MarchYear(y, m) /\ MarchYear(y, m) \in {y, y - 1}
    BY <1>2 DEF MarchYear
  <2>2. DayOfYear(n, 1) = DayOfYear(m, MonthLength(y, m)) + 1 /\ DayOfYear(m, MonthLength(y, m)) \in Int
    <3>1. \/ m \in {4, 6, 9, 11} /\ MonthLength(y, m) = 30
          \/ m \in {1, 3, 5, 7, 8, 10, 12} /\ MonthLength(y, m) = 31
      BY <1>2, MonthLengths
    <3> QED BY <3>1, SMT DEF DayOfYear
  <2> QED BY <1>t, <2>1, <2>2
<1> QED BY <1>1, <1>2

\* Turning a leaf, in either direction, keeps the number right.
LEMMA LeafTurned == WallInv /\ [Turned]_wall => WallInv'
<1> SUFFICES ASSUME WallInv, [Turned]_wall PROVE WallInv'
  OBVIOUS
<1>t. /\ year \in Int /\ month \in 1 .. 12 /\ day \in 1 .. MonthLength(year, month)
      /\ z = Years(MarchYear(year, month)) + DayOfYear(month, day) - Epoch
  BY DEF WallInv
<1>l. \A y \in Int : \A m \in 1 .. 12 : MonthLength(y, m) \in 28 .. 31
  BY MonthLengths
<1>m. Epoch \in Int /\ \A y \in Int : \A m \in 1 .. 12 : MarchYear(y, m) \in Int /\ Years(MarchYear(y, m)) \in Int
  BY SMT DEF MarchYear, Years, Epoch
<1>d. \A m \in 1 .. 12 : \A d \in Int : DayOfYear(m, d) \in Int
  BY DEF DayOfYear
<1>j. day \in Int
  <2>1. MonthLength(year, month) \in 28 .. 31
    BY <1>t, <1>l
  <2> QED BY <1>t, <2>1
<1>i. Years(MarchYear(year, month)) \in Int /\ DayOfYear(month, day) \in Int
  <2>1. Years(MarchYear(year, month)) \in Int
    BY <1>t, <1>m
  <2>2. DayOfYear(month, day) \in Int
    BY <1>t, <1>d, <1>j
  <2> QED BY <2>1, <2>2
<1>1. CASE Tomorrow
  <2>1. z' = z + 1
    BY <1>1 DEF Tomorrow
  <2>2. CASE day < MonthLength(year, month)
    <3>1. day' = day + 1 /\ year' = year /\ month' = month
      BY <1>1, <2>2 DEF Tomorrow
    <3>2. day \in Int /\ day' \in 1 .. MonthLength(year, month)
      BY <1>t, <1>l, <2>2, <3>1
    <3>3. DayOfYear(month, day') = DayOfYear(month, day) + 1
      BY <1>t, <3>1, <3>2 DEF DayOfYear
    <3>4. z' = Years(MarchYear(year, month)) + DayOfYear(month, day') - Epoch
      BY <1>t, <1>i, <1>m, <2>1, <3>3
    <3> QED BY <1>t, <3>1, <3>2, <3>4 DEF WallInv
  <2>3. CASE ~(day < MonthLength(year, month))
    <3>1. day' = 1 /\ month' = (month % 12) + 1 /\ year' = IF month = 12 THEN year + 1 ELSE year
      BY <1>1, <2>3 DEF Tomorrow
    <3>2. /\ year' \in Int /\ month' \in 1 .. 12
          /\ IF month = 12 THEN month' = 1 /\ year' = year + 1 ELSE month' = month + 1 /\ year' = year
      BY <1>t, <3>1
    <3>3. day = MonthLength(year, month)
      BY <1>t, <1>l, <2>3
    <3>4. Years(MarchYear(year', month')) + DayOfYear(month', 1)
            = Years(MarchYear(year, month)) + DayOfYear(month, day) + 1
      BY <1>t, <3>2, <3>3, MonthEnds
    <3>5. day' \in 1 .. MonthLength(year', month')
      BY <1>l, <3>1, <3>2
    <3>6. /\ Years(MarchYear(year', month')) \in Int
          /\ DayOfYear(month', 1) \in Int
      <4>1. 1 \in Int
        OBVIOUS
      <4>2. Years(MarchYear(year', month')) \in Int
        BY <1>m, <3>2
      <4>3. DayOfYear(month', 1) \in Int
        BY <1>d, <3>2, <4>1
      <4> QED BY <4>2, <4>3
    <3>7. z' = Years(MarchYear(year', month')) + DayOfYear(month', 1) - Epoch
      <4>1. z = Years(MarchYear(year, month)) + DayOfYear(month, day) - Epoch
        BY <1>t
      <4>2. Epoch \in Int
        BY <1>m
      <4> QED BY <1>i, <2>1, <3>4, <3>6, <4>1, <4>2
    <3> QED BY <3>1, <3>2, <3>5, <3>7 DEF WallInv
  <2> QED BY <2>2, <2>3
<1>2. CASE Yesterday
  <2>1. z' = z - 1
    BY <1>2 DEF Yesterday
  <2>2. CASE day > 1
    <3>1. day' = day - 1 /\ year' = year /\ month' = month
      BY <1>2, <2>2 DEF Yesterday
    <3>2. day \in Int /\ day' \in 1 .. MonthLength(year, month)
      BY <1>t, <1>l, <2>2, <3>1
    <3>3. DayOfYear(month, day') = DayOfYear(month, day) - 1
      BY <1>t, <3>1, <3>2 DEF DayOfYear
    <3>4. z' = Years(MarchYear(year, month)) + DayOfYear(month, day') - Epoch
      BY <1>t, <1>i, <1>m, <2>1, <3>3
    <3> QED BY <1>t, <3>1, <3>2, <3>4 DEF WallInv
  <2>3. CASE ~(day > 1)
    <3>1. /\ month' = (IF month = 1 THEN 12 ELSE month - 1) /\ year' = (IF month = 1 THEN year - 1 ELSE year)
          /\ day' = MonthLength(year', month')
      BY <1>2, <2>3 DEF Yesterday
    <3>2. /\ year' \in Int /\ month' \in 1 .. 12
          /\ IF month' = 12 THEN month = 1 /\ year = year' + 1 ELSE month = month' + 1 /\ year = year'
      BY <1>t, <3>1
    <3>3. day = 1
      BY <1>t, <1>l, <2>3
    <3>4. Years(MarchYear(year, month)) + DayOfYear(month, 1)
            = Years(MarchYear(year', month')) + DayOfYear(month', day') + 1
      BY <1>t, <3>1, <3>2, MonthEnds
    <3>5. day' \in 1 .. MonthLength(year', month')
      BY <1>l, <3>1, <3>2
    <3>6. /\ Years(MarchYear(year', month')) \in Int /\ DayOfYear(month', day') \in Int
          /\ DayOfYear(month, day) = DayOfYear(month, 1)
      <4>1. day' \in Int
        BY <1>l, <3>1, <3>2
      <4> QED BY <1>m, <1>d, <3>2, <3>3, <4>1
    <3>7. z' = Years(MarchYear(year', month')) + DayOfYear(month', day') - Epoch
      <4>1. z = Years(MarchYear(year, month)) + DayOfYear(month, day) - Epoch
        BY <1>t
      <4>2. Epoch \in Int
        BY <1>m
      <4>3. Years(MarchYear(year, month)) + DayOfYear(month, day)
              = Years(MarchYear(year', month')) + DayOfYear(month', day') + 1
        BY <3>1, <3>4, <3>6
      <4> QED BY <1>i, <2>1, <3>6, <4>1, <4>2, <4>3
    <3> QED BY <3>2, <3>5, <3>7 DEF WallInv
  <2> QED BY <2>2, <2>3
<1>3. CASE UNCHANGED wall
  BY <1>3 DEF wall, WallInv
<1> QED BY <1>1, <1>2, <1>3 DEF Turned

\* An era has 146097 days, and its years are leap years as those of every other era are.
LEMMA YearParts ==
  ASSUME WallInv
  PROVE  /\ Y \in Int /\ Era \in Int /\ Yoe \in 0 .. 399 /\ Y = 400 * Era + Yoe
         /\ Years(Y) = 146097 * Era + 365 * Yoe + Yoe \div 4 - Yoe \div 100
         /\ Leap(Y + 1) <=> Leap(Yoe + 1)
<1>1. Y \in Int
  BY DEF WallInv, Y, MarchYear
<1>2. Era \in Int /\ Yoe \in 0 .. 399 /\ Y = 400 * Era + Yoe
  BY <1>1 DEF Era, Yoe
<1>3. Y \div 4 = 100 * Era + Yoe \div 4
  BY <1>1, <1>2
<1>4. Y \div 100 = 4 * Era + Yoe \div 100
  BY <1>1, <1>2
<1>5. Years(Y) = 146097 * Era + 365 * Yoe + Yoe \div 4 - Yoe \div 100
  <2>1. Years(Y) = 365 * Y + Y \div 4 - Y \div 100 + Era
    BY DEF Years, Era
  <2> QED BY <1>1, <1>2, <1>3, <1>4, <2>1, SMT
<1>6. Leap(Y + 1) <=> Leap(Yoe + 1)
  BY <1>1, <1>2 DEF Leap
<1> QED BY <1>1, <1>2, <1>5, <1>6

\* The months from March on come in a rhythm of 153 days for five of them, so that the month
\* and the day of it are found from the day of the year.
LEMMA DayParts ==
  ASSUME WallInv
  PROVE  /\ Doy \in 0 .. 365 /\ (Doy = 365 => month = 2 /\ Leap(year))
         /\ (5 * Doy + 2) \div 153 = IF month > 2 THEN month - 3 ELSE month + 9
         /\ Doy - (153 * (IF month > 2 THEN month - 3 ELSE month + 9) + 2) \div 5 + 1 = day
<1>1. year \in Int /\ month \in 1 .. 12 /\ day \in 1 .. MonthLength(year, month)
  BY DEF WallInv
<1>2. /\ day \in Int /\ 1 <= day /\ day <= 31
      /\ month \in {4, 6, 9, 11} => day <= 30
      /\ month = 2 => day <= 29 /\ (day = 29 => Leap(year))
  BY <1>1, MonthLengths
<1>3. Doy = (153 * (IF month > 2 THEN month - 3 ELSE month + 9) + 2) \div 5 + day - 1
  BY DEF Doy, DayOfYear
<1> QED BY <1>1, <1>2, <1>3, SMTT(60)

\* The year of an era is found from the day of it, the last day of the era and of each of its
\* centuries and leap years included, and nothing that is computed on the way is negative.
LEMMA YearFound ==
  ASSUME WallInv
  PROVE  0 <= Doe /\ Doe <= 146096 /\ YearOfEra(Doe) = Yoe
<1>a. Yoe \in 0 .. 399 /\ Doy \in 0 .. 365 /\ (Doy = 365 => Leap(Yoe + 1))
  <2>1. month = 2 => Y + 1 = year
    BY DEF WallInv, Y, MarchYear
  <2> QED BY <2>1, YearParts, DayParts
<1>b. Doe = 365 * Yoe + Yoe \div 4 - Yoe \div 100 + Doy /\ Doe \in Int
  BY <1>a DEF Doe
<1>1. PICK c \in 0 .. 3, q \in 0 .. 24, s \in 0 .. 3 : Yoe = 100 * c + 4 * q + s
  <2>1. PICK c \in 0 .. 3, r \in 0 .. 99 : Yoe = 100 * c + r
    <3>1. Yoe \div 100 \in 0 .. 3 /\ Yoe - 100 * (Yoe \div 100) \in 0 .. 99
      BY <1>a
    <3> QED BY <1>a, <3>1
  <2>2. PICK q \in 0 .. 24, s \in 0 .. 3 : r = 4 * q + s
    <3>1. r \div 4 \in 0 .. 24 /\ r - 4 * (r \div 4) \in 0 .. 3
      OBVIOUS
    <3> QED BY <3>1
  <2> QED BY <2>1, <2>2
<1>2. Doe = 36524 * c + 1461 * q + 365 * s + Doy
  <2>1. Yoe \div 4 = 25 * c + q /\ Yoe \div 100 = c
    BY <1>1
  <2> QED BY <1>1, <1>b, <2>1
<1>3. Doy = 365 => s = 3 /\ (q = 24 => c = 3)
  BY <1>a, <1>1 DEF Leap
<1>4. Doe >= 0 /\ Doe <= 146096
  BY <1>a, <1>b, <1>2, SMT
<1>5. Doe = 146096 => c = 3 /\ q = 24 /\ s = 3 /\ Doy = 365
  BY <1>a, <1>b, <1>2, SMT
<1>6. PICK e \in 0 .. 1 : e = IF 24 * c + q + 365 * s + Doy >= 1460 THEN 1 ELSE 0
  BY <1>a
<1>7. PICK f \in 0 .. 1 : f = IF Doe = 146096 THEN 1 ELSE 0
  BY SMT
<1>8. Doe \div 1460 = 25 * c + q + e
  <2>1. Doe = 1460 * (25 * c + q) + (24 * c + q + 365 * s + Doy)
    BY <1>a, <1>2
  <2> QED BY <1>a, <1>6, <2>1
<1>9. Doe \div 36524 = c + f
  BY <1>a, <1>b, <1>2, <1>3, <1>4, <1>5, <1>7, SMT
<1>10. Doe \div 146096 = f
  BY <1>b, <1>4, <1>7, SMT
<1>11. Doy - e \in 0 .. 364
  BY <1>a, <1>3, <1>6
<1>12. Doe - Doe \div 1460 + Doe \div 36524 - Doe \div 146096 = 365 * (100 * c + 4 * q + s) + (Doy - e)
  BY <1>a, <1>b, <1>2, <1>8, <1>9, <1>10, SMT
<1>13. YearOfEra(Doe) = 100 * c + 4 * q + s
  <2>1. PICK r \in 0 .. 364 : r = Doy - e
    BY <1>11
  <2>2. (365 * (100 * c + 4 * q + s) + r) \div 365 = 100 * c + 4 * q + s
    OBVIOUS
  <2> QED BY <1>12, <2>1, <2>2 DEF YearOfEra
<1>14. YearOfEra(Doe) = Yoe
  BY <1>1, <1>13
<1> QED BY <1>4, <1>14, SMT

\* civil_from_days finds the era, the year, the month and the day, without an underflow.
LEMMA LabelFound ==
  ASSUME WallInv
  PROVE  LabelsRight /\ NoUnderflow
<1>1. month \in 1 .. 12 /\ z = Years(Y) + Doy - Epoch /\ Epoch \in Int /\ Epoch = 719468
      /\ year = Y + (IF month <= 2 THEN 1 ELSE 0)
  BY SMT DEF WallInv, Y, Doy, MarchYear, Epoch
<1>2. /\ Y \in Int /\ Era \in Int /\ Yoe \in 0 .. 399 /\ Y = 400 * Era + Yoe
      /\ Years(Y) = 146097 * Era + 365 * Yoe + Yoe \div 4 - Yoe \div 100
  BY YearParts, SMT
<1>3. /\ Doy \in 0 .. 365
      /\ (5 * Doy + 2) \div 153 = IF month > 2 THEN month - 3 ELSE month + 9
      /\ Doy - (153 * (IF month > 2 THEN month - 3 ELSE month + 9) + 2) \div 5 + 1 = day
  BY DayParts
<1>4. 0 <= Doe /\ Doe <= 146096 /\ YearOfEra(Doe) = Yoe
  BY YearFound, SMT
<1>5. Doe \in Int /\ Doe = 365 * Yoe + Yoe \div 4 - Yoe \div 100 + Doy
  BY <1>2, <1>3 DEF Doe
<1>6. z \in Int /\ z + Epoch = Era * 146097 + Doe
  BY <1>1, <1>2, <1>3, <1>5, SMT
<1>7. (z + Epoch) \div 146097 = Era
  BY <1>1, <1>2, <1>4, <1>5, <1>6, SMT
<1>8. DayEra(z + 719468) = Era /\ (z + 719468) - Era * 146097 = Doe
  <2>1. DayEra(z + Epoch) = (z + Epoch) \div 146097
    BY <1>1, <1>6, Rounded, SMT
  <2> QED BY <1>1, <1>2, <1>5, <1>6, <1>7, <2>1, SMT
<1>9. NoUnderflow
  BY <1>2, <1>4, <1>8, SMT DEF NoUnderflow
<1>10. Doe - (365 * Yoe + Yoe \div 4 - Yoe \div 100) = Doy /\ Yoe + Era * 400 = Y
  BY <1>2, <1>3, <1>5
<1> DEFINE mp == (5 * Doy + 2) \div 153
           m == IF mp < 10 THEN mp + 3 ELSE mp - 9
<1>11. m = month /\ Doy - (153 * mp + 2) \div 5 + 1 = day
  BY <1>1, <1>3
<1>12. CivilFromDays(z) = <<AsI32(Y + (IF month <= 2 THEN 1 ELSE 0)), month, day>>
  <2>1. CivilFromDays(z) = <<AsI32(Y + (IF m <= 2 THEN 1 ELSE 0)), m, Doy - (153 * mp + 2) \div 5 + 1>>
    BY <1>4, <1>8, <1>10, SMT DEF CivilFromDays
  <2> HIDE DEF mp, m
  <2> QED BY <1>11, <2>1
<1>13. year \in I32 => AsI32(year) = year
  BY DEF AsI32
<1> QED BY <1>1, <1>9, <1>12, <1>13 DEF LabelsRight

\* A moment of a day is split into the day and the time of it.
LEMMA TimeFound ==
  ASSUME WallInv
  PROVE  TimesRight
<1> SUFFICES ASSUME year \in I32 PROVE TimesRight
  BY DEF TimesRight
<1>1. z \in Int /\ CivilFromDays(z) = <<year, month, day>>
  <2>2. Epoch \in Int
    BY SMT DEF Epoch
  <2>1. Years(MarchYear(year, month)) \in Int /\ DayOfYear(month, day) \in Int
    <3>1. MarchYear(year, month) \in Int /\ day \in Int /\ month \in 1 .. 12
      BY MonthLengths DEF WallInv, MarchYear
    <3> QED BY <3>1 DEF WallInv, Years, DayOfYear
  <2> QED BY <2>1, <2>2, LabelFound DEF WallInv, LabelsRight
<1>2. ASSUME NEW s \in Moments
      PROVE  FormatUtc(86400 * z + s)
               = <<year, month, day, s \div 3600, (s % 3600) \div 60, s % 60>>
  <2>1. s \in Nat /\ s < 86400
    BY DEF Moments
  <2>2. SplitTimestamp(86400 * z + s) = <<z, s>>
    BY <1>1, <2>1 DEF SplitTimestamp
  <2>3. (s \div 60) % 60 = (s % 3600) \div 60
    BY DEF Moments
  <2>4. SplitTimestamp(86400 * z + s)[1] = z /\ SplitTimestamp(86400 * z + s)[2] = s
    BY <2>2
  <2>5. FormatUtc(86400 * z + s) = CivilFromDays(z) \o <<s \div 3600, (s \div 60) % 60, s % 60>>
    BY <2>4 DEF FormatUtc
  <2> QED BY <1>1, <2>3, <2>5
<1> QED BY <1>2 DEF TimesRight

\* date_to_days is the inverse for the dates there are from the epoch on.
LEMMA ExpiryFound ==
  ASSUME WallInv
  PROVE  ExpiryExact
<1>1. year \in Int /\ month \in 1 .. 12 /\ day \in 1 .. MonthLength(year, month)
  BY DEF WallInv
<1>2. \A m \in 1 .. 12 : DaysInMonth(year, m) = MonthLength(year, m) /\ MonthLength(year, m) \in 28 .. 31
  <2>1. IsLeap(year) <=> Leap(year)
    BY <1>1 DEF IsLeap, Leap
  <2>2. \A m \in 1 .. 12 : /\ m \in {1, 3, 5, 7, 8, 10, 12} => DaysInMonth(year, m) = 31
                           /\ m \in {4, 6, 9, 11} => DaysInMonth(year, m) = 30
                           /\ m = 2 => DaysInMonth(year, m) = IF IsLeap(year) THEN 29 ELSE 28
    BY DEF DaysInMonth
  <2> SUFFICES ASSUME NEW m \in 1 .. 12
               PROVE  DaysInMonth(year, m) = MonthLength(year, m) /\ MonthLength(year, m) \in 28 .. 31
    OBVIOUS
  <2>3. /\ m \in {1, 3, 5, 7, 8, 10, 12} => MonthLength(year, m) = 31
        /\ m \in {4, 6, 9, 11} => MonthLength(year, m) = 30
        /\ m = 2 => MonthLength(year, m) = IF Leap(year) THEN 29 ELSE 28
        /\ MonthLength(year, m) \in 28 .. 31
    BY <1>1, MonthLengths
  <2>4. m \in {1, 3, 5, 7, 8, 10, 12} \/ m \in {4, 6, 9, 11} \/ m = 2
    OBVIOUS
  <2>5. CASE m \in {1, 3, 5, 7, 8, 10, 12}
    BY <2>2, <2>3, <2>5
  <2>6. CASE m \in {4, 6, 9, 11}
    BY <2>2, <2>3, <2>6
  <2>7. CASE m = 2
    BY <2>1, <2>2, <2>3, <2>7
  <2> QED BY <2>4, <2>5, <2>6, <2>7
<1>3. DaysFromCivil(year, month, day) = z
  <2>1. Y \in Int /\ Era \in Int /\ Yoe \in 0 .. 399 /\ Y = 400 * Era + Yoe
        /\ Years(Y) = 146097 * Era + 365 * Yoe + Yoe \div 4 - Yoe \div 100
    BY YearParts, SMT
  <2>2. Y = IF month <= 2 THEN year - 1 ELSE year
    BY DEF Y, MarchYear
  <2>3. Quot(IF Y >= 0 THEN Y ELSE Y - 399, 400) = Era /\ Y - Era * 400 = Yoe
    BY <2>1, Rounded DEF Era
  <2>4. Doy \in Int
    BY DayParts
  <2>5. z = Years(Y) + Doy - 719468
    BY SMT DEF WallInv, Y, Doy, Epoch
  <2>6. DaysFromCivil(year, month, day)
          = Era * 146097 + Yoe * 365 + Yoe \div 4 - Yoe \div 100 + Doy - 719468
    BY <2>2, <2>3, SMT DEF DaysFromCivil, Doy
  <2> QED BY <2>1, <2>4, <2>5, <2>6, SMT
<1>4. DateToDays(year, month, day) = IF z >= 0 THEN {z} ELSE {}
  BY <1>1, <1>2, <1>3 DEF DateToDays
<1>5. ASSUME NEW d \in {0} \cup (MonthLength(year, month) + 1) .. 40 PROVE DateToDays(year, month, d) = {}
  <2>1. d \notin 1 .. DaysInMonth(year, month)
    BY <1>1, <1>2
  <2> QED BY <2>1 DEF DateToDays
<1>6. ASSUME NEW m \in {0, 13, 99} PROVE DateToDays(year, m, day) = {}
  BY DEF DateToDays
<1> QED BY <1>4, <1>5, <1>6 DEF ExpiryExact, DatesAccepted, NonDatesRejected

\* format_utc_datetime and date_to_days: on every day, however far from the epoch on either
\* side, the label has the date of the wall calendar and the time of day, and an expiry date is
\* stored as its day when the calendar has it, and is an error when it has not.
THEOREM DatesAlwaysExact == WallSpec => [](LabelExact /\ ExpiryExact)
<1>1. Hung => WallInv
  <2> SUFFICES ASSUME Hung PROVE WallInv
    OBVIOUS
  <2>1. z = 0 /\ year = 1970 /\ month = 1 /\ day = 1
    BY DEF Hung
  <2>2. 1 \in 1 .. MonthLength(1970, 1)
    BY MonthLengths
  <2>3. Years(MarchYear(1970, 1)) + DayOfYear(1, 1) = Epoch
    BY SMT DEF Years, MarchYear, DayOfYear, Epoch
  <2>4. Epoch \in Int
    BY SMT DEF Epoch
  <2>5. z = Years(MarchYear(year, month)) + DayOfYear(month, day) - Epoch
    <3>1. Years(MarchYear(1970, 1)) \in Int /\ DayOfYear(1, 1) \in Int
      BY DEF Years, MarchYear, DayOfYear
    <3> QED BY <2>1, <2>3, <2>4, <3>1
  <2> QED BY <2>1, <2>2, <2>5 DEF WallInv
<1>2. WallInv => LabelExact /\ ExpiryExact
  BY LabelFound, TimeFound, ExpiryFound DEF LabelExact
<1> QED BY <1>1, <1>2, LeafTurned, PTL DEF WallSpec
=============================================================================
