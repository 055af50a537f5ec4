--------------------------- MODULE BootPathProofs ---------------------------
(***************************************************************************)
(* What a machine boots is a whole launcher, the list beside it is right and *)
(* complete, what stage 2 hands over is ready, and it fails for a reason     *)
(* only, for every set of configurations and generations, whatever is        *)
(* killed, fails or loses power, and however often.                          *)
(***************************************************************************)
EXTENDS BootPath, FiniteSetTheorems, TLAPS

Launcher == [does : Systems \cup {Nothing}, entries : {<<>>}, whole : BOOLEAN, mode : {"plain", "exec"}]
Writing == {"write", "chmod", "rename"}
Renamed == {"list", "writeList", "renameList", "done"}

SbinType ==
  /\ sbin \in [{"file", "tmp"} -> Launcher \cup {NoFile}]
  /\ \A n \in DOMAIN profile : profile[n] \in Systems
  /\ wanted \subseteq Systems
  /\ at # "idle" => default \in wanted

\* The temporary file has all that the launcher must have when it is renamed, and afterwards
\* the launcher is that of the present run: so forgetting the earlier ones is safe.
LauncherInv ==
  /\ SbinType /\ LauncherWhole
  /\ at \in Writing => sbin.tmp # NoFile
  /\ at \in {"chmod", "rename"} => sbin.tmp.whole /\ sbin.tmp.does = default
  /\ at = "rename" => sbin.tmp.mode = "exec"
  /\ at \in Renamed => sbin.file # NoFile /\ sbin.file.does = default
----------------------------------------------------------------------------
\* Every step of the builder, and of those who make and remove generations, keeps it.
LEMMA NextLauncher == LauncherInv /\ Next => LauncherInv'
<1> SUFFICES ASSUME LauncherInv, Next PROVE LauncherInv'
  OBVIOUS
\* A launcher is something else than no file.
<1>f. NoFile \notin Launcher
  <2>1. <<>> \in Seq([gen : Nat, system : Systems \cup Specialisations])
    OBVIOUS
  <2>2. Launcher \subseteq File
    BY <2>1 DEF Launcher, File
  <2> QED BY <2>2, NoFileOK
<1> USE DEF LauncherInv, SbinType, LauncherWhole, fileVars, histVars, runVars
<1>1. CASE Start
  BY <1>1 DEF Start, Gens, Writing, Renamed
<1>2. CASE AddSpecialisation
  BY <1>2 DEF AddSpecialisation, Writing, Renamed
<1>3. CASE AddGeneration
  BY <1>3 DEF AddGeneration, Writing, Renamed
<1>4. CASE ReadFails \/ Killed \/ Exit
  BY <1>4 DEF ReadFails, Killed, Exit, Ends, Writing, Renamed
<1>5. CASE WriteFails
  <2>1. /\ sbin' \in {sbin, [sbin EXCEPT !.tmp = NoFile]} /\ at' = "idle"
        /\ profile' = profile /\ wanted' = wanted
    BY <1>5 DEF WriteFails, Ends
  <2> QED BY <2>1 DEF Writing, Renamed
<1>6. CASE CreateInit
  <2>1. Empty \in Launcher
    BY DEF Empty, Launcher
  <2>2. sbin' = [sbin EXCEPT !.tmp = Empty] /\ at' = "write" /\ at = "create" /\ default' = default
        /\ profile' = profile /\ wanted' = wanted
    BY <1>6 DEF CreateInit, To
  <2> QED BY <2>1, <2>2, <1>f DEF Writing, Renamed
<1>7. CASE WriteInit
  <2>1. sbin' = [sbin EXCEPT !.tmp.does = default, !.tmp.whole = TRUE] /\ at' = "chmod" /\ at = "write"
        /\ default' = default /\ profile' = profile /\ wanted' = wanted
    BY <1>7 DEF WriteInit, To
  <2>2. sbin.tmp \in Launcher /\ default \in Systems
    BY <2>1 DEF Writing
  <2>3. sbin' = [sbin EXCEPT !.tmp = [sbin.tmp EXCEPT !.does = default, !.whole = TRUE]]
    BY <2>1
  <2>4. [sbin.tmp EXCEPT !.does = default, !.whole = TRUE] \in Launcher
    BY <2>2 DEF Launcher
  <2>5. sbin'.tmp \in Launcher /\ sbin'.tmp.does = default /\ sbin'.tmp.whole /\ sbin'.file = sbin.file
    BY <2>2, <2>3, <2>4 DEF Launcher
  <2> QED BY <2>1, <2>3, <2>4, <2>5, <1>f DEF Writing, Renamed
<1>8. CASE Chmod
  <2>1. sbin' = [sbin EXCEPT !.tmp.mode = "exec"] /\ at' = "rename" /\ at = "chmod"
        /\ default' = default /\ profile' = profile /\ wanted' = wanted
    BY <1>8 DEF Chmod, To
  <2>2. sbin.tmp \in Launcher
    BY <2>1 DEF Writing
  <2>3. sbin' = [sbin EXCEPT !.tmp = [sbin.tmp EXCEPT !.mode = "exec"]]
    BY <2>1
  <2>4. [sbin.tmp EXCEPT !.mode = "exec"] \in Launcher
    BY <2>2 DEF Launcher
  <2>5. /\ sbin'.tmp \in Launcher /\ sbin'.tmp.does = default /\ sbin'.tmp.whole
        /\ sbin'.tmp.mode = "exec" /\ sbin'.file = sbin.file
    BY <2>1, <2>2, <2>3, <2>4 DEF Launcher
  <2> QED BY <2>1, <2>3, <2>4, <2>5, <1>f DEF Writing, Renamed
<1>9. CASE RenameInit
  <2>1. sbin' = [file |-> sbin.tmp, tmp |-> NoFile] /\ at' = "list" /\ at = "rename"
        /\ default' = default /\ profile' = profile /\ wanted' = wanted
    BY <1>9 DEF RenameInit, To
  <2> QED BY <2>1 DEF Writing, Renamed
<1>10. CASE CreateList \/ WriteList \/ RenameList
  <2>1. /\ sbin' = sbin /\ at \in Renamed /\ at' \in Renamed /\ default' = default
        /\ profile' = profile /\ wanted' \in {wanted, {default}}
    BY <1>10 DEF CreateList, WriteList, RenameList, To, Renamed
  <2>2. default \in wanted /\ sbin.file.does = default /\ sbin.file # NoFile
    BY <2>1 DEF Renamed
  <2>3. default' \in wanted' /\ wanted' \subseteq Systems /\ sbin'.file.does \in wanted'
    BY <2>1, <2>2
  <2>4. SbinType' /\ LauncherWhole'
    BY <2>1, <2>2, <2>3
  <2>5. at' \notin Writing /\ at' \notin {"chmod", "rename"}
    BY <2>1 DEF Writing, Renamed
  <2>6. sbin'.file # NoFile /\ sbin'.file.does = default'
    BY <2>1, <2>2
  <2> QED BY <2>4, <2>5, <2>6
<1>11. CASE Install
  <2>1. /\ sbin' = sbin /\ at' = at /\ default' = default /\ wanted' = wanted
        /\ \E s \in Systems : profile' = [g \in Gens \cup {Newest + 1} |-> IF g \in Gens THEN profile[g] ELSE s]
    BY <1>11 DEF Install
  <2>2. ASSUME NEW g \in DOMAIN profile' PROVE profile'[g] \in Systems
    BY <2>1 DEF Gens
  <2> QED BY <2>1, <2>2 DEF Writing, Renamed
<1>12. CASE Collect
  BY <1>12 DEF Collect, Gens, Writing, Renamed
<1> QED BY <1>1, <1>2, <1>3, <1>4, <1>5, <1>6, <1>7, <1>8, <1>9, <1>10, <1>11, <1>12 DEF Next, Builder

\* write_init_files: whatever the builder is stopped at, and whatever power failure or
\* generation comes in between, /sbin/init is a whole, executable launcher of a
\* configuration that was asked for.
THEOREM LauncherAlwaysWhole == PathSpec => []LauncherWhole
<1>1. PathInit => LauncherInv
  BY DEF PathInit, Init, LauncherInv, SbinType, LauncherWhole, Writing, Renamed
<1>2. LauncherInv /\ [PathNext]_pathVars => LauncherInv'
  <2> SUFFICES ASSUME LauncherInv, [PathNext]_pathVars PROVE LauncherInv'
    OBVIOUS
  <2>1. CASE WhileUp
    BY <2>1, NextLauncher DEF WhileUp
  <2>2. CASE UNCHANGED builderVars
    BY <2>2 DEF builderVars, runVars, fileVars, histVars, LauncherInv, SbinType, LauncherWhole
  <2>3. CASE Cut
    BY <2>3 DEF Cut, Ends, fileVars, LauncherInv, SbinType, LauncherWhole, Writing, Renamed
  <2> QED BY <2>1, <2>2, <2>3 DEF PathNext, Boot, Stage2Step, pathVars
<1>3. LauncherInv => LauncherWhole
  BY DEF LauncherInv
<1> QED BY <1>1, <1>2, <1>3, PTL DEF PathSpec
----------------------------------------------------------------------------
\* The list of the configurations: what an entry is, the generations a list has, and that
\* they fall and come last.
Entry == [gen : Nat, system : Systems \cup Specialisations]
Numbers(s) == {s[k].gen : k \in DOMAIN s} \ {0}
Once(s) == \A j, k \in DOMAIN s : s[j].gen = s[k].gen => s[j].gen = 0 \/ j = k
Falling(s) == \A j, k \in DOMAIN s : j < k => s[j].gen = 0 \/ (s[j].gen > s[k].gen /\ s[k].gen # 0)
Linked == {n \in kept : profile[n] \in Modules}
Listing == {"create", "write", "chmod", "rename"} \cup {"list", "writeList", "renameList", "done"}

\* What has been found so far: every generation looked at that is still linked as it was.
ListInv ==
  /\ Gens \subseteq 1 .. (MaxGen + 1) /\ Gens # {}
  /\ at # "idle" => /\ kept \subseteq Gens /\ Gens \subseteq seen
                    /\ entries \in Seq(Entry) /\ entries # <<>>
                    /\ entries[1] = [gen |-> 0, system |-> default]
  /\ at = "specialisations" => todo \subseteq Specialisations /\ Numbers(entries) = {}
  /\ at = "generations" => /\ todo \subseteq seen \cap (Nat \ {0}) /\ Once(entries)
                           /\ Numbers(entries) \cap todo = {} /\ Numbers(entries) \subseteq seen
                           /\ Linked \ todo \subseteq Numbers(entries)
  /\ at \in Listing => Falling(entries) /\ Linked \subseteq Numbers(entries) /\ Numbers(entries) \subseteq seen

\* What is written of it.
MenuInv ==
  /\ menu \in [{"file", "tmp"} -> File \cup {NoFile}]
  /\ at \in {"writeList", "renameList"} => menu.tmp # NoFile
  /\ at = "renameList" => menu.tmp.whole /\ menu.tmp.entries = entries
  /\ at = "done" => menu.file # NoFile /\ menu.file.entries = entries
  /\ menu.file # NoFile => /\ menu.file.whole /\ Falling(menu.file.entries)
                           /\ menu.file.entries[1].gen = 0 /\ menu.file.entries[1].system \in wanted
----------------------------------------------------------------------------
\* Some generation is the newest: else the numbers below one could be counted on for ever.
LEMMA SomeNewest ==
  ASSUME NEW N \in Nat, NEW G \in SUBSET (1 .. N), G # {}
  PROVE  \E n \in G : \A g \in G : g <= n
<1> SUFFICES ASSUME \A n \in G : \E g \in G : g > n PROVE FALSE
  OBVIOUS
<1> DEFINE D == {k \in 0 .. N : \E g \in G : g > k}
           f == [k \in D |-> k + 1]
<1>1. IsFiniteSet(D) /\ 0 \in D
  <2>1. D \subseteq 0 .. N /\ 0 \in D
    <3>1. PICK g \in G : TRUE
      OBVIOUS
    <3>2. g \in 1 .. N
      OBVIOUS
    <3> QED BY <3>2
  <2>2. IsFiniteSet(0 .. N)
    BY FS_Interval
  <2> HIDE DEF D
  <2> QED BY <2>1, <2>2, FS_Subset
<1>2. ASSUME NEW k \in D PROVE k + 1 \in D \ {0}
  <2>1. PICK g \in G : g > k
    OBVIOUS
  <2>2. PICK h \in G : h > g
    OBVIOUS
  <2> QED BY <2>1, <2>2
<1>3. IsFiniteSet(D \ {0}) /\ Cardinality(D \ {0}) = Cardinality(D) - 1 /\ Cardinality(D) \in Nat
  BY <1>1, FS_RemoveElement, FS_CardinalityType
<1>4. f \in [D -> D \ {0}] /\ D \subseteq Nat
  BY <1>2
<1>5. PICK x \in D, y \in D : x # y /\ f[x] = f[y]
  <2>1. Cardinality(D \ {0}) < Cardinality(D)
    BY <1>3
  <2> HIDE DEF D, f
  <2> QED BY <1>1, <1>3, <1>4, <2>1, FS_PigeonHole
<1> QED BY <1>4, <1>5

\* The place that sorting gives an entry, and which of two entries comes first.
Rank(s, k) ==
  IF s[k].gen = 0 THEN Cardinality({j \in 1 .. k : s[j].gen = 0})
  ELSE Cardinality({j \in DOMAIN s : s[j].gen = 0 \/ s[j].gen >= s[k].gen})
Before(s, j, k) ==
  \/ s[j].gen = 0 /\ (s[k].gen = 0 => j < k)
  \/ s[k].gen # 0 /\ s[j].gen > s[k].gen

\* What comes first has the smaller place.
LEMMA RankFollows ==
  ASSUME NEW s \in Seq(Entry), NEW j \in DOMAIN s, NEW k \in DOMAIN s
  PROVE  /\ Rank(s, k) \in DOMAIN s
         /\ Before(s, j, k) => Rank(s, j) < Rank(s, k)
<1> DEFINE Upto(i) == IF s[i].gen = 0 THEN {x \in 1 .. i : s[x].gen = 0}
                      ELSE {x \in DOMAIN s : s[x].gen = 0 \/ s[x].gen >= s[i].gen}
<1>1. /\ DOMAIN s = 1 .. Len(s) /\ Len(s) \in Nat /\ \A i \in DOMAIN s : s[i].gen \in Nat
      /\ IsFiniteSet(DOMAIN s) /\ Cardinality(DOMAIN s) = Len(s)
  <2>1. DOMAIN s = 1 .. Len(s) /\ Len(s) \in Nat /\ \A i \in DOMAIN s : s[i] \in Entry
    OBVIOUS
  <2>2. \A i \in DOMAIN s : s[i].gen \in Nat
    BY <2>1 DEF Entry
  <2>3. IsFiniteSet(1 .. Len(s)) /\ Cardinality(1 .. Len(s)) = Len(s)
    <3>1. /\ IsFiniteSet(1 .. Len(s))
          /\ Cardinality(1 .. Len(s)) = IF 1 > Len(s) THEN 0 ELSE Len(s) - 1 + 1
      BY <2>1, FS_Interval
    <3> QED BY <2>1, <3>1
  <2> QED BY <2>1, <2>2, <2>3
<1>2. \A i \in DOMAIN s : Rank(s, i) = Cardinality(Upto(i))
  BY DEF Rank
<1>3. ASSUME NEW i \in DOMAIN s
      PROVE  /\ Upto(i) \subseteq DOMAIN s /\ i \in Upto(i) /\ IsFiniteSet(Upto(i))
             /\ Cardinality(Upto(i)) \in DOMAIN s
  <2>1. Upto(i) \subseteq DOMAIN s /\ i \in Upto(i)
    BY <1>1
  <2> HIDE DEF Upto
  <2>2. IsFiniteSet(Upto(i)) /\ Cardinality(Upto(i)) <= Len(s) /\ Cardinality(Upto(i)) \in Nat
    BY <1>1, <2>1, FS_Subset, FS_CardinalityType
  <2>3. Cardinality(Upto(i)) # 0
    BY <2>1, <2>2, FS_EmptySet
  <2> QED BY <1>1, <2>1, <2>2, <2>3
<1>4. ASSUME Before(s, j, k) PROVE Upto(j) \subseteq Upto(k) /\ k \notin Upto(j)
  BY <1>1, <1>4 DEF Before
<1>5. ASSUME Before(s, j, k) PROVE Cardinality(Upto(j)) < Cardinality(Upto(k))
  <2>1. k \in Upto(k) /\ IsFiniteSet(Upto(k)) /\ Upto(j) \subseteq Upto(k) /\ k \notin Upto(j)
    BY <1>3, <1>4, <1>5
  <2> HIDE DEF Upto
  <2>2. Cardinality(Upto(j)) \in Nat /\ Cardinality(Upto(k)) \in Nat
    <3>1. Cardinality(Upto(j)) \in 1 .. Len(s) /\ Cardinality(Upto(k)) \in 1 .. Len(s)
      BY <1>1, <1>3
    <3> QED BY <1>1, <3>1
  <2>3. Cardinality(Upto(j)) <= Cardinality(Upto(k)) /\ Cardinality(Upto(j)) # Cardinality(Upto(k))
    BY <2>1, FS_Subset
  <2> QED BY <2>2, <2>3
<1> HIDE DEF Upto
<1> QED BY <1>2, <1>3, <1>5

\* The list is in order and has the same entries, the first of them first.
LEMMA SortedInOrder ==
  ASSUME NEW s \in Seq(Entry), s # <<>>, s[1].gen = 0, Once(s)
  PROVE  /\ Sorted(s) \in Seq(Entry) /\ Sorted(s) # <<>> /\ Sorted(s)[1] = s[1]
         /\ Falling(Sorted(s)) /\ Numbers(Sorted(s)) = Numbers(s)
<1> DEFINE D == DOMAIN s
           f == [k \in D |-> Rank(s, k)]
           Pick(r) == CHOOSE k \in D : Rank(s, k) = r
           t == Sorted(s)
<1>1. /\ D = 1 .. Len(s) /\ Len(s) \in Nat /\ IsFiniteSet(D) /\ 1 \in D
      /\ \A k \in D : s[k] \in Entry /\ s[k].gen \in Nat
  <2>1. D = 1 .. Len(s) /\ Len(s) \in Nat /\ 1 \in D /\ \A i \in D : s[i] \in Entry
    OBVIOUS
  <2>2. \A i \in D : s[i].gen \in Nat
    BY <2>1 DEF Entry
  <2> QED BY <2>1, <2>2, FS_Interval
<1>2. \A k \in D : Rank(s, k) \in D
  BY RankFollows
<1>3. \A j, k \in D : j # k => Before(s, j, k) \/ Before(s, k, j)
  BY <1>1 DEF Before, Once
<1>4. \A j, k \in D : Before(s, j, k) => Rank(s, j) < Rank(s, k)
  BY RankFollows
<1>5. \A j, k \in D : Rank(s, j) = Rank(s, k) => j = k
  BY <1>1, <1>2, <1>3, <1>4
<1>6. \A r \in D : \E k \in D : Rank(s, k) = r
  <2>1. f \in Injection(D, D)
    BY <1>2, <1>5 DEF Injection, IsInjective
  <2>2. f \in Surjection(D, D)
    <3> HIDE DEF f, D
    <3> QED BY <1>1, <2>1, FS_Injection
  <2> QED BY <2>2 DEF Surjection
<1>7. \A r \in D : Pick(r) \in D /\ Rank(s, Pick(r)) = r
  BY <1>6
<1>8. t = [r \in D |-> s[Pick(r)]]
  BY DEF Sorted, Rank
<1> HIDE DEF D, Pick, t
<1>9. \A k \in D : Pick(Rank(s, k)) = k
  BY <1>2, <1>5, <1>7
<1>10. t \in Seq(Entry) /\ t # <<>> /\ DOMAIN t = D
  <2>1. t \in [1 .. Len(s) -> Entry]
    BY <1>1, <1>7, <1>8
  <2> QED BY <1>1, <2>1
<1>11. Rank(s, 1) = 1
  <2>1. {j \in 1 .. 1 : s[j].gen = 0} = {1}
    OBVIOUS
  <2> QED BY <2>1, FS_Singleton DEF Rank
<1>12. t[1] = s[1]
  BY <1>1, <1>8, <1>9, <1>11
<1>13. Falling(t)
  <2> SUFFICES ASSUME NEW q \in D, NEW r \in D, q < r
               PROVE  t[q].gen = 0 \/ (t[q].gen > t[r].gen /\ t[r].gen # 0)
    BY <1>10 DEF Falling
  <2>1. Pick(q) \in D /\ Pick(r) \in D /\ Rank(s, Pick(q)) = q /\ Rank(s, Pick(r)) = r
    BY <1>7
  <2>2. Before(s, Pick(q), Pick(r))
    BY <1>1, <1>3, <1>4, <2>1
  <2> QED BY <1>8, <2>2 DEF Before
<1>14. Numbers(t) = Numbers(s)
  <2>1. \A r \in D : t[r].gen = s[Pick(r)].gen /\ Pick(r) \in D
    BY <1>7, <1>8
  <2>2. \A k \in D : s[k].gen = t[Rank(s, k)].gen /\ Rank(s, k) \in D
    BY <1>2, <1>8, <1>9
  <2>3. {t[r].gen : r \in D} = {s[k].gen : k \in D}
    BY <2>1, <2>2
  <2> QED BY <1>10, <2>3 DEF Numbers, D
<1> QED BY <1>10, <1>12, <1>13, <1>14 DEF t

\* One entry more.
LEMMA OneMore ==
  ASSUME NEW s \in Seq(Entry), s # <<>>, NEW e \in Entry
  PROVE  /\ Append(s, e) \in Seq(Entry) /\ Append(s, e) # <<>> /\ Append(s, e)[1] = s[1]
         /\ Numbers(Append(s, e)) = Numbers(s) \cup ({e.gen} \ {0})
         /\ Once(s) /\ e.gen \notin Numbers(s) => Once(Append(s, e))
<1> DEFINE t == Append(s, e)
<1>1. /\ t \in Seq(Entry) /\ t # <<>> /\ t[1] = s[1] /\ DOMAIN s = 1 .. Len(s)
      /\ DOMAIN t = 1 .. Len(s) + 1 /\ t[Len(s) + 1] = e /\ \A k \in 1 .. Len(s) : t[k] = s[k]
      /\ Len(s) \in Nat
  OBVIOUS
<1> HIDE DEF t
<1>2. Numbers(t) = Numbers(s) \cup ({e.gen} \ {0})
  <2>1. \A k \in DOMAIN t : (k \in DOMAIN s /\ t[k] = s[k]) \/ t[k] = e
    BY <1>1
  <2>2. \A k \in DOMAIN s : k \in DOMAIN t /\ t[k] = s[k]
    BY <1>1
  <2>3. Len(s) + 1 \in DOMAIN t
    BY <1>1
  <2> QED BY <1>1, <2>1, <2>2, <2>3 DEF Numbers
<1>3. ASSUME Once(s), e.gen \notin Numbers(s) PROVE Once(t)
  <2> SUFFICES ASSUME NEW j \in DOMAIN t, NEW k \in DOMAIN t, t[j].gen = t[k].gen, t[j].gen # 0
               PROVE  j = k
    BY DEF Once
  <2>1. \A i \in DOMAIN s : s[i].gen # 0 => s[i].gen # e.gen
    BY <1>3 DEF Numbers
  <2>2. \A i \in DOMAIN t : (i \in DOMAIN s /\ t[i] = s[i]) \/ (i = Len(s) + 1 /\ t[i] = e)
    BY <1>1
  <2> QED BY <1>3, <2>1, <2>2 DEF Once
<1> QED BY <1>1, <1>2, <1>3 DEF t

\* Every step of the builder, and of those who make and remove generations, keeps it.
LEMMA NextList == ListInv /\ SbinType /\ Next => ListInv'
<1> SUFFICES ASSUME ListInv, SbinType, Next PROVE ListInv'
  OBVIOUS
<1> USE DEF histVars
<1>t. /\ Gens \subseteq 1 .. (MaxGen + 1) /\ Gens # {} /\ MaxGen \in Nat
      /\ \A n \in Gens : profile[n] \in Systems
      /\ at # "idle" => /\ kept \subseteq Gens /\ Gens \subseteq seen /\ default \in Systems
                        /\ entries \in Seq(Entry) /\ entries # <<>>
                        /\ entries[1] = [gen |-> 0, system |-> default]
  BY BuilderOK DEF ListInv, SbinType, Gens
<1>1. CASE Start
  <2>1. /\ Gens' = Gens /\ at' = "specialisations" /\ todo' = Specialisations /\ default' \in Systems
        /\ entries' = <<[gen |-> 0, system |-> default']>> /\ kept' = Gens /\ seen' = Gens
    BY <1>1, <1>t DEF Start, Gens
  <2>2. [gen |-> 0, system |-> default'] \in Entry
    BY <2>1 DEF Entry
  <2>3. entries' \in Seq(Entry) /\ entries' # <<>> /\ entries'[1] = [gen |-> 0, system |-> default']
    BY <2>1, <2>2
  <2>4. Numbers(entries') = {}
    BY <2>1 DEF Numbers
  <2> QED BY <1>t, <2>1, <2>3, <2>4 DEF ListInv, Listing, Numbers
<1>2. CASE AddSpecialisation
  <2>1. /\ at = "specialisations" /\ default' = default /\ profile' = profile /\ kept' = kept /\ seen' = seen
        /\ todo \subseteq Specialisations /\ Numbers(entries) = {}
    BY <1>2 DEF AddSpecialisation, ListInv
  <2>2. CASE todo = {}
    <3>1. at' = "generations" /\ todo' = Gens /\ entries' = entries
      BY <1>2, <2>2 DEF AddSpecialisation
    <3>2. Once(entries)
      BY <2>1 DEF Numbers, Once
    <3>3. Linked' = Linked /\ Linked \subseteq Gens /\ Gens' = Gens
      BY <1>t, <2>1 DEF Linked, Gens
    <3> QED BY <1>t, <2>1, <3>1, <3>2, <3>3 DEF ListInv, Listing
  <2>3. CASE todo # {}
    <3>1. PICK s \in todo : /\ entries' = Append(entries, [gen |-> 0, system |-> s])
                            /\ todo' = todo \ {s} /\ at' = at
      BY <1>2, <2>3 DEF AddSpecialisation
    <3>2. [gen |-> 0, system |-> s] \in Entry
      BY <2>1 DEF Entry
    <3>3. /\ entries' \in Seq(Entry) /\ entries' # <<>> /\ entries'[1] = entries[1]
          /\ Numbers(entries') = Numbers(entries) \cup ({0} \ {0})
      BY <1>t, <2>1, <3>1, <3>2, OneMore
    <3>4. Gens' = Gens
      BY <2>1 DEF Gens
    <3> QED BY <1>t, <2>1, <3>1, <3>3, <3>4 DEF ListInv, Listing, Numbers
  <2> QED BY <2>2, <2>3
<1>3. CASE AddGeneration
  <2>1. /\ at = "generations" /\ default' = default /\ profile' = profile /\ kept' = kept /\ seen' = seen
        /\ todo \subseteq seen \cap (Nat \ {0}) /\ Once(entries)
        /\ Numbers(entries) \cap todo = {} /\ Numbers(entries) \subseteq seen
        /\ Linked \ todo \subseteq Numbers(entries)
    BY <1>3 DEF AddGeneration, ListInv
  <2>g. Gens' = Gens /\ Linked' = Linked
    BY <2>1 DEF Gens, Linked
  <2>2. CASE todo = {}
    <3>1. at' = "create" /\ todo' = todo /\ entries' = Sorted(entries)
      BY <1>3, <2>2 DEF AddGeneration
    <3>2. /\ entries' \in Seq(Entry) /\ entries' # <<>> /\ entries'[1] = entries[1]
          /\ Falling(entries') /\ Numbers(entries') = Numbers(entries)
      BY <1>t, <2>1, <3>1, SortedInOrder
    <3> QED BY <1>t, <2>1, <2>2, <2>g, <3>1, <3>2 DEF ListInv, Listing
  <2>3. CASE todo # {}
    <3>1. PICK n \in todo : /\ entries' = IF Listed(n) THEN Append(entries, [gen |-> n, system |-> profile[n]])
                                          ELSE entries
                            /\ todo' = todo \ {n} /\ at' = at
      BY <1>3, <2>3 DEF AddGeneration
    <3>2. CASE Listed(n)
      <4>1. [gen |-> n, system |-> profile[n]] \in Entry /\ n \notin Numbers(entries) /\ n # 0
        BY <1>t, <2>1, <3>2 DEF Entry, Listed
      <4>2. /\ entries' \in Seq(Entry) /\ entries' # <<>> /\ entries'[1] = entries[1]
            /\ Numbers(entries') = Numbers(entries) \cup ({n} \ {0}) /\ Once(entries')
        BY <1>t, <2>1, <3>1, <3>2, <4>1, OneMore
      <4> QED BY <1>t, <2>1, <2>g, <3>1, <4>1, <4>2 DEF ListInv, Listing
    <3>3. CASE ~Listed(n)
      <4>1. n \notin Linked
        BY <1>t, <2>1, <3>3 DEF Listed, Linked
      <4> QED BY <1>t, <2>1, <2>g, <3>1, <3>3, <4>1 DEF ListInv, Listing
    <3> QED BY <3>2, <3>3
  <2> QED BY <2>2, <2>3
<1>4. CASE ReadFails \/ WriteFails \/ Killed \/ Exit
  <2>1. at' = "idle" /\ profile' = profile
    BY <1>4 DEF ReadFails, WriteFails, Killed, Exit, Ends
  <2> QED BY <1>t, <2>1 DEF ListInv, Listing, Gens
<1>5. CASE CreateInit \/ WriteInit \/ Chmod \/ RenameInit \/ CreateList \/ WriteList \/ RenameList
  <2>1. /\ at \in Listing /\ at' \in Listing
        /\ UNCHANGED <<default, entries, kept, seen, profile>>
    BY <1>5 DEF CreateInit, WriteInit, Chmod, RenameInit, CreateList, WriteList, RenameList, To, Listing
  <2>2. Gens' = Gens /\ Linked' = Linked
    BY <2>1 DEF Gens, Linked
  <2> QED BY <1>t, <2>1, <2>2 DEF ListInv, Listing
\* Others add to what was seen and take from what was kept.
<1>6. ASSUME UNCHANGED <<at, default, todo, entries>>, Gens' \subseteq 1 .. (MaxGen + 1), Gens' # {},
             at # "idle" => kept' \subseteq Gens' /\ Gens' \subseteq seen' /\ seen \subseteq seen' /\ Linked' \subseteq Linked
      PROVE  ListInv'
  BY <1>t, <1>6 DEF ListInv, Listing
<1>7. CASE Install
  <2>1. /\ UNCHANGED <<at, default, todo, entries, kept>> /\ Newest < MaxGen
        /\ seen' = IF at = "idle" THEN seen ELSE seen \cup {Newest + 1}
    BY <1>7 DEF Install, runVars
  <2>2. Gens' = Gens \cup {Newest + 1} /\ \A n \in Gens : profile'[n] = profile[n]
    BY <1>7 DEF Install, Gens
  <2>3. Newest \in Gens
    <3>1. MaxGen + 1 \in Nat /\ Gens \in SUBSET (1 .. (MaxGen + 1))
      BY <1>t
    <3>2. \E n \in Gens : \A g \in Gens : g <= n
      BY <1>t, <3>1, SomeNewest
    <3> QED BY <3>2 DEF Newest
  <2>4. Newest + 1 \in 1 .. (MaxGen + 1)
    BY <1>t, <2>1, <2>3
  <2>5. at # "idle" => Linked' = Linked
    BY <1>t, <2>1, <2>2 DEF Linked
  <2>6. Gens' \subseteq 1 .. (MaxGen + 1) /\ Gens' # {}
    BY <1>t, <2>2, <2>4
  <2>7. at # "idle" => kept' \subseteq Gens' /\ Gens' \subseteq seen' /\ seen \subseteq seen'
    BY <1>t, <2>1, <2>2
  <2> QED BY <1>6, <2>1, <2>5, <2>6, <2>7
<1>8. CASE Collect
  <2>1. UNCHANGED <<at, default, todo, entries, seen>>
    BY <1>8 DEF Collect, runVars
  <2>2. PICK n \in Gens : /\ Gens # {n} /\ profile' = [g \in Gens \ {n} |-> profile[g]]
                          /\ kept' = kept \ {n}
    BY <1>8 DEF Collect
  <2>3. Gens' = Gens \ {n}
    BY <2>2 DEF Gens
  <2>4. at # "idle" => Linked' \subseteq Linked
    BY <1>t, <2>2 DEF Linked
  <2> QED BY <1>t, <1>6, <2>1, <2>2, <2>3, <2>4
<1> QED BY <1>1, <1>2, <1>3, <1>4, <1>5, <1>7, <1>8 DEF Next, Builder

\* The list is made beside its place from the one the launcher was chosen with.
LEMMA NextMenu == MenuInv /\ ListInv /\ SbinType /\ Next => MenuInv'
<1> SUFFICES ASSUME MenuInv, ListInv, SbinType, Next PROVE MenuInv'
  OBVIOUS
<1> USE DEF histVars, fileVars, runVars
<1>t. /\ menu \in [{"file", "tmp"} -> File \cup {NoFile}] /\ NoFile \notin File
      /\ menu.file # NoFile => /\ menu.file.whole /\ Falling(menu.file.entries)
                               /\ menu.file.entries[1].gen = 0 /\ menu.file.entries[1].system \in wanted
  BY NoFileOK DEF MenuInv
<1>1. CASE Start \/ AddSpecialisation \/ AddGeneration \/ CreateInit \/ WriteInit \/ Chmod \/ RenameInit
  <2>1. /\ menu' = menu /\ at' \notin {"writeList", "renameList", "done"} /\ wanted \subseteq wanted'
    BY <1>1 DEF Start, AddSpecialisation, AddGeneration, CreateInit, WriteInit, Chmod, RenameInit, To
  <2> QED BY <1>t, <2>1 DEF MenuInv
<1>2. CASE ReadFails \/ WriteFails \/ Killed \/ Exit
  <2>1. /\ menu' \in {menu, [menu EXCEPT !.tmp = NoFile]} /\ at' = "idle" /\ wanted' = wanted
    BY <1>2 DEF ReadFails, WriteFails, Killed, Exit, Ends
  <2> QED BY <1>t, <2>1 DEF MenuInv
<1>3. CASE CreateList
  <2>1. menu' = [menu EXCEPT !.tmp = Empty] /\ at' = "writeList" /\ wanted' = wanted
    BY <1>3 DEF CreateList, To
  <2>2. Empty \in File
    <3>1. <<>> \in Seq([gen : Nat, system : Systems \cup Specialisations])
      OBVIOUS
    <3> QED BY <3>1 DEF Empty, File
  <2> QED BY <1>t, <2>1, <2>2 DEF MenuInv
<1>4. CASE WriteList
  <2>1. /\ menu' = [menu EXCEPT !.tmp.entries = entries, !.tmp.whole = TRUE]
        /\ at = "writeList" /\ at' = "renameList" /\ wanted' = wanted /\ entries' = entries
    BY <1>4 DEF WriteList, To
  <2>2. menu.tmp \in File /\ entries \in Seq([gen : Nat, system : Systems \cup Specialisations])
    BY <1>t, <2>1 DEF MenuInv, ListInv, Entry
  <2> DEFINE w == [menu.tmp EXCEPT !.entries = entries, !.whole = TRUE]
  <2>3. menu' = [menu EXCEPT !.tmp = w]
    BY <2>1
  <2>4. w \in File /\ w.entries = entries /\ w.whole
    BY <2>2 DEF File
  <2> HIDE DEF w
  <2> QED BY <1>t, <2>1, <2>3, <2>4 DEF MenuInv
<1>5. CASE RenameList
  <2>1. /\ menu' = [file |-> menu.tmp, tmp |-> NoFile] /\ at = "renameList" /\ at' = "done"
        /\ wanted' = {default} /\ entries' = entries
    BY <1>5 DEF RenameList, To
  <2>2. menu.tmp \in File /\ menu.tmp.whole /\ menu.tmp.entries = entries
    BY <1>t, <2>1 DEF MenuInv
  <2>3. Falling(entries) /\ entries[1] = [gen |-> 0, system |-> default]
    BY <2>1 DEF ListInv, Listing
  <2> QED BY <1>t, <2>1, <2>2, <2>3 DEF MenuInv
<1>6. CASE Install \/ Collect
  <2>1. UNCHANGED <<menu, at, entries, wanted>>
    BY <1>6 DEF Install, Collect
  <2> QED BY <2>1 DEF MenuInv
<1> QED BY <1>1, <1>2, <1>3, <1>4, <1>5, <1>6 DEF Next, Builder

\* init-script-builder: the list beside the kernel is always whole, in order and of a
\* configuration asked for; when a run completes it has every labelled generation that was
\* there throughout, none that never was, and the launcher's configuration first.
THEOREM MenuAlwaysRight == PathSpec => []MenuRight
<1>1. PathInit => LauncherInv /\ ListInv /\ MenuInv
  <2> SUFFICES ASSUME PathInit PROVE LauncherInv /\ ListInv /\ MenuInv
    OBVIOUS
  <2>1. LauncherInv
    BY DEF PathInit, Init, LauncherInv, SbinType, LauncherWhole, Writing, Renamed
  <2>2. Gens = {1} /\ at = "idle" /\ menu = [file |-> NoFile, tmp |-> NoFile]
    BY DEF PathInit, Init, Gens
  <2>3. ListInv
    BY <2>2, BuilderOK DEF ListInv, Listing
  <2>4. MenuInv
    BY <2>2 DEF MenuInv
  <2> QED BY <2>1, <2>3, <2>4
<1>2. LauncherInv /\ ListInv /\ MenuInv /\ [PathNext]_pathVars => LauncherInv' /\ ListInv' /\ MenuInv'
  <2> SUFFICES ASSUME LauncherInv, ListInv, MenuInv, [PathNext]_pathVars
               PROVE  LauncherInv' /\ ListInv' /\ MenuInv'
    OBVIOUS
  <2>1. CASE WhileUp
    BY <2>1, NextLauncher, NextList, NextMenu DEF WhileUp, LauncherInv
  <2>2. CASE UNCHANGED builderVars
    <3>1. LauncherInv'
      BY <2>2 DEF builderVars, runVars, fileVars, histVars, LauncherInv, SbinType, LauncherWhole
    <3>2. Gens' = Gens /\ Linked' = Linked
      BY <2>2 DEF builderVars, runVars, histVars, Gens, Linked
    <3>3. ListInv'
      BY <2>2, <3>2 DEF builderVars, runVars, histVars, ListInv
    <3>4. MenuInv'
      BY <2>2 DEF builderVars, runVars, fileVars, histVars, MenuInv
    <3> QED BY <3>1, <3>3, <3>4
  <2>3. CASE Cut
    <3>1. LauncherInv'
      BY <2>3 DEF Cut, Ends, fileVars, LauncherInv, SbinType, LauncherWhole, Writing, Renamed
    <3>2. at' = "idle" /\ profile' = profile /\ menu' = menu /\ wanted' = wanted
      BY <2>3 DEF Cut, Ends, fileVars
    <3>3. ListInv'
      BY <3>2 DEF ListInv, Listing, Gens
    <3>4. MenuInv'
      BY <3>2 DEF MenuInv
    <3> QED BY <3>1, <3>3, <3>4
  <2> QED BY <2>1, <2>2, <2>3 DEF PathNext, Boot, Stage2Step, pathVars
<1>3. LauncherInv /\ ListInv /\ MenuInv => MenuRight
  <2> SUFFICES ASSUME LauncherInv, ListInv, MenuInv PROVE MenuRight
    OBVIOUS
  <2>1. menu.file # NoFile => menu.file.whole /\ InOrder(menu.file.entries)
    BY DEF MenuInv, InOrder, Falling
  <2>2. ASSUME at = "done"
        PROVE  /\ menu.file.entries = entries /\ entries[1].system = sbin.file.does
               /\ Linked \subseteq Numbers(entries) /\ Numbers(entries) \subseteq seen
    BY <2>2 DEF MenuInv, ListInv, Listing, LauncherInv, Renamed
  <2> QED BY <2>1, <2>2 DEF MenuRight, Numbers, Linked
<1> QED BY <1>1, <1>2, <1>3, PTL DEF PathSpec
----------------------------------------------------------------------------
\* Stage 2: what is done once a step is behind the boot.
Going == {"booting", "systemd", "returned"}
StepsDone ==
  /\ step > 2 => proc \/ config.inSystemd
  /\ step > 4 => root = "rw"
  /\ step > 8 => activated \/ ~config.script
  /\ step > 9 => links["booted"] = system
  /\ step > 13 /\ config.current => links["current"] = system
  /\ step > 14 /\ config.fhs => links["env"] = system
  /\ step > 15 /\ config.fhs => links["sh"] = system

\* The descriptors are redirected between the seventh step and the last message only, and
\* then the guard knows of both.
StdioInv ==
  /\ capture \in {"no", "yes", "half"}
  /\ err # "console" => capture = "yes"
  /\ out # "console" => capture \in {"yes", "half"}
  /\ outcome = "off" \/ (outcome = "booting" /\ step <= 7) =>
       capture = "no" /\ out = "console" /\ err = "console"
  /\ outcome \in Going /\ step > 11 => capture # "yes"

HandInv ==
  /\ step \in 1 .. 17 /\ DOMAIN links = S!Links
  /\ outcome = "off" => step = 1
  /\ outcome \in Going => StepsDone
  /\ S!Up => step = 17
  /\ StdioInv

\* Where each step of stage 2 is.
LEMMA Steps ==
  ASSUME step \in 1 .. 17
  PROVE  /\ S!Order[step] = "remount" => step = 1
         /\ S!Order[step] = "mounts" => step = 2
         /\ S!Order[step] = "store" => step = 3
         /\ S!Order[step] = "dirs" => step = 4
         /\ S!Order[step] = "resolv" => step = 5
         /\ S!Order[step] = "config" => step = 6
         /\ S!Order[step] = "capture" => step = 7
         /\ S!Order[step] = "activate" => step = 8
         /\ S!Order[step] = "booted" => step = 9
         /\ S!Order[step] = "postBoot" => step = 10
         /\ S!Order[step] = "finish" => step = 11
         /\ S!Order[step] = "atomic" => step = 12
         /\ S!Order[step] = "current" => step = 13
         /\ S!Order[step] = "env" => step = 14
         /\ S!Order[step] = "sh" => step = 15
         /\ S!Order[step] = "kernel" => step = 16
         /\ S!Order[step] = "handOver" => step = 17
BY DEF S!Order

\* A step that is taken changes what it is there for and goes on to the next.
LEMMA RunHand == HandInv /\ S!Run => HandInv'
<1> SUFFICES ASSUME HandInv, S!Run PROVE HandInv'
  OBVIOUS
<1> USE DEF HandInv
<1>s. step \in 1 .. 17
  OBVIOUS
<1>c. CASE ~S!Err /\ outcome = "booting"
  <2> USE <1>c
  <2>g. outcome \in Going /\ StepsDone /\ StdioInv /\ ~S!Up
    BY DEF Going, S!Up
  <2>1. CASE S!Remount
    <3>1. /\ step = 1 /\ outcome' = outcome /\ step' = step + 1
          /\ system' = system /\ config' = config
          /\ capture' = capture /\ out' = out /\ err' = err
          /\ links' = links
      BY <1>s, <2>1, Steps DEF S!At, S!Remount, S!GoOn, S!constant, S!linkVars, S!stdio
    <3> QED BY <2>g, <3>1 DEF StdioInv, StepsDone, Going, S!Up
  <2>2. CASE S!Mounts
    <3>1. /\ step = 2 /\ outcome' = outcome /\ step' = step + 1
          /\ system' = system /\ config' = config
          /\ capture' = capture /\ out' = out /\ err' = err
          /\ links' = links
          /\ proc' \/ config.inSystemd
      BY <1>s, <2>2, Steps DEF S!At, S!Mounts, S!GoOn, S!constant, S!linkVars, S!stdio
    <3> QED BY <2>g, <3>1 DEF StdioInv, StepsDone, Going, S!Up
  <2>3. CASE S!Step
    <3>1. /\ step \in {3, 4, 5, 6, 16} /\ outcome' = outcome /\ step' = step + 1
          /\ system' = system /\ config' = config
          /\ capture' = capture /\ out' = out /\ err' = err
          /\ links' = links /\ root' = root /\ proc' = proc /\ activated' = activated
          /\ step = 4 => root = "rw"
      BY <1>s, <2>3, Steps DEF S!At, S!Step, S!GoOn, S!constant, S!linkVars, S!stdio
    <3> QED BY <2>g, <3>1 DEF StdioInv, StepsDone, Going, S!Up
  <2>4. CASE S!Capture
    <3>1. /\ step = 7 /\ outcome' = outcome /\ step' = step + 1
          /\ system' = system /\ config' = config
          /\ links' = links /\ root' = root /\ proc' = proc /\ activated' = activated
          /\ \/ capture' = capture /\ out' = out /\ err' = err
             \/ capture' = "half" /\ err' = err
             \/ capture' = "yes"
      BY <1>s, <2>4, Steps DEF S!At, S!Capture, S!GoOn, S!constant, S!linkVars, S!stdio
    <3> QED BY <2>g, <3>1 DEF StdioInv, StepsDone, Going, S!Up
  <2>5. CASE S!Activate
    <3>1. /\ step = 8 /\ outcome' = outcome /\ step' = step + 1
          /\ system' = system /\ config' = config
          /\ capture' = capture /\ out' = out /\ err' = err
          /\ links' = links /\ root' = root /\ proc' = proc
          /\ activated' \/ ~config.script
      BY <1>s, <2>5, Steps DEF S!At, S!Activate, S!GoOn, S!constant, S!linkVars, S!stdio
    <3> QED BY <2>g, <3>1 DEF StdioInv, StepsDone, Going, S!Up
  <2>6. CASE S!PostBoot
    <3>1. /\ step = 10 /\ outcome' = outcome /\ step' = step + 1
          /\ system' = system /\ config' = config
          /\ capture' = capture /\ out' = out /\ err' = err
          /\ links' = links /\ root' = root /\ proc' = proc /\ activated' = activated
      BY <1>s, <2>6, Steps DEF S!At, S!PostBoot, S!GoOn, S!constant, S!linkVars, S!stdio
    <3> QED BY <2>g, <3>1 DEF StdioInv, StepsDone, Going, S!Up
  <2>7. CASE S!Finish
    <3>1. /\ step = 11 /\ outcome' = outcome /\ step' = step + 1
          /\ system' = system /\ config' = config
          /\ \/ capture = "yes" /\ capture' = "no" /\ out' = "console" /\ err' = "console"
             \/ capture # "yes" /\ capture' = capture /\ out' = out /\ err' = err
          /\ links' = links /\ root' = root /\ proc' = proc /\ activated' = activated
      BY <1>s, <2>7, Steps DEF S!At, S!Finish, S!GoOn, S!constant, S!linkVars, S!stdio, S!Restore
    <3> QED BY <2>g, <3>1 DEF StdioInv, StepsDone, Going, S!Up
  <2>8. CASE S!Panic
    <3>1. /\ outcome' = "panic" /\ step' = step
          /\ system' = system /\ config' = config
          /\ capture' = capture /\ out' = out /\ err' = err
          /\ links' = links
      BY <1>s, <2>8, Steps DEF S!At, S!Panic, S!GoOn, S!constant, S!linkVars, S!stdio
    <3> QED BY <2>g, <3>1 DEF StdioInv, StepsDone, Going, S!Up
  <2>9. CASE S!SkipLink
    <3>1. /\ step \in {12, 13, 14, 15} /\ outcome' = outcome /\ step' = step + 1
          /\ system' = system /\ config' = config
          /\ capture' = capture /\ out' = out /\ err' = err
          /\ links' = links /\ root' = root /\ proc' = proc /\ activated' = activated
          /\ step = 13 => ~config.current
          /\ step \in {14, 15} => ~config.fhs
      BY <1>s, <2>9, Steps DEF S!At, S!SkipLink, S!GoOn, S!constant, S!linkVars, S!stdio, S!LinkSteps, S!Wanted
    <3> QED BY <2>g, <3>1 DEF StdioInv, StepsDone, Going, S!Up
  <2>10. CASE S!MakeTemp
    <3>1. /\ outcome' = outcome /\ step' = step
          /\ system' = system /\ config' = config
          /\ capture' = capture /\ out' = out /\ err' = err
          /\ links' = links /\ root' = root /\ proc' = proc /\ activated' = activated
      BY <1>s, <2>10, Steps DEF S!At, S!MakeTemp, S!GoOn, S!constant, S!linkVars, S!stdio
    <3> QED BY <2>g, <3>1 DEF StdioInv, StepsDone, Going, S!Up
  <2>11. CASE S!Rename
    <3>1. /\ step \in {9, 12, 13, 14, 15} /\ outcome' = outcome /\ step' = step + 1
          /\ system' = system /\ config' = config
          /\ capture' = capture /\ out' = out /\ err' = err
          /\ root' = root /\ proc' = proc /\ activated' = activated
          /\ DOMAIN links' = DOMAIN links
          /\ \A p \in S!Links : links'[p] \in {links[p], system}
          /\ step = 9 => links'["booted"] = system
          /\ step = 13 => links'["current"] = system
          /\ step = 14 => links'["env"] = system
          /\ step = 15 => links'["sh"] = system
      BY <1>s, <2>11, Steps DEF S!At, S!Rename, S!GoOn, S!constant, S!linkVars, S!stdio, S!LinkSteps, S!LinkOf, S!Links
    <3> QED BY <2>g, <3>1 DEF StdioInv, StepsDone, Going, S!Up, S!Links
  <2>12. CASE S!HandOver
    <3>1. /\ step = 17 /\ step' = step /\ outcome' \in {"systemd", "returned", "shell", "failed"}
          /\ system' = system /\ config' = config
          /\ capture' = capture /\ out' = out /\ err' = err
          /\ links' = links /\ root' = root /\ proc' = proc /\ activated' = activated
      BY <1>s, <2>12, Steps DEF S!At, S!HandOver, S!GoOn, S!constant, S!linkVars, S!stdio
    <3> QED BY <2>g, <3>1 DEF StdioInv, StepsDone, Going, S!Up
  <2> QED BY <2>1, <2>2, <2>3, <2>4, <2>5, <2>6, <2>7, <2>8, <2>9, <2>10, <2>11, <2>12 DEF S!Run
\* An error ends the boot, with the descriptors back in place or as they were.
<1>e. CASE S!Err
  <2>1. DOMAIN links' = DOMAIN links
    BY <1>e DEF S!Err, S!Run, S!Remount, S!Mounts, S!Step, S!Capture, S!Activate, S!PostBoot, S!Finish, S!Panic,
      S!SkipLink, S!MakeTemp, S!Rename, S!HandOver, S!linkVars
  <2>2. outcome' = "failed" /\ step' = step
    BY <1>e DEF S!Err
  <2>3. \/ capture' = capture /\ out' = out /\ err' = err
        \/ capture' = "no" /\ out' = "console" /\ err' = "console"
    BY <1>e DEF S!Err, S!Restore, S!stdio
  <2>4. StdioInv'
    BY <2>2, <2>3 DEF StdioInv, Going
  <2> QED BY <2>1, <2>2, <2>4 DEF S!Up, Going
<1>o. outcome = "booting"
  BY DEF S!Run, S!Remount, S!Mounts, S!Step, S!Capture, S!Activate, S!PostBoot, S!Finish, S!Panic,
      S!SkipLink, S!MakeTemp, S!Rename, S!HandOver, S!At
<1> QED BY <1>c, <1>e, <1>o

\* bash_compat.rs run, nixos_init_compat.rs and run_and_handoff: systemd finds its
\* descriptors, filesystems, activation and links, whatever failed or was cut before.
THEOREM HandOverAlwaysReady == PathSpec => []HandOverReady
<1>1. PathInit => HandInv
  BY DEF PathInit, S!Init, HandInv, StdioInv, S!Links, S!Up, Going, StepsDone
<1>2. HandInv /\ [PathNext]_pathVars => HandInv'
  <2> SUFFICES ASSUME HandInv, [PathNext]_pathVars PROVE HandInv'
    OBVIOUS
  <2>1. CASE S!Run
    BY <2>1, RunHand
  <2>2. CASE S!HelperEnds
    BY <2>2 DEF S!HelperEnds, S!constant, S!linkVars, HandInv, StdioInv, StepsDone, S!Up
  <2>3. CASE S!PowerCut
    BY <2>3 DEF S!PowerCut, HandInv, StdioInv, S!Up, Going, S!Links
  <2>4. ASSUME NEW s, S!PowerOn(s) PROVE HandInv'
    BY <2>4 DEF S!PowerOn, S!stdio, S!linkVars, HandInv, StdioInv, StepsDone, S!Up, Going
  <2>5. CASE UNCHANGED stage2Vars
    BY <2>5 DEF stage2Vars, HandInv, StdioInv, StepsDone, S!Up
  <2> QED BY <2>1, <2>2, <2>3, <2>4, <2>5 DEF PathNext, WhileUp, Boot, Cut, Stage2Step, pathVars
<1>3. HandInv => HandOverReady
  BY DEF HandInv, StepsDone, StdioInv, Going, HandOverReady, S!HandOverReady, S!Up
<1> QED BY <1>1, <1>2, <1>3, PTL DEF PathSpec
----------------------------------------------------------------------------
\* The temporary links: one more for each boot that made one and did not rename it.
Failed  == {"failed", "panic", "shell"}
Here(p) == made # Nothing /\ p = S!LinkOf(S!Order[step])
TempsInv ==
  /\ temps \in [S!Links -> SUBSET (0 .. Attempts)] /\ cuts \in Nat /\ step \in 1 .. 17
  /\ made # Nothing => /\ outcome = "booting"
                       /\ S!Order[step] \in S!LinkSteps /\ S!Wanted(S!Order[step])
                       /\ made \in temps[S!LinkOf(S!Order[step])]
  /\ \A p \in S!Links :
       /\ outcome = "off" => Cardinality(temps[p]) <= cuts
       /\ outcome = "booting" => Cardinality(temps[p]) <= cuts + (IF Here(p) THEN 1 ELSE 0)
       /\ Cardinality(temps[p]) <= cuts + 1
  /\ \A p \in S!Volatile :
       outcome \in {"off", "booting"} => temps[p] = IF Here(p) THEN {made} ELSE {}

\* What stage 2 writes is read, and what has failed has failed for a reason.
ReasonInv ==
  /\ faults \in Nat
  /\ outcome \in {"off", "booting", "systemd", "returned"} \cup Failed
  /\ outcome \in {"off", "booting"} => err = "console" \/ helper = "reads" \/ faults > 0
  /\ FailsForAReason

\* A set of temporary names is counted by its elements, and is full when none is free.
LEMMA Counted ==
  ASSUME NEW T \in SUBSET (0 .. Attempts)
  PROVE  /\ Cardinality(T) \in Nat /\ Cardinality({}) = 0
         /\ \A i \in 0 .. Attempts : /\ i \notin T => Cardinality(T \cup {i}) = Cardinality(T) + 1
                                     /\ i \in T => Cardinality(T \ {i}) = Cardinality(T) - 1
         /\ (0 .. Attempts) \ T = {} => T = 0 .. Attempts /\ Cardinality(T) = Attempts + 1
<1>1. IsFiniteSet(0 .. Attempts) /\ Cardinality(0 .. Attempts) = Attempts + 1
  BY BootBoundsOK, FS_Interval
<1>2. IsFiniteSet(T)
  BY <1>1, FS_Subset
<1>3. ASSUME NEW i \in 0 .. Attempts
      PROVE  /\ i \notin T => Cardinality(T \cup {i}) = Cardinality(T) + 1
             /\ i \in T => Cardinality(T \ {i}) = Cardinality(T) - 1
  BY <1>2, FS_AddElement, FS_RemoveElement
<1>4. Cardinality(T) \in Nat /\ Cardinality({}) = 0
  BY <1>2, FS_CardinalityType, FS_EmptySet
<1>5. (0 .. Attempts) \ T = {} => T = 0 .. Attempts
  OBVIOUS
<1> QED BY <1>1, <1>3, <1>4, <1>5

\* A boot in which no call fails, and that fails, was asked for an activation that is not there, or
\* has met every temporary name in /usr/bin or /bin taken, after more boots that were cut than there are names.
THEOREM AlwaysForAReason == PathSpec => []FailsForAReason
<1>1. PathInit => TempsInv /\ ReasonInv
  <2> SUFFICES ASSUME PathInit PROVE TempsInv /\ ReasonInv
    OBVIOUS
  <2>1. Cardinality({}) = 0
    BY FS_EmptySet
  <2> QED BY <2>1 DEF PathInit, S!Init, TempsInv, ReasonInv, Here, Failed, FailsForAReason, S!FailsForAReason, S!Volatile, S!Links
<1>2. TempsInv /\ ReasonInv /\ [PathNext]_pathVars => TempsInv' /\ ReasonInv'
  <2> SUFFICES ASSUME TempsInv, ReasonInv, [PathNext]_pathVars PROVE TempsInv' /\ ReasonInv'
    OBVIOUS
  <2>l. S!Links = {"booted", "current", "env", "sh"} /\ S!Volatile = {"booted", "current"}
    BY DEF S!Links, S!Volatile
  <2>t. /\ temps \in [S!Links -> SUBSET (0 .. Attempts)] /\ cuts \in Nat /\ step \in 1 .. 17 /\ faults \in Nat
        /\ \A p \in S!Links : Cardinality(temps[p]) \in Nat /\ temps[p] \subseteq 0 .. Attempts
        /\ Attempts \in Nat /\ Nothing \notin 0 .. Attempts
        /\ Cardinality({}) = 0
    BY BootBoundsOK, Counted DEF TempsInv, ReasonInv
  \* A step that has nothing to do with the links.
  <2> DEFINE Aside == /\ outcome = "booting" /\ made = Nothing /\ UNCHANGED <<temps, made, cuts, config>>
                      /\ step' \in 1 .. 17
                      /\ \/ outcome' = "booting" /\ faults' \in {faults, faults + 1}
                            /\ (err' = "console" \/ helper' = "reads" \/ faults' > 0)
                         \/ outcome' \in {"systemd", "returned"} /\ faults' = 0
                         \/ outcome' \in Failed /\ faults' \in {faults, faults + 1}
                            /\ (faults' > 0 \/ (config.strict /\ ~config.script))
  <2>s. ASSUME Aside PROVE TempsInv' /\ ReasonInv'
    <3>1. TempsInv'
      BY <2>s, <2>t, <2>l DEF TempsInv, Here, Failed
    <3>2. ReasonInv'
      BY <2>s, <2>t DEF ReasonInv, Failed, FailsForAReason, S!FailsForAReason
    <3> QED BY <3>1, <3>2
  <2>h. outcome = "booting" => err = "console" \/ helper = "reads" \/ faults > 0
    BY DEF ReasonInv
  <2>m. S!Order[step] \notin S!LinkSteps => made = Nothing
    BY DEF TempsInv
  <2>o. \A s \in S!LinkSteps : s \notin {"remount", "mounts", "store", "dirs", "resolv", "config", "capture",
                                         "activate", "postBoot", "finish", "kernel", "handOver"}
    BY DEF S!LinkSteps
  <2>w. step' = step /\ config' = config => S!Wanted(S!Order[step])' = S!Wanted(S!Order[step])
    BY DEF S!Wanted
  <2>1. CASE S!Remount \/ S!Mounts \/ S!Step
    <3>1. Aside
      BY <2>1, <2>t, <2>h, <2>m, <2>o, Steps
         DEF S!Remount, S!Mounts, S!Step, S!At, S!GoOn, S!Fault, S!Err, S!Restore, S!stdio, S!constant, S!linkVars, Failed
    <3> QED BY <2>s, <3>1
  <2>2. CASE S!Capture \/ S!Activate \/ S!PostBoot \/ S!Finish
    <3>1. Aside
      BY <2>2, <2>t, <2>h, <2>m, <2>o, Steps
         DEF S!Capture, S!Activate, S!PostBoot, S!Finish, S!At, S!GoOn, S!Fault, S!Err, S!Restore, S!stdio, S!constant,
             S!linkVars, S!Heard, Failed
    <3> QED BY <2>s, <3>1
  <2>3. CASE S!HandOver \/ S!Panic \/ S!SkipLink
    <3>0. S!SkipLink => made = Nothing
      BY DEF TempsInv, S!SkipLink, S!At
    <3>1. Aside
      BY <2>3, <2>t, <2>h, <2>m, <2>o, <3>0, Steps
         DEF S!HandOver, S!Panic, S!SkipLink, S!LinkSteps, S!At, S!GoOn, S!Fault, S!stdio, S!constant, S!linkVars, S!Heard, Failed
    <3> QED BY <2>s, <3>1
  \* atomic_symlink takes a temporary name for its link, or fails because there is none.
  <2>4. CASE S!MakeTemp
    <3>1. PICK s \in S!LinkSteps :
            /\ S!At(s) /\ S!Wanted(s) /\ made = Nothing
            /\ \/ /\ made' \in S!Names(S!LinkOf(s)) /\ UNCHANGED <<step, outcome, S!stdio, faults>>
                  /\ temps' = [temps EXCEPT ![S!LinkOf(s)] = @ \cup {made'}]
               \/ S!Exhausted(S!LinkOf(s)) /\ S!Err /\ UNCHANGED <<made, temps, faults>>
               \/ S!Fault /\ S!Err /\ UNCHANGED <<made, temps>>
      BY <2>4 DEF S!MakeTemp
    <3> DEFINE p == S!LinkOf(s)
    <3>p. p \in S!Links /\ p = S!LinkOf(S!Order[step]) /\ s = S!Order[step] /\ outcome = "booting"
      BY <2>l, <3>1 DEF S!LinkOf, S!LinkSteps, S!At
    <3>u. cuts' = cuts /\ config' = config
      BY <2>4 DEF S!MakeTemp, S!constant
    <3> HIDE DEF p
    <3>s. temps[p] \in SUBSET (0 .. Attempts)
      BY <2>t, <3>p
    <3>2. CASE made' \in S!Names(p) /\ temps' = [temps EXCEPT ![p] = @ \cup {made'}]
                 /\ UNCHANGED <<step, outcome, S!stdio, faults>>
      <4>1. made' \in 0 .. Attempts /\ made' \notin temps[p] /\ made' # Nothing
        BY <2>t, <3>2 DEF S!Names, S!Free
      <4>2. Cardinality(temps[p] \cup {made'}) = Cardinality(temps[p]) + 1
        BY <3>s, <4>1, Counted
      <4>w. S!Wanted(S!Order[step])'
        BY <3>1, <3>2, <3>p, <3>u DEF S!Wanted
      <4>3. \A q \in S!Links : /\ ~Here(q) /\ (Here(q)' <=> q = p)
                                /\ temps'[q] = IF q = p THEN temps[q] \cup {made'} ELSE temps[q]
        BY <2>t, <3>1, <3>2, <3>p, <4>1 DEF Here
      <4>4. temps' \in [S!Links -> SUBSET (0 .. Attempts)] /\ cuts' \in Nat /\ step' \in 1 .. 17
        BY <2>t, <3>2, <3>p, <3>u, <4>1
      <4>5. \A q \in S!Links : Cardinality(temps'[q]) <= cuts + (IF q = p THEN 1 ELSE 0)
        <5>1. \A q \in S!Links : Cardinality(temps[q]) <= cuts
          BY <2>t, <3>1, <3>p DEF TempsInv, Here
        <5>2. \A q \in S!Links \ {p} : temps'[q] = temps[q]
          BY <4>3
        <5>3. temps'[p] = temps[p] \cup {made'}
          BY <3>p, <4>3
        <5>4. Cardinality(temps'[p]) <= cuts + 1
          BY <2>t, <3>p, <4>2, <5>1, <5>3
        <5> QED BY <2>t, <5>1, <5>2, <5>4
      <4>6. \A q \in S!Volatile : temps'[q] = IF q = p THEN {made'} ELSE {}
        BY <2>l, <3>p, <4>3 DEF TempsInv
      <4>7. /\ outcome' = "booting" /\ S!Order[step]' \in S!LinkSteps /\ p = S!LinkOf(S!Order[step])'
            /\ made' \in temps'[p]
        BY <3>2, <3>p, <4>3 DEF S!Order, S!LinkOf
      <4>8. TempsInv'
        BY <2>l, <2>t, <3>u, <4>w, <4>3, <4>4, <4>5, <4>6, <4>7 DEF TempsInv
      <4>9. ReasonInv'
        BY <3>2, <3>p, <3>u DEF ReasonInv, FailsForAReason, S!FailsForAReason, S!stdio
      <4> QED BY <4>8, <4>9
    <3>3. CASE S!Exhausted(p) /\ S!Err /\ UNCHANGED <<made, temps, faults>>
      <4>1. (0 .. Attempts) \ temps[p] = {}
        BY <3>3 DEF S!Exhausted, S!Free
      <4>2. temps[p] = 0 .. Attempts /\ Cardinality(temps[p]) = Attempts + 1
        BY <2>t, <3>p, <4>1, Counted
      <4>3. p \notin S!Volatile /\ cuts > Attempts
        <5>1. ~Here(p)
          BY <3>1 DEF Here
        <5>2. temps[p] # {}
          BY <2>t, <3>p, <4>2
        <5>3. Cardinality(temps[p]) <= cuts
          BY <2>t, <3>p, <5>1 DEF TempsInv
        <5> QED BY <2>t, <3>p, <4>2, <5>1, <5>2, <5>3 DEF TempsInv
      <4>4. outcome' = "failed" /\ step' = step
        BY <3>3 DEF S!Err
      <4>5. TempsInv'
        BY <2>l, <2>t, <3>1, <3>3, <3>p, <3>u, <4>4 DEF TempsInv, Here
      <4>6. ReasonInv'
        BY <2>t, <3>3, <3>p, <3>u, <4>2, <4>3, <4>4 DEF ReasonInv, Failed, FailsForAReason, S!FailsForAReason
      <4> QED BY <4>5, <4>6
    <3>4. CASE S!Fault /\ S!Err /\ UNCHANGED <<made, temps>>
      <4>1. Aside
        BY <2>t, <3>1, <3>4, <3>p, <3>u DEF S!Fault, S!Err, Failed
      <4> QED BY <2>s, <4>1
    <3> QED BY <3>1, <3>2, <3>3, <3>4 DEF p
  \* The rename takes the name away again; if it fails, the name stays.
  <2>5. CASE S!Rename
    <3>1. PICK s \in S!LinkSteps :
            /\ S!At(s)
            /\ \/ temps' = [temps EXCEPT ![S!LinkOf(s)] = @ \ {made}] /\ S!GoOn /\ UNCHANGED <<S!stdio, faults>>
               \/ S!Fault /\ S!Err /\ UNCHANGED temps
      BY <2>5 DEF S!Rename
    <3> DEFINE p == S!LinkOf(s)
    <3>p. /\ p \in S!Links /\ p = S!LinkOf(S!Order[step]) /\ s = S!Order[step] /\ outcome = "booting"
          /\ made \in temps[p] /\ made # Nothing /\ made' = Nothing /\ cuts' = cuts /\ config' = config
      BY <2>5, <2>l, <3>1 DEF S!LinkOf, S!LinkSteps, S!At, S!Rename, S!constant, TempsInv
    <3> HIDE DEF p
    <3>s. temps[p] \in SUBSET (0 .. Attempts) /\ made \in 0 .. Attempts
      BY <2>t, <3>p
    <3>2. CASE temps' = [temps EXCEPT ![p] = @ \ {made}] /\ S!GoOn /\ UNCHANGED <<S!stdio, faults>>
      <4>1. Cardinality(temps[p] \ {made}) = Cardinality(temps[p]) - 1
        BY <3>s, <3>p, Counted
      <4>2. outcome' = outcome /\ step' = step + 1 /\ step' \in 1 .. 17
        BY <2>t, <2>o, <3>1, <3>2, <3>p, Steps DEF S!GoOn, S!Order
      <4>3. TempsInv'
        BY <2>l, <2>t, <3>2, <3>p, <4>1, <4>2 DEF TempsInv, Here
      <4>4. ReasonInv'
        BY <3>2, <3>p, <4>2 DEF ReasonInv, FailsForAReason, S!FailsForAReason, S!stdio
      <4> QED BY <4>3, <4>4
    <3>3. CASE S!Fault /\ S!Err /\ UNCHANGED temps
      <4>1. outcome' = "failed" /\ faults' = faults + 1 /\ step' = step
        BY <3>3 DEF S!Fault, S!Err
      <4>2. TempsInv'
        BY <2>l, <2>t, <3>3, <3>p, <4>1 DEF TempsInv, Here
      <4>3. ReasonInv'
        BY <2>t, <4>1 DEF ReasonInv, Failed, FailsForAReason, S!FailsForAReason
      <4> QED BY <4>2, <4>3
    <3> QED BY <3>1, <3>2, <3>3 DEF p
  <2>6. CASE S!HelperEnds
    <3>1. /\ UNCHANGED <<temps, made, cuts, config, step, outcome, err>>
          /\ \/ faults' = faults /\ err = "console"
             \/ faults' = faults + 1 /\ outcome = "booting"
      BY <2>6 DEF S!HelperEnds, S!Fault, S!constant, S!linkVars
    <3>2. TempsInv'
      BY <2>w, <3>1 DEF TempsInv, Here
    <3>3. ReasonInv'
      BY <2>t, <3>1 DEF ReasonInv, Failed, FailsForAReason, S!FailsForAReason
    <3> QED BY <3>2, <3>3
  <2>7. CASE S!PowerCut
    <3>1. /\ cuts' = cuts + 1 /\ outcome' = "off" /\ step' = 1 /\ faults' = 0 /\ made' = Nothing /\ err' = "console"
          /\ temps' = [p \in S!Links |-> IF p \in S!Volatile THEN {} ELSE temps[p]]
      BY <2>7 DEF S!PowerCut
    <3>2. \A p \in S!Links : temps'[p] = {} \/ temps'[p] = temps[p]
      BY <3>1
    <3>3. TempsInv'
      BY <2>l, <2>t, <3>1, <3>2 DEF TempsInv, Here
    <3>4. ReasonInv'
      BY <3>1 DEF ReasonInv, Failed, FailsForAReason, S!FailsForAReason
    <3> QED BY <3>3, <3>4
  <2>8. ASSUME NEW s, S!PowerOn(s) PROVE TempsInv' /\ ReasonInv'
    <3>1. /\ outcome = "off" /\ outcome' = "booting"
          /\ UNCHANGED <<temps, made, cuts, config, step, err, helper, faults>>
      BY <2>8 DEF S!PowerOn, S!linkVars, S!stdio
    <3>2. TempsInv'
      BY <2>t, <3>1 DEF TempsInv, Here
    <3>3. ReasonInv'
      BY <3>1 DEF ReasonInv, Failed, FailsForAReason, S!FailsForAReason
    <3> QED BY <3>2, <3>3
  <2>9. CASE UNCHANGED stage2Vars
    BY <2>w, <2>9 DEF stage2Vars, TempsInv, ReasonInv, Here, Failed, FailsForAReason, S!FailsForAReason
  <2> QED BY <2>1, <2>2, <2>3, <2>4, <2>5, <2>6, <2>7, <2>8, <2>9
          DEF PathNext, WhileUp, Boot, Cut, Stage2Step, S!Run, pathVars
<1>3. ReasonInv => FailsForAReason
  BY DEF ReasonInv
<1> QED BY <1>1, <1>2, <1>3, PTL DEF PathSpec
=============================================================================
