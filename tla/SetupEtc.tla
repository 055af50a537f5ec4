------------------------------ MODULE SetupEtc ------------------------------
(***************************************************************************)
(* /etc activation (src/crates/setup-etc/src/lib.rs, manifest_diff.rs): it   *)
(* makes /etc follow a generation of the configuration, and takes away what  *)
(* an earlier generation has put there.                                      *)
(*                                                                          *)
(* Passthrough links ("static") lead through /etc/static and change with it;  *)
(* copied files and direct links carry the generation they were made from.    *)
(* A manifest records copies and passthrough links, a second state file the   *)
(* direct links.  A loop over paths does one path per action, so that a run   *)
(* can stop, killed or by a failing call, between any two.                    *)
(*                                                                          *)
(* Left out: owners and modes, temporary files, /etc/NIXOS, resolv.conf, trees  *)
(* deeper than a directory and what is in it.  The smfh library, which is not *)
(* part of this repository, does what the code and the README expect of it.   *)
(***************************************************************************)
EXTENDS Naturals, FiniteSets

CONSTANTS
  Paths, Parent,          \* paths below /etc; the directory a path is in, or Top
  Top,
  Gens, Tree,             \* generations, and what each has at a path
  PerlGens,               \* generations the Perl script may have activated before
  None,
  MaxRuns, MaxStops, MaxActs  \* bounds

Leaves == {"static", "direct", "copy"}
ASSUME ConstantsOK ==
  /\ Top \notin Paths /\ Parent \in [Paths -> Paths \cup {Top}]
  /\ \A p \in Paths : Parent[p] = Top \/ Parent[Parent[p]] = Top
  /\ Tree \in [Gens -> [Paths -> Leaves \cup {"none", "dir"}]]
  /\ \A g \in Gens, p \in Paths :
       Tree[g][p] # "none" /\ Parent[p] # Top => Tree[g][p] # "dir" /\ Tree[g][Parent[p]] = "dir"
  /\ PerlGens \subseteq Gens /\ None \notin Gens
  /\ {MaxRuns, MaxStops, MaxActs} \subseteq Nat

\* "legacy" is a copy made by the Perl script, "user" a file of somebody else.
NodeType == [type : Leaves \cup {"absent", "dir", "legacy", "user"}, gen : Gens \cup {None}]
Absent    == [type |-> "absent", gen |-> None]
Dir       == [type |-> "dir", gen |-> None]
Plain(t)  == [type |-> t, gen |-> None]
Wanted(g, p) == [type |-> Tree[g][p],
                 gen |-> IF Tree[g][p] \in {"direct", "copy"} THEN g ELSE None]

VARIABLES
  etc,          \* what is at each path of /etc
  beyond,       \* paths that were written through a link, outside /etc
  static,       \* the generation /etc/static leads to
  manifest,     \* etc-manifest.json: path -> node written there, for links and copies
  directState,  \* etc-direct-symlinks.json: the same for direct links
  clean,        \* /etc/.clean of the Perl script
  pc, gen, todo,
  files, direct_symlinks,  \* the new manifest, by path
  base,         \* the old manifest smfh compares with
  outcome,      \* history: how and of what the last run ended, how often in a row;
                \* the generations tried since one was reached, and those that left
                \* a cut run behind; the paths skipped since then, and those in
                \* place then; whether the
                \* run turns a directory into a link or file or the reverse
  reached,      \* history: the last generation activated
  spent

disk   == <<etc, beyond, static, manifest, directState, clean>>
memory == <<gen, todo, files, direct_symlinks, base>>
vars   == <<disk, pc, memory, outcome, reached, spent>>

Children(p) == {q \in Paths : Parent[q] = p}
Kind(p)     == Tree[gen][p]
Through(p)  == Parent[p] # Top /\ etc[Parent[p]].type = "direct"
Put(p, n)   == etc' = [etc EXCEPT ![p] = n]

\* Mutant: only files of the manifest count.
FullyStaticLoose(p) == \A q \in Children(p) : etc[q].type # "copy"

\* is_fully_static of a directory.
FullyStatic(p) == \A q \in Children(p) : etc[q].type \in {"absent", "static"}
----------------------------------------------------------------------------
Go(where)   == pc' = where /\ UNCHANGED <<outcome, reached, spent>>
Loop(p)     == todo' = todo \ {p} /\ Go(pc) /\ UNCHANGED <<gen, base>>
Unload      == gen' = None /\ todo' = {} /\ files' = {} /\ direct_symlinks' = {}
                 /\ base' = [p \in Paths |-> Absent]

\* An error: the next run starts over.
Abort == /\ pc' = "idle" /\ Unload
         /\ outcome' = [outcome EXCEPT !.how = "failed", !.settled = 0,
                                       !.torn = @ \cup {gen}]
         /\ UNCHANGED reached

Start(g) ==
  /\ pc = "idle" /\ spent.runs < MaxRuns
  /\ pc' = "static" /\ gen' = g
  /\ outcome' = [outcome EXCEPT
                   !.goal = g, !.tried = @ \cup {g},
                   !.skipped = IF outcome.how = "ok" THEN {} ELSE @,
                   !.settled = IF g = outcome.goal THEN @ ELSE 0,
                   !.reshaped = \E p \in Paths : /\ etc[p].type # "absent"
                                                 /\ Tree[g][p] # "none"
                                                 /\ (etc[p].type = "dir") # (Tree[g][p] = "dir")]
  /\ spent' = [spent EXCEPT !.runs = @ + 1]
  /\ UNCHANGED <<disk, todo, files, direct_symlinks, base, reached>>

SwapStatic ==
  /\ pc = "static" /\ static' = gen /\ Go("dangling")
  /\ UNCHANGED <<etc, beyond, manifest, directState, clean, memory>>

\* remove_dangling_etc_symlinks
Dangling(p) == etc[p].type = "static" /\ Kind(p) \notin Leaves

RemoveDangling(p) ==
  /\ pc = "dangling" /\ Dangling(p) /\ Put(p, Absent) /\ Go("dangling")
  /\ UNCHANGED <<beyond, static, manifest, directState, clean, memory>>

EndDangling ==
  /\ pc = "dangling" /\ \A p \in Paths : ~Dangling(p)
  /\ todo' = {p \in Paths : Kind(p) # "none"} /\ Go("build")
  /\ UNCHANGED <<disk, gen, files, direct_symlinks, base>>

\* A directory that cannot be made is skipped with everything in it.
SkippedWith(p) == {p} \cup Children(p)

\* A directory gives way to a file or link if all that is in it leads to /etc/static.
Room(p)    == etc[p].type = "dir" => FullyStatic(p)
Cleared(p) == [q \in Paths |-> IF etc[p].type = "dir" /\ q \in {p} \cup Children(p)
                                  THEN Absent ELSE etc[q]]

\* build_etc_manifest, one entry: directories are made here, and those that give way
\* to a link removed.
AddEntry(p) ==
  IF Kind(p) = "direct" THEN direct_symlinks' = direct_symlinks \cup {p} /\ UNCHANGED files
                        ELSE files' = files \cup {p} /\ UNCHANGED direct_symlinks

BuildEntry(p) ==
  /\ pc = "build" /\ p \in todo /\ Parent[p] \notin todo
  /\ \/ /\ Kind(p) = "dir" /\ etc[p].type \in {"absent", "dir", "static", "direct"}
        /\ Put(p, IF etc[p] = Absent THEN Dir ELSE etc[p])
        /\ Loop(p) /\ UNCHANGED <<files, direct_symlinks>>
     \/ /\ Kind(p) = "dir" /\ etc[p].type \in {"copy", "legacy", "user"}
        /\ todo' = todo \ SkippedWith(p) /\ Go("build")
        /\ UNCHANGED <<etc, gen, base, files, direct_symlinks>>
     \/ /\ Kind(p) # "dir" /\ Room(p)
        /\ etc' = Cleared(p) /\ AddEntry(p) /\ Loop(p)
     \/ /\ Kind(p) # "dir" /\ ~Room(p)
        /\ Loop(p) /\ UNCHANGED <<etc, files, direct_symlinks>>
  /\ UNCHANGED <<beyond, static, manifest, directState, clean>>

\* An entry with an unknown owner or an unreadable mode is left out with a warning.
SkipEntry(p) ==
  /\ pc = "build" /\ p \in todo /\ Parent[p] \notin todo /\ Kind(p) = "copy"
  /\ Room(p) /\ etc' = Cleared(p)
  /\ spent.stops < MaxStops /\ spent' = [spent EXCEPT !.stops = @ + 1]
  /\ outcome' = [outcome EXCEPT !.skipped = @ \cup {p}]
  /\ todo' = todo \ {p} /\ pc' = pc
  /\ UNCHANGED <<beyond, static, manifest, directState, clean,
                 gen, files, direct_symlinks, base, reached>>

\* Mutant: paths that are direct links now are still in the base.
DiffBaseWhole == manifest

\* DiffBase::prepare: smfh is not to take away what is a direct link now.
DiffBase == [p \in Paths |-> IF p \in direct_symlinks THEN Absent ELSE manifest[p]]

Prepare ==
  /\ pc = "build" /\ todo = {}
  /\ base' = DiffBase
  /\ todo' = files \cup {p \in Paths : base'[p] # Absent} /\ Go("diff")
  /\ UNCHANGED <<disk, gen, files, direct_symlinks>>

\* One entry of smfh's diff: made or replaced, or taken away if it is still what the
\* old manifest says.
Diff(p) ==
  /\ pc = "diff" /\ p \in todo
  /\ \/ /\ p \in files /\ Through(p)
        /\ beyond' = beyond \cup {p} /\ UNCHANGED etc
     \/ /\ p \in files /\ ~Through(p)
        /\ Put(p, Wanted(gen, p)) /\ UNCHANGED beyond
     \/ /\ p \notin files /\ etc[p] = base[p]
        /\ Put(p, Absent) /\ UNCHANGED beyond
     \/ /\ p \notin files /\ etc[p] # base[p]
        /\ UNCHANGED <<etc, beyond>>
  /\ Loop(p) /\ UNCHANGED <<static, manifest, directState, clean, files, direct_symlinks>>

EndDiff ==
  /\ pc = "diff" /\ todo = {}
  /\ todo' = {p \in Paths : directState[p] # Absent} /\ Go("old links")
  /\ UNCHANGED <<disk, gen, files, direct_symlinks, base>>

\* activate_direct_symlinks, first loop: a link nobody has replaced.
Obsolete(p) == p \notin direct_symlinks /\ etc[p] = directState[p]

RemoveOldLink(p) ==
  /\ pc = "old links" /\ p \in todo
  /\ Put(p, IF Obsolete(p) THEN Absent ELSE etc[p])
  /\ Loop(p)
  /\ UNCHANGED <<beyond, static, manifest, directState, clean, files, direct_symlinks>>

EndOldLinks ==
  /\ pc = "old links" /\ todo = {}
  /\ todo' = direct_symlinks /\ Go("new links")
  /\ UNCHANGED <<disk, gen, files, direct_symlinks, base>>

\* Second loop: the rename of a link over a directory fails.
MakeLink(p) ==
  LET missing == {q \in {Parent[p]} \cap Paths : etc[q] = Absent}
  IN /\ pc = "new links" /\ p \in todo
     /\ \/ /\ Through(p) /\ beyond' = beyond \cup {p}
           /\ Loop(p) /\ UNCHANGED <<etc, files, direct_symlinks>>
        \/ /\ ~Through(p) /\ etc[p].type # "dir"
           /\ etc' = [q \in Paths |-> IF q = p THEN Wanted(gen, p)
                                      ELSE IF q \in missing THEN Dir ELSE etc[q]]
           /\ Loop(p) /\ UNCHANGED <<beyond, files, direct_symlinks>>
     /\ UNCHANGED <<static, manifest, directState, clean>>

\* Mutant: copied files are not on record.
RecordedLinks(S) == [p \in Paths |-> IF p \in S /\ Kind(p) # "copy" THEN Wanted(gen, p) ELSE Absent]

Recorded(S) == [p \in Paths |-> IF p \in S THEN Wanted(gen, p) ELSE Absent]

CommitManifest ==
  /\ pc = "new links" /\ todo = {}
  /\ manifest' = Recorded(files) /\ Go("commit")
  /\ UNCHANGED <<etc, beyond, static, directState, clean, memory>>

CommitDirect ==
  /\ pc = "commit" /\ directState' = Recorded(direct_symlinks)
  /\ todo' = clean /\ Go("migrate")
  /\ UNCHANGED <<etc, beyond, static, manifest, clean, gen, files, direct_symlinks, base>>

\* Mutant: the files the configuration still has are removed with the others.
StaleAll == clean

\* What the Perl script has left and the configuration does not have any more.
Stale == clean \ (files \cup direct_symlinks)

\* migrate_perl_clean_file
Migrate(p) ==
  /\ pc = "migrate" /\ p \in todo
  /\ Put(p, IF p \in Stale /\ etc[p].type # "dir" THEN Absent ELSE etc[p])
  /\ Loop(p)
  /\ UNCHANGED <<beyond, static, manifest, directState, clean, files, direct_symlinks>>

Finish ==
  /\ pc = "migrate" /\ todo = {}
  /\ clean' = {} /\ pc' = "idle" /\ Unload /\ reached' = gen
  /\ outcome' = [outcome EXCEPT !.how = "ok", !.settled = IF @ < 2 THEN @ + 1 ELSE @,
                   !.tried = {}, !.shown = {p \in Paths : Tree[gen][p] # "none" /\ etc[p] = Wanted(gen, p)},
                   !.torn = IF @ \subseteq {gen} /\ outcome.skipped = {} THEN {} ELSE @]
  /\ UNCHANGED <<etc, beyond, static, manifest, directState, spent>>
----------------------------------------------------------------------------
Stop == /\ pc # "idle" /\ spent.stops < MaxStops
        /\ spent' = [spent EXCEPT !.stops = @ + 1]
        /\ Abort /\ UNCHANGED disk

\* Somebody puts a file where there is a plain directory to put it in.
AdminWrite(p) ==
  /\ pc = "idle" /\ spent.acts < MaxActs
  /\ (Parent[p] # Top => etc[Parent[p]].type = "dir")
  /\ etc[p].type # "dir"
  /\ Put(p, Plain("user"))
  /\ spent' = [spent EXCEPT !.acts = @ + 1]
  /\ outcome' = [outcome EXCEPT !.settled = 0]
  /\ UNCHANGED <<beyond, static, manifest, directState, clean, pc, memory, reached>>

\* A new machine, or one the Perl script has activated; it has listed its copies, and its direct
\* links or not (the README says that it only tracked copies).
PerlNode(g, p) == IF Tree[g][p] = "copy" THEN Plain("legacy") ELSE Plain(Tree[g][p])
Init ==
  /\ \E g \in PerlGens \cup {None}, linksToo \in BOOLEAN :
       /\ static = g
       /\ etc = [p \in Paths |-> IF g = None THEN Absent
                                 ELSE IF Tree[g][p] = "none" THEN Absent
                                 ELSE PerlNode(g, p)]
       /\ clean = {p \in Paths : etc[p].type = "legacy" \/ (linksToo /\ etc[p].type = "direct")}
  /\ beyond = {}
  /\ manifest = [p \in Paths |-> Absent] /\ directState = [p \in Paths |-> Absent]
  /\ pc = "idle" /\ gen = None /\ todo = {} /\ files = {} /\ direct_symlinks = {}
  /\ base = [p \in Paths |-> Absent]
  /\ outcome = [how |-> "none", goal |-> None, settled |-> 0, tried |-> {}, torn |-> {}, shown |-> {},
                skipped |-> {}, reshaped |-> FALSE]
  /\ reached = None
  /\ spent = [runs |-> 0, stops |-> 0, acts |-> 0]

Step == \/ SwapStatic \/ EndDangling \/ Prepare \/ EndDiff \/ EndOldLinks
        \/ CommitManifest \/ CommitDirect \/ Finish
        \/ \E p \in Paths : \/ RemoveDangling(p) \/ BuildEntry(p) \/ SkipEntry(p)
                            \/ Diff(p) \/ RemoveOldLink(p) \/ MakeLink(p) \/ Migrate(p)
Next == \/ \E g \in Gens : Start(g)
        \/ Step
        \/ Stop \/ \E p \in Paths : AdminWrite(p)

Spec == Init /\ [][Next]_vars
----------------------------------------------------------------------------
(* Properties.                                                              *)

TypeOK ==
  /\ etc \in [Paths -> NodeType] /\ beyond \subseteq Paths /\ static \in Gens \cup {None}
  /\ manifest \in [Paths -> NodeType] /\ directState \in [Paths -> NodeType]
  /\ clean \subseteq Paths
  /\ pc \in {"idle", "static", "dangling", "build", "diff", "old links", "new links",
             "commit", "migrate"}
  /\ gen \in Gens \cup {None} /\ (pc # "idle" => gen \in Gens)
  /\ todo \subseteq Paths /\ files \subseteq Paths /\ direct_symlinks \subseteq Paths
  /\ base \in [Paths -> NodeType] /\ reached \in Gens \cup {None}
  /\ \A p \in Paths : Parent[p] # Top /\ etc[Parent[p]].type # "dir" => etc[p] = Absent

Reached == pc = "idle" /\ outcome.how = "ok" /\ outcome.settled > 0

\* What is on no record of this program: a file of somebody else, and a direct link the Perl
\* script has made, which /etc/.clean need not list.
Foreign(p) == etc[p] \in {Plain("user"), Plain("direct")}

\* It lies where the generation wants a directory, or the reverse.
Blocked(p) ==
  \/ Foreign(p)
  \/ etc[p].type = "dir" /\ \E q \in Children(p) : Foreign(q)
  \/ Parent[p] # Top /\ Foreign(Parent[p])
InPlace(p) == etc[p] = Wanted(reached, p)
AllInPlace == \A p \in Paths : Tree[reached][p] # "none" =>
                InPlace(p) \/ p \in outcome.skipped \/ Blocked(p)

\* After an activation every entry of the generation is in /etc (README: the manifest
\* "is the source of truth for what nixos-core has written into /etc"), if it turned
\* no file or link into a directory and no directory into a link, or was done twice and
\* no run that was cut had been followed by another generation.
Faithful ==
  Reached /\ (~outcome.reshaped \/ (outcome.settled = 2 /\ outcome.torn = {})) => AllInPlace

\* After an activation nothing an earlier one has made is left at a path that the
\* generation does not have, unless a run that was cut has been followed by another generation,
\* or the path is a direct link of the Perl script's.
NoOrphans ==
  Reached /\ outcome.torn = {} =>
    \A p \in Paths : Tree[reached][p] = "none" => etc[p].type \notin Leaves \/ Foreign(p)

\* After an activation no link into /etc/static dangles, whatever runs were cut before
\* (remove_dangling_etc_symlinks: "a safety net").
NoDanglingLinks ==
  Reached => \A p \in Paths : etc[p].type = "static" => Tree[static][p] \in Leaves

\* /etc shows the generation that was activated, and what it shows is there.
GenerationShown == Faithful /\ NoDanglingLinks

\* A path that was in place when a generation was reached, and that every generation
\* tried since has as a file or link too, shows one of them at all times: there is no
\* moment without it (README: "steady-state updates keep each path fully old or fully
\* new").
Shows(p) == IF etc[p].type = "static" THEN static ELSE etc[p].gen
OldOrNew ==
  reached # None =>
    \A p \in outcome.shown \ outcome.skipped :
      (\A g \in {reached} \cup outcome.tried : Tree[g][p] \in Leaves) =>
        Blocked(p) \/ Shows(p) \in {reached} \cup outcome.tried

\* A file of somebody else is only ever replaced by an entry of the generation at the
\* very path, or removed because the Perl script has listed it.
UserFilesKept ==
  pc # "idle" => \A p \in Paths :
    etc[p].type = "user" /\ p \notin clean /\ Tree[gen][p] \notin Leaves
      => etc'[p] = etc[p]

\* A file of the Perl script goes only once the manifest is committed ...
LegacyGoesLast ==
  \A p \in Paths : etc[p].type = "legacy" /\ etc'[p] = Absent => pc = "migrate"

\* ... and is gone when the run has succeeded (README: "keeps migration retry-safe").
LegacyGone == Reached => \A p \in Paths : etc[p].type # "legacy" \/ Tree[reached][p] # "none"

\* Of earlier generations, those of the Perl script included but for their direct links, nothing
\* stays that nobody asked for;
NothingStays == NoOrphans /\ LegacyGone

\* ... and what is not ours, or still the only copy, goes only then.
OthersKept == [][UserFilesKept /\ LegacyGoesLast]_vars
=============================================================================
