----------------------------- MODULE InitScript -----------------------------
(***************************************************************************)
(* init-script-builder: it lists the configurations of the machine, and      *)
(* replaces /sbin/init, which starts one of them, and the list beside the    *)
(* kernel.  One action per file it looks at and per call that changes one;   *)
(* it may be killed between any two, and links to generations come and go    *)
(* meanwhile.                                                                *)
(***************************************************************************)
EXTENDS Integers, FiniteSets, Sequences

CONSTANTS
  Systems,          \* built configurations, in the store
  Specialisations,  \* what is in <system-dir>/specialisation and has an init
  Modules,          \* the systems whose kernel has its modules where they are looked for
  NoFile, Nothing,
  MaxGen,           \* bound: links to generations made
  MaxFails          \* bound: failing calls and kills

ASSUME BuilderOK ==
  /\ Modules \subseteq Systems /\ Nothing \notin Systems \cup Specialisations
  /\ Systems \cap Specialisations = {}
  /\ MaxGen \in Nat /\ MaxFails \in Nat

File == [does : Systems \cup {Nothing}, entries : Seq([gen : Nat, system : Systems \cup Specialisations]),
         whole : BOOLEAN, mode : {"plain", "exec"}]
ASSUME NoFileOK == NoFile \notin File

VARIABLES
  at,       \* the place in the builder
  default,  \* its argument
  todo,     \* the directory entries not yet looked at
  entries,  \* the configurations found
  profile,  \* /nix/var/nix/profiles: what each system-<n>-link points to
  sbin,     \* /sbin/init and init.tmp
  menu,     \* init-other-configurations-contents.txt and its .tmp
  fails,
  wanted,   \* history: the default of the last run that was completed and of those after it
  kept,     \* history: during a run, the generations linked ever since it began
  seen      \* history: ... and at some time of it

runVars == <<at, default, todo, entries>>
fileVars == <<sbin, menu>>
histVars == <<wanted, kept, seen>>
builderVars == <<runVars, profile, fileVars, fails, histVars>>

Gens == DOMAIN profile
Empty == [does |-> Nothing, entries |-> <<>>, whole |-> FALSE, mode |-> "plain"]

Init ==
  /\ at = "idle" /\ default = Nothing /\ todo = {} /\ entries = <<>>
  /\ profile \in [{1} -> Systems]
  /\ sbin = [file |-> NoFile, tmp |-> NoFile] /\ menu = [file |-> NoFile, tmp |-> NoFile]
  /\ fails = 0 /\ wanted = {} /\ kept = {} /\ seen = {}

Fails == fails < MaxFails /\ fails' = fails + 1
To(next) == at' = next /\ UNCHANGED <<default, todo, entries, kept, seen>>
Ends == at' = "idle" /\ default' = Nothing /\ todo' = {} /\ entries' = <<>> /\ kept' = {} /\ seen' = {}
----------------------------------------------------------------------------
\* run: the default comes first.
Start ==
  /\ at = "idle" /\ \E n \in Gens : default' = profile[n]
  /\ at' = "specialisations" /\ todo' = Specialisations
  /\ entries' = <<[gen |-> 0, system |-> default']>>
  /\ wanted' = wanted \cup {default'} /\ kept' = Gens /\ seen' = Gens
  /\ UNCHANGED <<profile, fileVars, fails>>

\* add_specialisations: in the order of the directory, which is any.
AddSpecialisation ==
  /\ at = "specialisations"
  /\ IF todo = {} THEN at' = "generations" /\ todo' = Gens /\ UNCHANGED entries
     ELSE \E s \in todo :
            /\ entries' = Append(entries, [gen |-> 0, system |-> s])
            /\ todo' = todo \ {s} /\ UNCHANGED at
  /\ UNCHANGED <<default, profile, fileVars, fails, histVars>>

\* add_generations: a link that has gone meanwhile, or whose label cannot be made, is
\* skipped.  Then the order: sorting is stable, and no two have one number.
\* Mutant: the directory's order is kept.
SortedNot(s) == s
Sorted(s) ==
  LET rank(k) ==
        IF s[k].gen = 0 THEN Cardinality({j \in 1 .. k : s[j].gen = 0})
        ELSE Cardinality({j \in DOMAIN s : s[j].gen = 0 \/ s[j].gen >= s[k].gen})
  IN [r \in DOMAIN s |-> s[CHOOSE k \in DOMAIN s : rank(k) = r]]

Listed(n) == n \in Gens /\ profile[n] \in Modules
AddGeneration ==
  /\ at = "generations"
  /\ IF todo = {} THEN at' = "create" /\ entries' = Sorted(entries) /\ UNCHANGED todo
     ELSE \E n \in todo :
            /\ entries' = IF Listed(n) THEN Append(entries, [gen |-> n, system |-> profile[n]])
                          ELSE entries
            /\ todo' = todo \ {n} /\ UNCHANGED at
  /\ UNCHANGED <<default, profile, fileVars, fails, histVars>>

\* An error before anything is written: /boot or /sbin cannot be made, or a directory not read.
ReadFails ==
  /\ at \in {"specialisations", "generations"} /\ Fails /\ Ends
  /\ UNCHANGED <<profile, fileVars, wanted>>
----------------------------------------------------------------------------
\* write_init_files: each file is made beside its place and renamed; File::create
\* truncates what a killed run has left.  The launcher is made executable first.
CreateInit ==
  /\ at = "create" /\ To("write") /\ sbin' = [sbin EXCEPT !.tmp = Empty]
  /\ UNCHANGED <<profile, menu, fails, wanted>>
\* Mutant: it is not made executable.
WriteInitOnly ==
  /\ at = "write" /\ To("rename")
  /\ sbin' = [sbin EXCEPT !.tmp.does = default, !.tmp.whole = TRUE]
  /\ UNCHANGED <<profile, menu, fails, wanted>>
WriteInit ==
  /\ at = "write" /\ To("chmod")
  /\ sbin' = [sbin EXCEPT !.tmp.does = default, !.tmp.whole = TRUE]
  /\ UNCHANGED <<profile, menu, fails, wanted>>
Chmod ==
  /\ at = "chmod" /\ To("rename") /\ sbin' = [sbin EXCEPT !.tmp.mode = "exec"]
  /\ UNCHANGED <<profile, menu, fails, wanted>>
RenameInit ==
  /\ at = "rename" /\ To("list") /\ sbin' = [file |-> sbin.tmp, tmp |-> NoFile]
  /\ UNCHANGED <<profile, menu, fails, wanted>>

CreateList ==
  /\ at = "list" /\ To("writeList") /\ menu' = [menu EXCEPT !.tmp = Empty]
  /\ UNCHANGED <<profile, sbin, fails, wanted>>
WriteList ==
  /\ at = "writeList" /\ To("renameList")
  /\ menu' = [menu EXCEPT !.tmp.entries = entries, !.tmp.whole = TRUE]
  /\ UNCHANGED <<profile, sbin, fails, wanted>>
RenameList ==
  /\ at = "renameList" /\ To("done") /\ menu' = [file |-> menu.tmp, tmp |-> NoFile]
  /\ wanted' = {default}
  /\ UNCHANGED <<profile, sbin, fails>>
Exit == at = "done" /\ Ends /\ UNCHANGED <<profile, fileVars, fails, wanted>>

\* An error while one of them is written: its temporary file is removed.
WriteFails ==
  /\ Fails /\ Ends
  /\ \/ at \in {"create", "write", "chmod", "rename"} /\ sbin' = [sbin EXCEPT !.tmp = NoFile] /\ UNCHANGED menu
     \/ at \in {"list", "writeList", "renameList"} /\ menu' = [menu EXCEPT !.tmp = NoFile] /\ UNCHANGED sbin
  /\ UNCHANGED <<profile, wanted>>

\* A kill leaves it, cut short as it may be.
Killed ==
  /\ at # "idle" /\ Fails /\ Ends
  /\ UNCHANGED <<profile, fileVars, wanted>>
----------------------------------------------------------------------------
\* nixos-rebuild makes a generation; nix-collect-garbage removes one, but none that
\* /sbin/init may still be about to start.
Newest == CHOOSE n \in Gens : \A g \in Gens : g <= n
Install ==
  /\ Newest < MaxGen
  /\ \E s \in Systems : profile' = [g \in Gens \cup {Newest + 1} |-> IF g \in Gens THEN profile[g] ELSE s]
  /\ seen' = IF at = "idle" THEN seen ELSE seen \cup {Newest + 1}
  /\ UNCHANGED <<runVars, fileVars, fails, wanted, kept>>
Collect ==
  /\ \E n \in Gens :
       /\ profile[n] \notin wanted /\ Gens # {n}
       /\ profile' = [g \in Gens \ {n} |-> profile[g]]
       /\ kept' = kept \ {n}
  /\ UNCHANGED <<runVars, fileVars, fails, wanted, seen>>

Builder == Start \/ AddSpecialisation \/ AddGeneration \/ ReadFails \/ CreateInit \/ WriteInit
             \/ Chmod \/ RenameInit \/ CreateList \/ WriteList \/ RenameList \/ Exit \/ WriteFails
Next == Builder \/ Killed \/ Install \/ Collect
Spec == Init /\ [][Next]_builderVars
----------------------------------------------------------------------------
BuilderTypeOK ==
  /\ at \in {"idle", "specialisations", "generations", "create", "write", "chmod", "rename",
             "list", "writeList", "renameList", "done"}
  /\ default \in Systems \cup {Nothing} /\ todo \subseteq Specialisations \cup 1 .. MaxGen
  /\ Gens \subseteq 1 .. MaxGen /\ \A n \in Gens : profile[n] \in Systems
  /\ sbin \in [{"file", "tmp"} -> File \cup {NoFile}] /\ menu \in [{"file", "tmp"} -> File \cup {NoFile}]
  /\ wanted \subseteq Systems

\* What the machine would boot is always a whole, executable launcher of a configuration
\* that was asked for: of the last completed run, or of one that was cut short since.
LauncherWhole ==
  sbin.file # NoFile => sbin.file.whole /\ sbin.file.mode = "exec" /\ sbin.file.does \in wanted

\* The list is whole, begins with a configuration asked for, has the generations
\* newest first and none twice; when a run completes, it and the launcher agree, every
\* generation with a label that was there all the time is in it, and none that was never there.
InOrder(s) ==
  /\ s[1].gen = 0 /\ s[1].system \in wanted
  /\ \A j, k \in DOMAIN s : j < k => s[j].gen = 0 \/ (s[j].gen > s[k].gen /\ s[k].gen # 0)
MenuRight ==
  /\ menu.file # NoFile => menu.file.whole /\ InOrder(menu.file.entries)
  /\ at = "done" =>
       LET listed == {menu.file.entries[k].gen : k \in DOMAIN menu.file.entries} \ {0}
       IN /\ menu.file.entries[1].system = sbin.file.does
          /\ {n \in kept : profile[n] \in Modules} \subseteq listed /\ listed \subseteq seen
=============================================================================
