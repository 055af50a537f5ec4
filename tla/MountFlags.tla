----------------------------- MODULE MountFlags -----------------------------
(***************************************************************************)
(* The flags of the mounts at one path, through the hands of the programs    *)
(* that set them: stage 1 mounts filesystems and binds there, stage 2        *)
(* remounts the root or covers /nix/store with a bind of itself, the         *)
(* persistence utility binds an entry and applies its mount options.         *)
(*                                                                           *)
(* Each of them turns words into MS_ flags in its own way, and the kernel    *)
(* reads the flags of a remount as the whole truth, but for the access time  *)
(* ones, which it keeps when none of them is given.  What is no flag to a     *)
(* program it hands to the filesystem, which a bind mount never asks.        *)
(***************************************************************************)
EXTENDS Naturals, Sequences, SequencesExt

CONSTANTS
  FsWords,     \* sets of words stage 1 may be given for a filesystem
  StoreOpts,   \* sets of words --nix-store-mount-opts may hold
  EntryWords,  \* words an entry's mountOptions may hold
  RootFlags,   \* flags the root may have under a store that is not mounted apart
  MaxWords,    \* bound: words of an entry
  MaxMounts    \* bound: filesystems mounted over one another at /nix/store

\* Flags of a mount; strictatime is a word only, its flag the absence of the others.
Plain == {"ro", "nosuid", "nodev", "noexec", "nosymfollow"}
Mode  == {"noatime", "relatime", "strictatime"}
Atime == Mode \cup {"nodiratime"}
Flags == (Plain \cup Atime) \ {"strictatime"}

ASSUME FlagsOK ==
  /\ FsWords \subseteq SUBSET (Plain \cup Atime) /\ RootFlags \subseteq SUBSET Flags
  /\ StoreOpts \subseteq SUBSET STRING
  /\ MaxWords \in Nat /\ MaxMounts \in Nat \ {0}

VARIABLES
  place,   \* "root", "store" or "entry": which path this is about
  stack,   \* the flags of the mounts there, the lowest first
  words,   \* the words of an entry parsed so far, and
  parsed,  \* what MountOptions holds of them: flags to set, flags to clear
  source,  \* the flags of the mount that was bound here
  procMounts,  \* /proc/mounts can be read
  done, failed \* stage 2 or the utility is through with it; a call of stage 2 failed

vars == <<place, stack, words, parsed, source, procMounts, done, failed>>
----------------------------------------------------------------------------
\* The kernel. Flags of a fresh mount: relatime unless another mode is asked for. (ro is
\* the mount's; that a filesystem mounted so is itself read-only, whatever
\* a bind of it says, is left out.)
Fresh(given) ==
  (given \cap (Plain \cup {"nodiratime"}))
    \cup (CASE "strictatime" \in given -> {}
            [] "noatime" \in given /\ "strictatime" \notin given -> {"noatime"}
            [] OTHER -> {"relatime"})

\* ... and of a remount, which keeps the access time flags only if none is given.
Remount(old, given) ==
  IF given \cap Atime = {} THEN (given \cap Plain) \cup (old \cap Atime) ELSE Fresh(given)

ModeOf(flags) == IF "noatime" \in flags THEN "noatime"
                 ELSE IF "relatime" \in flags THEN "relatime" ELSE "strictatime"
----------------------------------------------------------------------------
\* stage 1, parse_mount_options: words add flags and take none away; nosymfollow is
\* data for the filesystem, which only a bind mount ignores.
ParseMountOptions(ws) == ws \ {"nosymfollow"}

\* stage 2, remount_flags_from_options.
RemountFlags(opts) == opts \cap ((Plain \cup Atime) \ {"ro", "nosymfollow"})

\* stage 2, get_mount_options: the first line of /proc/mounts is the lowest mount. An
\* error, for want of the file or of a line in it, is no options to those who ask.
GetMountOptions(s) ==
  IF s = <<>> \/ ~procMounts THEN {} ELSE Head(s) \cup (IF "ro" \in Head(s) THEN {} ELSE {"rw"})

\* What a bind of the store clones: the topmost mount, or the root it is on.
Top(s) == IF s = <<>> THEN source ELSE Last(s)

\* Mutant: a store on the root has the options of the root.
MissingInherited(s, desired) == desired \ (IF s = <<>> THEN source ELSE Head(s))
Missing(s, desired) == desired \ GetMountOptions(s)

\* stage 2, opt_to_flag: the options of the store it knows. The others, relatime and
\* nosymfollow among them, are data, which a bind remount ignores.
OptToFlag == [opt \in {"nosuid", "noexec", "nodev", "ro", "rdonly", "noatime", "nodiratime"} |->
  IF opt = "rdonly" THEN "ro" ELSE opt]
StoreFlags(opts) == {OptToFlag[o] : o \in opts \cap DOMAIN OptToFlag}

\* persistence, mount_options.rs.
SetFlags(p, mask, value) ==
  [set |-> (p.set \ mask) \cup value, clear |-> (p.clear \cup mask) \ value]

Negation == [w \in {"rw", "suid", "dev", "exec", "symfollow", "diratime",
                    "atime", "norelatime", "nostrictatime"} |->
  CASE w = "rw" -> "ro"            [] w = "suid" -> "nosuid"    [] w = "dev" -> "nodev"
    [] w = "exec" -> "noexec"      [] w = "symfollow" -> "nosymfollow"
    [] w = "diratime" -> "nodiratime" [] w = "atime" -> "noatime"
    [] w = "norelatime" -> "relatime" [] OTHER -> "strictatime"]
Negative == DOMAIN Negation

\* Mutant: a word that takes a flag back does not undo an earlier one that gave it.
ParseOptionKept(p, w) ==
  CASE w \in Mode -> SetFlags(p, Mode, {w})
    [] w \in Negative -> [p EXCEPT !.clear = @ \cup {Negation[w]}]
    [] w \in Plain \cup {"nodiratime"} -> SetFlags(p, {w}, {w})
    [] OTHER -> p
ParseOption(p, w) ==
  CASE w \in Mode -> SetFlags(p, Mode, {w})
    [] w \in Negative -> SetFlags(p, {Negation[w]}, {})
    [] w \in Plain \cup {"nodiratime"} -> SetFlags(p, {w}, {w})
    [] OTHER -> p  \* defaults and x-: no flags

\* mountinfo has no word for strictatime.
MountinfoFlags(flags) ==
  flags \cup (IF flags \cap {"noatime", "relatime"} = {} THEN {"strictatime"} ELSE {})

\* apply: no remount when the words name no flag.
Apply(p, flags) ==
  IF p.set \cup p.clear = {} THEN flags
  ELSE Remount(flags, (MountinfoFlags(flags) \ p.clear) \cup p.set)
----------------------------------------------------------------------------
Init ==
  /\ place \in {"root", "store", "entry"}
  /\ stack = <<>> /\ words = <<>> /\ parsed = [set |-> {}, clear |-> {}]
  /\ source \in RootFlags /\ procMounts \in BOOLEAN /\ done = FALSE /\ failed = FALSE

\* stage 1 mounts a filesystem, or binds one and remounts it with the options. That
\* the remount fails is a warning: the bind stays.
MountFilesystem ==
  /\ ~done /\ words = <<>>
  /\ Len(stack) < IF place = "store" THEN MaxMounts ELSE 1
  /\ \E ws \in FsWords : stack' = Append(stack, Fresh(ParseMountOptions(ws)))
  /\ UNCHANGED <<place, words, parsed, source, procMounts, done, failed>>

BindFilesystem ==
  /\ ~done /\ words = <<>> /\ place = "store" /\ Len(stack) < MaxMounts
  /\ \/ stack' = Append(stack, source)
     \/ \E ws \in FsWords :
          stack' = Append(stack, Remount(source, ParseMountOptions(ws)))
  /\ UNCHANGED <<place, words, parsed, source, procMounts, done, failed>>

\* stage 2, remount_root_rw. That the remount fails ends the boot.
RemountRoot ==
  /\ ~done /\ place = "root" /\ stack # <<>>
  /\ source' = Last(stack)
  /\ \/ /\ stack' = <<Remount(stack[1], RemountFlags(GetMountOptions(stack)))>>
        /\ failed' = FALSE
     \/ failed' = TRUE /\ UNCHANGED stack
  /\ done' = TRUE
  /\ UNCHANGED <<place, words, parsed, procMounts>>

\* stage 2, apply_nix_store_mount_opts: a bind of the store over itself that is
\* remounted with what is missing, unless nothing is. That the one or the other
\* fails is a warning, and what was done by then stays.
SetupStore(desired) ==
  /\ ~done /\ place = "store"
  /\ LET missing == Missing(stack, desired)
     IN \/ missing = {} /\ failed' = FALSE /\ UNCHANGED stack
        \/ /\ missing # {} /\ failed' = FALSE
           /\ stack' = Append(stack, Remount(Top(stack), StoreFlags(missing)))
        \/ /\ missing # {} /\ failed' = TRUE
           /\ stack' \in {stack, Append(stack, Top(stack))}
  /\ done' = TRUE
  /\ UNCHANGED <<place, words, parsed, source, procMounts>>

\* persistence: the next word of the options, and the bind with the options applied
\* (a bind whose options cannot be is taken back: Persistence has that).
AddOption(w) ==
  /\ ~done /\ place = "entry" /\ stack # <<>> /\ Len(words) < MaxWords
  /\ words' = Append(words, w) /\ parsed' = ParseOption(parsed, w)
  /\ UNCHANGED <<place, stack, source, procMounts, done, failed>>

BindEntry ==
  /\ ~done /\ place = "entry" /\ stack # <<>>
  /\ source' = Last(stack)
  /\ stack' = Append(stack, Apply(parsed, Last(stack)))
  /\ done' = TRUE
  /\ UNCHANGED <<place, words, parsed, procMounts, failed>>

Next ==
  \/ MountFilesystem \/ BindFilesystem \/ RemountRoot
  \/ \E desired \in StoreOpts : SetupStore(desired)
  \/ \E w \in EntryWords : AddOption(w)
  \/ BindEntry

Spec == Init /\ [][Next]_vars
----------------------------------------------------------------------------
TypeOK ==
  /\ place \in {"root", "store", "entry"}
  /\ procMounts \in BOOLEAN /\ done \in BOOLEAN /\ failed \in BOOLEAN
  /\ stack \in Seq(SUBSET Flags) /\ source \in SUBSET Flags
  /\ words \in Seq(EntryWords)
  /\ parsed \in [set : SUBSET (Flags \cup {"strictatime"}), clear : SUBSET (Flags \cup {"strictatime"})]

\* Word i of the entry is about flag f; none after it is.
About(w, f) == w = f \/ (w \in Negative /\ Negation[w] = f)
LastAbout(f, i) ==
  About(words[i], f) /\ \A j \in i + 1 .. Len(words) : ~About(words[j], f)

\* The words leave the mount without a mode: they take the one it has back.
Modeless ==
  LET given == ((source \cup {ModeOf(source)}) \ parsed.clear) \cup parsed.set
  IN given \cap Mode = {}

Projected == place = "entry" /\ done

\* Of the words about a flag the last one wins; a flag no word is about is what it was
\* on the source. (The exception: with the mode of the access times taken back
\* nothing may be given for them, and the kernel keeps all of them, nodiratime too.)
LastOptionWins ==
  Projected =>
    \A f \in Plain \cup {"nodiratime"} :
      (f = "nodiratime" => ~Modeless) =>
        \/ \E i \in 1 .. Len(words) : LastAbout(f, i) /\ (f \in Last(stack)) = (words[i] = f)
        \/ (\A i \in 1 .. Len(words) : ~About(words[i], f)) /\ (f \in Last(stack)) = (f \in source)

\* The mode of the access times is the last one asked for, or else the one the source
\* has, strictatime included, which mountinfo does not name. (Taking a mode back
\* has no effect: the kernel has no mode to put in its place.)
AtimeMode ==
  Projected /\ ~Modeless =>
      \/ \E i \in 1 .. Len(words) : /\ words[i] \in Mode /\ ModeOf(Last(stack)) = words[i]
                                    /\ \A j \in i + 1 .. Len(words) : words[j] \notin Mode
      \/ /\ \A i \in 1 .. Len(words) : words[i] \notin Mode
         /\ ModeOf(Last(stack)) = ModeOf(source)

\* Remounting the root takes ro away and leaves every other flag what it was, but for
\* nosymfollow, which the code does not know, and strictatime beside nodiratime. Where
\* /proc/mounts cannot be read, as in a boot without a stage 1, nosuid, nodev and noexec
\* are lost too; the access time flags are not.
RootKept ==
  place = "root" /\ done /\ ~failed =>
    /\ "ro" \notin Last(stack)
    /\ procMounts /\ ("nodiratime" \in source => ModeOf(source) # "strictatime") =>
         Last(stack) = source \ {"ro", "nosymfollow"}
    /\ ~procMounts => Last(stack) = source \ Plain

\* A mount has the flags that were asked for last, and otherwise those it had.
FlagsAsAsked == LastOptionWins /\ AtimeMode /\ RootKept

\* Once stage 2 is done with it, the store has every option asked for that stage 2 knows,
\* whatever the root it may be on has and however often it is mounted over; only of
\* those its lowest mount has already one cannot be sure. Access times are touched only if
\* asked for. And if a call fails, the store is what it was, and not less than that.
StoreProtected ==
  [][\A desired \in StoreOpts :
       SetupStore(desired) =>
         IF failed' THEN Top(stack') = Top(stack)
         ELSE /\ \A f \in StoreFlags(desired) :
                   f \in Top(stack') \/ (stack # <<>> /\ procMounts /\ f \in Head(stack))
              /\ StoreFlags(desired) \cap Atime = {} =>
                   Top(stack') \cap Atime = Top(stack) \cap Atime]_vars
=============================================================================
