-------------------------- MODULE MountFlagsProofs --------------------------
(***************************************************************************)
(* A mount has the flags that were asked for last, and otherwise those it    *)
(* had, for every set of options, any number of words and of mounts at a     *)
(* path. There is no induction over the words: the invariant says what the   *)
(* parser knows after each of them.                                          *)
(***************************************************************************)
EXTENDS MountFlags, TLAPS

\* The flags that a word gives and another takes back.
Marks == Plain \cup {"nodiratime"}

\* The kernel never has two modes for a mount.
OneMode(flags) == ~({"noatime", "relatime"} \subseteq flags)

\* The root and what an entry is bound from are mounted once and for all.
SingleInv ==
  place # "store" /\ ~done => /\ Len(stack) <= 1
                              /\ stack # <<>> => OneMode(stack[1])

\* What the parser holds of a flag is what the last word about it says.
LastWordInv ==
  \A f \in Marks :
    \/ \E i \in 1 .. Len(words) : /\ LastAbout(f, i)
                                  /\ words[i] = f <=> f \in parsed.set
                                  /\ f \in parsed.set <=> f \notin parsed.clear
    \/ (\A i \in 1 .. Len(words) : ~About(words[i], f)) /\ f \notin parsed.set \cup parsed.clear

\* It holds at most one mode, the last that was named, and clears the others.
ModeInv ==
  \/ \E i \in 1 .. Len(words) : /\ words[i] \in Mode
                                /\ \A j \in i + 1 .. Len(words) : words[j] \notin Mode
                                /\ parsed.set \cap Mode \subseteq {words[i]}
                                /\ Mode \ {words[i]} \subseteq parsed.clear
  \/ (\A i \in 1 .. Len(words) : words[i] \notin Mode) /\ parsed.set \cap Mode = {}
----------------------------------------------------------------------------
\* The options stage 2 knows are flags of a mount, and name one mode of the access time only.
LEMMA KnownFlags ==
  ASSUME NEW opts
  PROVE  /\ StoreFlags(opts) \in SUBSET Flags
         /\ StoreFlags(opts) \cap Mode \subseteq {"noatime"}
BY DEF StoreFlags, OptToFlag, Flags, Plain, Atime, Mode

\* A mount has the flags that were asked for last, and otherwise those it had, whatever the options
\* of the filesystem are and however many words the entry has.
THEOREM FlagsAlwaysAsAsked == Spec => [](TypeOK /\ FlagsAsAsked)
<1> DEFINE I == TypeOK /\ SingleInv /\ LastWordInv /\ ModeInv /\ FlagsAsAsked
<1>1. Init => I
  <2> SUFFICES ASSUME Init PROVE I
    OBVIOUS
  <2>1. TypeOK
    <3>1. parsed.set = {} /\ parsed.clear = {} /\ parsed = [set |-> parsed.set, clear |-> parsed.clear]
      BY DEF Init
    <3>2. parsed \in [set : SUBSET (Flags \cup {"strictatime"}), clear : SUBSET (Flags \cup {"strictatime"})]
      BY <3>1
    <3>3. stack \in Seq(SUBSET Flags) /\ words \in Seq(EntryWords)
      BY DEF Init
    <3> QED BY <3>2, <3>3, FlagsOK DEF Init, TypeOK
  <2>3. SingleInv
    BY DEF Init, SingleInv
  <2>4. LastWordInv /\ ModeInv
    BY DEF Init, LastWordInv, ModeInv
  <2>2. FlagsAsAsked
    BY DEF Init, FlagsAsAsked, LastOptionWins, AtimeMode, RootKept, Projected
  <2> QED BY <2>1, <2>2, <2>3, <2>4
<1>2. I /\ [Next]_vars => I'
  <2> SUFFICES ASSUME TypeOK, SingleInv, LastWordInv, ModeInv, FlagsAsAsked, [Next]_vars PROVE I'
    OBVIOUS
  \* What the kernel makes of flags.
  <2>k. ASSUME NEW given \in SUBSET (Flags \cup {"strictatime"})
        PROVE  /\ Fresh(given) \in SUBSET Flags /\ OneMode(Fresh(given))
               /\ \A f \in Marks : f \in Fresh(given) <=> f \in given
               /\ \A m \in Mode : given \cap Mode = {m} => ModeOf(Fresh(given)) = m
               /\ "noatime" \in given /\ "strictatime" \notin given => Fresh(given) = (given \cap Marks) \cup {"noatime"}
               /\ given \cap {"noatime", "strictatime"} = {} => Fresh(given) = (given \cap Marks) \cup {"relatime"}
    BY DEF Fresh, Flags, Plain, Atime, Mode, OneMode, Marks, ModeOf
  <2>r. ASSUME NEW old \in SUBSET Flags, NEW given \in SUBSET (Flags \cup {"strictatime"})
        PROVE  /\ Remount(old, given) \in SUBSET Flags
               /\ \A f \in Plain : f \in Remount(old, given) <=> f \in given
    BY <2>k DEF Remount, Flags, Plain, Atime, Mode, Marks
  <2>t. stack \in Seq(SUBSET Flags) /\ source \in SUBSET Flags /\ words \in Seq(EntryWords) /\ Len(words) \in Nat
    BY DEF TypeOK
  <2>1. CASE MountFilesystem
    <3>1. PICK ws \in FsWords : stack' = Append(stack, Fresh(ParseMountOptions(ws)))
      BY <2>1 DEF MountFilesystem
    <3>2. Fresh(ParseMountOptions(ws)) \in SUBSET Flags /\ OneMode(Fresh(ParseMountOptions(ws)))
      BY <2>k, FlagsOK DEF ParseMountOptions, Flags, Plain, Atime, Mode
    <3>3. /\ UNCHANGED <<place, words, parsed, source, procMounts, done, failed>> /\ ~done
          /\ place # "store" => Len(stack) < 1
      BY <2>1 DEF MountFilesystem
    <3>4. TypeOK'
      BY <2>t, <3>1, <3>2, <3>3 DEF TypeOK
    <3>5. SingleInv'
      BY <2>t, <3>1, <3>2, <3>3 DEF SingleInv
    <3>6. LastWordInv' /\ ModeInv'
      BY <3>3 DEF LastWordInv, ModeInv, LastAbout
    <3>7. FlagsAsAsked'
      BY <3>3 DEF FlagsAsAsked, LastOptionWins, AtimeMode, RootKept, Projected
    <3> QED BY <3>4, <3>5, <3>6, <3>7
  <2>2. CASE BindFilesystem
    <3>1. PICK f : /\ stack' = Append(stack, f)
                   /\ f = source \/ \E ws \in FsWords : f = Remount(source, ParseMountOptions(ws))
      BY <2>2 DEF BindFilesystem
    <3>2. f \in SUBSET Flags
      <4>1. \A ws \in FsWords : ParseMountOptions(ws) \in SUBSET (Flags \cup {"strictatime"})
        BY FlagsOK DEF ParseMountOptions, Flags, Plain, Atime, Mode
      <4> QED BY <2>r, <2>t, <3>1, <4>1
    <3>3. UNCHANGED <<place, words, parsed, source, procMounts, done, failed>> /\ ~done /\ place = "store"
      BY <2>2 DEF BindFilesystem
    <3>4. TypeOK'
      BY <2>t, <3>1, <3>2, <3>3 DEF TypeOK
    <3>5. SingleInv' /\ LastWordInv' /\ ModeInv'
      BY <3>3 DEF SingleInv, LastWordInv, ModeInv, LastAbout
    <3>6. FlagsAsAsked'
      BY <3>3 DEF FlagsAsAsked, LastOptionWins, AtimeMode, RootKept, Projected
    <3> QED BY <3>4, <3>5, <3>6
  <2>3. CASE RemountRoot
    <3> DEFINE x == stack[1]
               g == RemountFlags(GetMountOptions(stack))
    <3>1. /\ ~done /\ place = "root" /\ stack # <<>> /\ done' = TRUE /\ UNCHANGED <<place, words, parsed, procMounts>>
          /\ source' = Last(stack)
          /\ \/ stack' = <<Remount(x, g)>> /\ failed' = FALSE
             \/ stack' = stack /\ failed' = TRUE
      BY <2>3 DEF RemountRoot
    <3>2. x \in SUBSET Flags /\ OneMode(x) /\ source' = x
      BY <2>t, <3>1 DEF SingleInv, Last
    <3>3. /\ g \in SUBSET (Flags \cup {"strictatime"})
          /\ procMounts => g = x \ {"ro", "nosymfollow"}
          /\ ~procMounts => g = {}
          /\ "ro" \notin g
      <4>1. procMounts => GetMountOptions(stack) \in {x, x \cup {"rw"}}
        BY <3>1 DEF GetMountOptions
      <4>2. ~procMounts => GetMountOptions(stack) = {}
        BY DEF GetMountOptions
      <4> QED BY <3>2, <4>1, <4>2 DEF RemountFlags, Flags, Plain, Atime, Mode
    <3> HIDE DEF g
    <3>4. Remount(x, g) \in SUBSET Flags
      BY <2>r, <3>2, <3>3
    <3>5. TypeOK'
      <4>1. done' \in BOOLEAN /\ failed' \in BOOLEAN /\ procMounts' \in BOOLEAN
        BY <3>1, Zenon DEF TypeOK
      <4>2. stack' \in Seq(SUBSET Flags)
        <5>1. <<Remount(x, g)>> \in Seq(SUBSET Flags)
          BY <3>4
        <5> QED BY <2>t, <3>1, <5>1, Zenon
      <4> QED BY <3>1, <3>2, <4>1, <4>2, Zenon DEF TypeOK
    <3>6. "ro" \notin Remount(x, g)
      BY <2>r, <3>2, <3>3 DEF Plain
    <3>7. ASSUME procMounts, "nodiratime" \in x => ModeOf(x) # "strictatime" PROVE Remount(x, g) = g
      <4>1. CASE g \cap Atime = {}
        BY <3>2, <3>3, <3>7, <4>1 DEF Remount, Flags, Plain, Atime, Mode
      <4>2. CASE g \cap Atime # {}
        <5>1. Remount(x, g) = Fresh(g)
          BY <4>2 DEF Remount
        <5>2. "strictatime" \notin g /\ ("noatime" \in g \/ "relatime" \in g)
          BY <3>2, <3>3, <3>7, <4>2 DEF ModeOf, Flags, Plain, Atime, Mode
        <5>3. Fresh(g) = (g \cap Marks) \cup {IF "noatime" \in g THEN "noatime" ELSE "relatime"}
          BY <2>k, <3>3, <5>2
        <5> QED BY <3>2, <3>3, <3>7, <5>1, <5>2, <5>3 DEF Flags, Plain, Atime, Mode, Marks, OneMode
      <4> QED BY <4>1, <4>2
    <3>8. ASSUME ~procMounts PROVE Remount(x, g) = x \ Plain
      BY <3>2, <3>3, <3>8 DEF Remount, Flags, Plain, Atime, Mode
    <3>9. RootKept'
      <4>1. ~failed' => Last(stack') = Remount(x, g)
        BY <3>1 DEF Last
      <4> QED BY <3>1, <3>2, <3>3, <3>6, <3>7, <3>8, <4>1 DEF RootKept
    <3>10. FlagsAsAsked'
      BY <3>1, <3>9 DEF FlagsAsAsked, LastOptionWins, AtimeMode, Projected
    <3>11. SingleInv' /\ LastWordInv' /\ ModeInv'
      BY <3>1 DEF SingleInv, LastWordInv, ModeInv, LastAbout
    <3> QED BY <3>5, <3>10, <3>11
  <2>4. ASSUME NEW desired \in StoreOpts, SetupStore(desired) PROVE I'
    <3> DEFINE f == Remount(Top(stack), StoreFlags(Missing(stack, desired)))
    <3>1. /\ ~done /\ place = "store" /\ done' = TRUE /\ UNCHANGED <<place, words, parsed, source, procMounts>>
          /\ stack' \in {stack, Append(stack, Top(stack)), Append(stack, f)} /\ failed' \in BOOLEAN
      BY <2>4 DEF SetupStore
    <3>2. Top(stack) \in SUBSET Flags
      BY <2>t DEF Top, Last
    <3>3. f \in SUBSET Flags
      BY <2>r, <3>2, KnownFlags
    <3> HIDE DEF f
    <3>4. TypeOK'
      <4>1. done' \in BOOLEAN /\ failed' \in BOOLEAN /\ procMounts' \in BOOLEAN
        BY <3>1, Zenon DEF TypeOK
      <4>2. stack' \in Seq(SUBSET Flags)
        <5>1. \A e \in SUBSET Flags : Append(stack, e) \in Seq(SUBSET Flags)
          BY <2>t
        <5>2. stack' = stack \/ stack' = Append(stack, Top(stack)) \/ stack' = Append(stack, f)
          BY <3>1, Zenon
        <5> QED BY <2>t, <3>2, <3>3, <5>1, <5>2, Zenon
      <4> QED BY <3>1, <4>1, <4>2, Zenon DEF TypeOK
    <3>5. SingleInv' /\ LastWordInv' /\ ModeInv'
      BY <3>1 DEF SingleInv, LastWordInv, ModeInv, LastAbout
    <3>6. FlagsAsAsked'
      BY <3>1 DEF FlagsAsAsked, LastOptionWins, AtimeMode, RootKept, Projected
    <3> QED BY <3>4, <3>5, <3>6
  <2>5. ASSUME NEW w \in EntryWords, AddOption(w) PROVE I'
    <3> DEFINE n == Len(words)
    <3>1. /\ words' = Append(words, w) /\ parsed' = ParseOption(parsed, w)
          /\ UNCHANGED <<place, stack, source, procMounts, done, failed>> /\ ~done
      BY <2>5 DEF AddOption
    <3>2. /\ Len(words') = n + 1 /\ n \in Nat /\ words'[n + 1] = w
          /\ \A i \in 1 .. n : words'[i] = words[i]
          /\ words' \in Seq(EntryWords)
      BY <2>t, <3>1
    <3>3. /\ parsed.set \in SUBSET (Flags \cup {"strictatime"})
          /\ parsed.clear \in SUBSET (Flags \cup {"strictatime"})
      BY DEF TypeOK
    <3>4. /\ w \in Mode => parsed'.set = (parsed.set \ Mode) \cup {w} /\ parsed'.clear = (parsed.clear \cup Mode) \ {w}
          /\ w \in Negative => /\ parsed'.set = parsed.set \ {Negation[w]}
                              /\ parsed'.clear = parsed.clear \cup {Negation[w]}
          /\ w \in Marks => parsed'.set = parsed.set \cup {w} /\ parsed'.clear = parsed.clear \ {w}
          /\ w \notin Mode \cup Negative \cup Marks => parsed' = parsed
      <4>1. CASE w \in Mode
        BY <3>1, <4>1 DEF ParseOption, SetFlags, Mode, Marks, Plain, Negative, Negation
      <4>2. CASE w \in Negative
        <5>1. w \notin Mode \cup Marks
          BY <4>2 DEF Negative, Negation, Mode, Marks, Plain
        <5>2. parsed' = SetFlags(parsed, {Negation[w]}, {})
          BY <3>1, <4>2, <5>1 DEF ParseOption, Marks
        <5> QED BY <4>2, <5>1, <5>2 DEF SetFlags
      <4>3. CASE w \in Marks
        <5>1. w \notin Mode \cup Negative
          BY <4>3 DEF Negative, Negation, Mode, Marks, Plain
        <5>2. parsed' = SetFlags(parsed, {w}, {w})
          BY <3>1, <4>3, <5>1 DEF ParseOption, Marks
        <5> QED BY <4>3, <5>1, <5>2 DEF SetFlags
      <4>4. CASE w \notin Mode \cup Negative \cup Marks
        BY <3>1, <4>4 DEF ParseOption, Marks
      <4> QED BY <4>1, <4>2, <4>3, <4>4
    <3>5. w \in Negative => Negation[w] \in Marks \cup Mode
      BY DEF Negative, Negation, Marks, Mode, Plain
    <3>6. TypeOK'
      <4>1. parsed' \in [set : SUBSET (Flags \cup {"strictatime"}), clear : SUBSET (Flags \cup {"strictatime"})]
        <5>1. parsed' = parsed \/ parsed' = [set |-> parsed'.set, clear |-> parsed'.clear]
          BY <3>1 DEF ParseOption, SetFlags
        <5>2. /\ parsed'.set \in SUBSET (Flags \cup {"strictatime"})
              /\ parsed'.clear \in SUBSET (Flags \cup {"strictatime"})
          BY <3>3, <3>4, <3>5 DEF Flags, Plain, Atime, Mode, Marks
        <5> QED BY <5>1, <5>2 DEF TypeOK
      <4> QED BY <3>1, <3>2, <4>1 DEF TypeOK
    <3>7. SingleInv'
      BY <3>1 DEF SingleInv
    <3>8. LastWordInv'
      <4> SUFFICES ASSUME NEW f \in Marks
                   PROVE  \/ \E i \in 1 .. n + 1 : /\ About(words'[i], f)
                                                   /\ \A j \in i + 1 .. n + 1 : ~About(words'[j], f)
                                                   /\ words'[i] = f <=> f \in parsed'.set
                                                   /\ f \in parsed'.set <=> f \notin parsed'.clear
                          \/ /\ \A i \in 1 .. n + 1 : ~About(words'[i], f)
                             /\ f \notin parsed'.set \cup parsed'.clear
        BY <3>2 DEF LastWordInv, LastAbout
      <4>0. f \notin Mode
        BY DEF Marks, Mode, Plain
      <4>1. CASE About(w, f)
        <5>1. About(words'[n + 1], f) /\ \A j \in (n + 1) + 1 .. n + 1 : ~About(words'[j], f)
          BY <3>2, <4>1
        <5>2. w = f \/ (w \in Negative /\ Negation[w] = f /\ w # f)
          BY <4>1 DEF About
        <5>3. /\ w = f <=> f \in parsed'.set
              /\ f \in parsed'.set <=> f \notin parsed'.clear
          BY <3>4, <5>2
        <5> QED BY <3>2, <5>1, <5>3
      <4>2. CASE ~About(w, f)
        <5>1. f \in parsed'.set <=> f \in parsed.set
          BY <3>4, <4>0, <4>2 DEF About
        <5>2. f \in parsed'.clear <=> f \in parsed.clear
          BY <3>4, <4>0, <4>2 DEF About
        <5>3. CASE \E i \in 1 .. n : /\ LastAbout(f, i)
                                     /\ words[i] = f <=> f \in parsed.set
                                     /\ f \in parsed.set <=> f \notin parsed.clear
          <6>1. PICK i \in 1 .. n : /\ LastAbout(f, i)
                                    /\ words[i] = f <=> f \in parsed.set
                                    /\ f \in parsed.set <=> f \notin parsed.clear
            BY <5>3
          <6>2. i \in 1 .. n + 1 /\ words'[i] = words[i]
            BY <3>2
          <6>3. About(words'[i], f) /\ \A j \in i + 1 .. n + 1 : ~About(words'[j], f)
            BY <3>2, <4>2, <6>1 DEF LastAbout
          <6> QED BY <5>1, <5>2, <6>1, <6>2, <6>3
        <5>4. CASE (\A i \in 1 .. n : ~About(words[i], f)) /\ f \notin parsed.set \cup parsed.clear
          <6>1. \A i \in 1 .. n + 1 : ~About(words'[i], f)
            BY <3>2, <4>2, <5>4
          <6> QED BY <5>1, <5>2, <5>4, <6>1
        <5> QED BY <5>3, <5>4 DEF LastWordInv
      <4> QED BY <4>1, <4>2
    <3>9. ModeInv'
      <4>1. CASE w \in Mode
        <5>1. /\ parsed'.set \cap Mode \subseteq {w}
              /\ Mode \ {w} \subseteq parsed'.clear
          BY <3>4, <4>1
        <5>2. \A j \in n + 2 .. n + 1 : words'[j] \notin Mode
          BY <3>2
        <5> QED BY <3>2, <4>1, <5>1, <5>2 DEF ModeInv
      <4>2. CASE w \notin Mode
        <5>1. w \in Marks => w \notin Mode
          BY DEF Marks, Mode, Plain
        <5>2. parsed'.set \cap Mode \subseteq parsed.set
          BY <3>4, <4>2, <5>1
        <5>3. parsed.clear \cap Mode \subseteq parsed'.clear
          BY <3>4, <4>2, <5>1
        <5>4. CASE \E i \in 1 .. n : /\ words[i] \in Mode
                                     /\ \A j \in i + 1 .. n : words[j] \notin Mode
                                     /\ parsed.set \cap Mode \subseteq {words[i]}
                                     /\ Mode \ {words[i]} \subseteq parsed.clear
          <6>1. PICK i \in 1 .. n : /\ words[i] \in Mode
                                    /\ \A j \in i + 1 .. n : words[j] \notin Mode
                                    /\ parsed.set \cap Mode \subseteq {words[i]}
                                    /\ Mode \ {words[i]} \subseteq parsed.clear
            BY <5>4
          <6>2. i \in 1 .. n + 1 /\ words'[i] = words[i]
            BY <3>2
          <6>3. \A j \in i + 1 .. n + 1 : words'[j] \notin Mode
            BY <3>2, <4>2, <6>1
          <6>4. parsed'.set \cap Mode \subseteq {words[i]}
            BY <5>2, <6>1
          <6>5. Mode \ {words[i]} \subseteq parsed'.clear
            BY <5>3, <6>1
          <6> QED BY <3>2, <6>1, <6>2, <6>3, <6>4, <6>5 DEF ModeInv
        <5>5. CASE (\A i \in 1 .. n : words[i] \notin Mode) /\ parsed.set \cap Mode = {}
          <6>1. \A i \in 1 .. n + 1 : words'[i] \notin Mode
            BY <3>2, <4>2, <5>5
          <6> QED BY <3>2, <5>2, <5>5, <6>1 DEF ModeInv
        <5> QED BY <5>4, <5>5 DEF ModeInv
      <4> QED BY <4>1, <4>2
    <3>10. FlagsAsAsked'
      BY <3>1 DEF FlagsAsAsked, LastOptionWins, AtimeMode, RootKept, Projected
    <3> QED BY <3>6, <3>7, <3>8, <3>9, <3>10
  <2>6. CASE BindEntry
    <3> DEFINE x == stack[1]
               named == parsed.set \cup parsed.clear
               given == (MountinfoFlags(x) \ parsed.clear) \cup parsed.set
               y == Apply(parsed, x)
    <3>1. /\ ~done /\ place = "entry" /\ stack # <<>> /\ done' = TRUE /\ UNCHANGED <<place, words, parsed, procMounts, failed>>
          /\ source' = Last(stack) /\ stack' = Append(stack, Apply(parsed, Last(stack)))
      BY <2>6 DEF BindEntry
    <3>2. x \in SUBSET Flags /\ OneMode(x) /\ Last(stack) = x
      BY <2>t, <3>1 DEF SingleInv, Last
    <3>3. given \in SUBSET (Flags \cup {"strictatime"})
      BY <3>2 DEF TypeOK, MountinfoFlags
    <3>4. y = IF named = {} THEN x ELSE Remount(x, given)
      BY DEF Apply
    <3>5. y \in SUBSET Flags
      BY <2>r, <3>2, <3>3, <3>4
    <3>6. Last(stack') = y /\ stack' \in Seq(SUBSET Flags)
      BY <2>t, <3>1, <3>2, <3>5 DEF Last
    <3>7. given = ((x \cup {ModeOf(x)}) \ parsed.clear) \cup parsed.set
      BY <3>2 DEF MountinfoFlags, ModeOf
    <3> HIDE DEF y, given
    <3>8. Modeless' <=> given \cap Mode = {}
      BY <3>1, <3>2, <3>7 DEF Modeless
    <3>9. TypeOK'
      BY <3>1, <3>2, <3>6 DEF TypeOK
    <3>10. SingleInv' /\ LastWordInv' /\ ModeInv'
      BY <3>1 DEF SingleInv, LastWordInv, ModeInv, LastAbout
    <3>11. LastOptionWins'
      <4> SUFFICES ASSUME NEW f \in Marks, f = "nodiratime" => given \cap Mode # {}
                   PROVE  \/ \E i \in 1 .. Len(words) : LastAbout(f, i) /\ (f \in y) = (words[i] = f)
                          \/ (\A i \in 1 .. Len(words) : ~About(words[i], f)) /\ (f \in y) = (f \in x)
        BY <3>1, <3>2, <3>6, <3>8 DEF LastOptionWins, Marks, LastAbout
      <4>1. f \in given <=> (f \in x /\ f \notin parsed.clear) \/ f \in parsed.set
        BY <3>7 DEF Marks, Plain, ModeOf
      <4>2. CASE named = {}
        <5>1. y = x /\ f \notin parsed.set /\ f \notin parsed.clear
          BY <3>4, <4>2
        <5> QED BY <5>1 DEF LastWordInv
      <4>3. CASE named # {}
        <5>1. y = Remount(x, given)
          BY <3>4, <4>3
        <5>2. f \in y <=> f \in given
          <6>1. CASE f \in Plain
            BY <2>r, <3>2, <3>3, <5>1, <6>1
          <6>2. CASE f = "nodiratime"
            <7>1. given \cap Atime # {}
              BY <6>2 DEF Atime
            <7>2. y = Fresh(given)
              BY <5>1, <7>1 DEF Remount
            <7> QED BY <2>k, <3>3, <7>2
          <6> QED BY <6>1, <6>2 DEF Marks
        <5>3. CASE \E i \in 1 .. Len(words) : /\ LastAbout(f, i)
                                              /\ words[i] = f <=> f \in parsed.set
                                              /\ f \in parsed.set <=> f \notin parsed.clear
          BY <4>1, <5>2, <5>3
        <5>4. CASE (\A i \in 1 .. Len(words) : ~About(words[i], f)) /\ f \notin parsed.set \cup parsed.clear
          BY <4>1, <5>2, <5>4
        <5> QED BY <5>3, <5>4 DEF LastWordInv
      <4> QED BY <4>2, <4>3
    <3>12. AtimeMode'
      <4> SUFFICES ASSUME given \cap Mode # {}
                   PROVE  \/ \E i \in 1 .. Len(words) : /\ words[i] \in Mode /\ ModeOf(y) = words[i]
                                                        /\ \A j \in i + 1 .. Len(words) : words[j] \notin Mode
                          \/ (\A i \in 1 .. Len(words) : words[i] \notin Mode) /\ ModeOf(y) = ModeOf(x)
        BY <3>1, <3>2, <3>6, <3>8 DEF AtimeMode
      <4>1. x \cap Mode \subseteq {ModeOf(x)} /\ ModeOf(x) \in Mode
        BY <3>2 DEF OneMode, ModeOf, Mode, Flags, Plain, Atime
      <4>2. ASSUME NEW m, given \cap Mode = {m} PROVE Remount(x, given) = Fresh(given) /\ ModeOf(Fresh(given)) = m
        <5>1. given \cap Atime # {}
          BY <4>2 DEF Atime
        <5> QED BY <2>k, <3>3, <4>2, <5>1 DEF Remount
      <4>3. CASE \E i \in 1 .. Len(words) : /\ words[i] \in Mode
                                            /\ \A j \in i + 1 .. Len(words) : words[j] \notin Mode
                                            /\ parsed.set \cap Mode \subseteq {words[i]}
                                            /\ Mode \ {words[i]} \subseteq parsed.clear
        <5>1. PICK i \in 1 .. Len(words) : /\ words[i] \in Mode
                                           /\ \A j \in i + 1 .. Len(words) : words[j] \notin Mode
                                           /\ parsed.set \cap Mode \subseteq {words[i]}
                                           /\ Mode \ {words[i]} \subseteq parsed.clear
          BY <4>3
        <5>2. given \cap Mode = {words[i]}
          BY <3>7, <5>1
        <5>3. named # {}
          BY <5>1 DEF Mode
        <5>4. ModeOf(y) = words[i]
          BY <3>4, <4>2, <5>2, <5>3
        <5> QED BY <5>1, <5>4
      <4>4. CASE (\A i \in 1 .. Len(words) : words[i] \notin Mode) /\ parsed.set \cap Mode = {}
        <5>1. given \cap Mode = {ModeOf(x)}
          BY <3>7, <4>1, <4>4
        <5>2. ModeOf(y) = ModeOf(x)
          BY <3>4, <4>2, <5>1
        <5> QED BY <4>4, <5>2
      <4> QED BY <4>3, <4>4 DEF ModeInv
    <3>13. RootKept'
      BY <3>1 DEF RootKept
    <3> QED BY <3>9, <3>10, <3>11, <3>12, <3>13 DEF FlagsAsAsked
  <2>7. CASE UNCHANGED vars
    BY <2>7 DEF vars, TypeOK, SingleInv, LastWordInv, ModeInv, FlagsAsAsked, LastOptionWins, AtimeMode, RootKept,
                Projected, LastAbout, Modeless
  <2> QED BY <2>1, <2>2, <2>3, <2>4, <2>5, <2>6, <2>7 DEF Next
<1>3. I => TypeOK /\ FlagsAsAsked
  OBVIOUS
<1> QED BY <1>1, <1>2, <1>3, PTL DEF Spec

\* Once stage 2 is done with it the store has every option asked for that stage 2 knows and that its lowest
\* mount did not show already, whatever the root it may be on has, however often it is mounted over and
\* whatever other options the list holds; and if a call fails it has what it had.
THEOREM StoreAlwaysProtected == Spec => StoreProtected
<1>1. ASSUME TypeOK, NEW desired \in StoreOpts, SetupStore(desired)
      PROVE  IF failed' THEN Top(stack') = Top(stack)
             ELSE /\ \A f \in StoreFlags(desired) :
                       f \in Top(stack') \/ (stack # <<>> /\ procMounts /\ f \in Head(stack))
                  /\ StoreFlags(desired) \cap Atime = {} =>
                       Top(stack') \cap Atime = Top(stack) \cap Atime
  <2> DEFINE missing == Missing(stack, desired)
             given == StoreFlags(missing)
  <2>1. stack \in Seq(SUBSET Flags) /\ source' = source
    BY <1>1 DEF SetupStore, TypeOK
  \* An option that is not missing is a flag of the lowest mount.
  <2>2. ASSUME NEW f \in StoreFlags(desired), f \notin given
        PROVE  stack # <<>> /\ procMounts /\ f \in Head(stack)
    <3>1. PICK o \in desired \cap DOMAIN OptToFlag : f = OptToFlag[o]
      BY <2>2 DEF StoreFlags
    <3>2. o \in GetMountOptions(stack)
      BY <2>2, <3>1 DEF StoreFlags, Missing
    <3>3. stack # <<>> /\ procMounts /\ o \in Head(stack) \cup {"rw"}
      BY <3>2 DEF GetMountOptions
    <3>4. Head(stack) \in SUBSET Flags
      BY <2>1, <3>3
    <3>5. o \notin {"rw", "rdonly"}
      BY <3>1, <3>3, <3>4 DEF OptToFlag, Flags, Plain, Atime, Mode
    <3> QED BY <3>1, <3>3, <3>5 DEF OptToFlag
  <2>3. given \in SUBSET Flags /\ given \cap Mode \subseteq {"noatime"} /\ given \subseteq StoreFlags(desired)
    <3>1. given \subseteq StoreFlags(desired)
      BY DEF StoreFlags, Missing
    <3> QED BY <3>1, KnownFlags
  <2> DEFINE f1 == Remount(Top(stack), given)
  <2>4. given \subseteq f1 /\ (given \cap Atime = {} => f1 \cap Atime = Top(stack) \cap Atime)
    <3> HIDE DEF given
    <3> QED BY <2>3 DEF Remount, Fresh, Flags, Plain, Atime, Mode
  <2>5. \A e : Append(stack, e) # <<>> /\ Last(Append(stack, e)) = e
    BY <2>1 DEF Last
  <2>6. \/ missing = {} /\ ~failed' /\ stack' = stack
        \/ ~failed' /\ stack' = Append(stack, f1)
        \/ failed' /\ stack' \in {stack, Append(stack, Top(stack))}
    BY <1>1 DEF SetupStore
  <2>7. missing = {} => given = {}
    BY DEF StoreFlags
  <2> HIDE DEF missing, given, f1
  <2>8. CASE ~failed' /\ stack' = stack /\ missing = {}
    BY <2>1, <2>2, <2>7, <2>8 DEF Top
  <2>9. CASE ~failed' /\ stack' = Append(stack, f1)
    <3>1. Top(stack') = f1
      BY <2>1, <2>5, <2>9 DEF Top
    <3> QED BY <2>2, <2>3, <2>4, <2>9, <3>1
  <2>10. CASE failed' /\ stack' \in {stack, Append(stack, Top(stack))}
    BY <2>1, <2>5, <2>10 DEF Top
  <2> QED BY <2>6, <2>8, <2>9, <2>10
<1>2. TypeOK /\ [Next]_vars => [\A desired \in StoreOpts :
       SetupStore(desired) =>
         IF failed' THEN Top(stack') = Top(stack)
         ELSE /\ \A f \in StoreFlags(desired) :
                   f \in Top(stack') \/ (stack # <<>> /\ procMounts /\ f \in Head(stack))
              /\ StoreFlags(desired) \cap Atime = {} =>
                   Top(stack') \cap Atime = Top(stack) \cap Atime]_vars
  BY <1>1
<1> QED BY <1>2, FlagsAlwaysAsAsked, PTL DEF Spec, StoreProtected
=============================================================================
