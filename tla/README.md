# Verification of nixos-core

TLA+ models of the programs in this repository, configurations that check them
with TLC on small instances, and theorems about them that the TLA+ proof system
checks for every instance. `nixos-core` is one executable that replaces the shell
and Perl scripts by which NixOS boots and activates a configuration
(`nixos-core/src/main.rs` chooses the program by name).

Paths below are relative to `src/` of the repository; line numbers are those of the
revision the models were written from. `PROJECT.json` maps each definition of a
model to its lines.

## The system

| Component | State it keeps | Operations | Modelled by |
| --- | --- | --- | --- |
| persistence, `crates/persistence/src/lib.rs` | directory entries and mounts of the root; `/run/nixos-core/persistence.json` | switch the root to the projections (bind mounts, symlinks) of a new plan | `Persistence`, `AtomicSwitch` |
| mount options, `crates/persistence/src/mount_options.rs` | flags of mounts | parse option lists to flags, apply them by a remount | `MountFlags` |
| update-users-groups, `crates/update-users-groups/src/lib.rs` | `/etc/group`, `passwd`, `shadow`, `subuid`, `subgid`; id maps and declarative lists in `/var/lib/nixos` | bring the account files in line with a specification; allocate ids; convert expiry dates | `UsersGroups`, `Calendar` |
| setup-etc, `crates/setup-etc/src/lib.rs`, `manifest_diff.rs` | `/etc`, `/etc/static`, manifest, record of direct links, `/etc/.clean` | make `/etc` follow a generation, take the previous one away, migrate from the Perl script | `SetupEtc` |
| stage 1, waiting for devices, `crates/stage1/src/lib.rs` | the clock, what the device manager knows | wait for the root, for other devices, for bcachefs | `DeviceWait` |
| stage 1, the boot, same file | mounts, the device manager, processes of hooks | devices, resume, fsck, mounting, killing processes, `switch_root` | `Stage1Boot`, `MountTree`, `MountFlags` |
| stage 1, lustrate, same file | the root being moved aside, `old-root` | move everything but `/nix` and `/boot` into `old-root` | `Lustrate` |
| stage 2, `crates/stage2/src/` | `/run/booted-system`, `/run/current-system`, standard output and error, links in `/usr/bin` and `/bin` | remounts, special mounts, activation script, links, hand-off to systemd | `Stage2`, `MountFlags` |
| init-script, `crates/init-script/src/lib.rs` | `/sbin/init`, list of configurations | list generations, newest first, replace both files | `InitScript`, `Calendar` |
| activation-common, `crates/activation-common/src/lib.rs` | none | read `/proc/mounts` | `MountFlags` |
| multicall dispatcher, `nixos-core/src/main.rs` | none | choose a program by name | no |
| NixOS modules, `nix/modules/` | none | generate the plans, specifications and generations the programs read | as inputs |

How they interact. The programs never call each other; they meet in the
filesystem. Stage 1 assembles the root and executes the init of the new root, which on
machines without a boot loader of their own is `/sbin/init`, written by `init-script`,
and otherwise stage 2 of a configuration. Stage 2 runs the activation script of the
configuration, which runs `update-users-groups` and `setup-etc`, and hands over to systemd.
`persist` runs from a oneshot systemd unit at boot, again when the unit is reloaded with
a new plan, and with `--clear` when it is stopped (`nix/modules/persistence.nix` 368-387).
`nixos-rebuild switch` runs the activation again on a live system, where an administrator
and other programs change the same files. None of the activation programs takes a lock,
and each recognises what it did earlier by a state file and by looking at the filesystem.
That is where it gets hard:

- **persistence** has to remove and create nested mounts in an order in which each
  call can succeed, put everything back when one fails, and tell its own mounts,
  links and placeholders from those of a user who works on the same paths at the
  same time. *Correct* means: a run ends in the new plan or in the recorded one,
  nothing of a user's is removed, and a run that was killed can be repeated.
- **update-users-groups** replaces ten files one after the other. A run that ends
  early (killed, or by an error that is only found late) leaves some new and some
  old. *Correct* means: no id passes from one name to another, none is shared,
  a name keeps its id, passwords survive, accounts that left the specification go.
- **setup-etc** swaps one link that many entries lead through, applies a diff
  computed by a library, and commits two records at the end. *Correct* means:
  `/etc` shows the generation, nothing of an earlier one stays, each path is
  old or new at every moment, and foreign files are left alone.
- **stage 1** waits for devices that may turn up at any time and whose events may be lost;
  checks, mounts and moves filesystems over one another; interprets exit codes bit by bit;
  ends processes that start others meanwhile; and moves a whole root aside in steps that power
  can fail between. *Correct* means: it reaches the right init with its mounts, or says
  why not, within a bounded time.
- **stage 2** captures its own output through a child process and has to undo
  that before the hand-off; links it makes have temporary names that power failures
  leave behind. *Correct* means: systemd is executed with the original
  descriptors, and no sequence of failed boots makes later ones fail.
- **init-script** lists generations while they come and go, and replaces what the machine
  boots. *Correct* means: `/sbin/init` is a whole launcher at every moment.
- **flags and dates** are computed by hand in several places. *Correct* means: a mount has
  the flags asked for last, and those it had otherwise; dates are those of the calendar.

`PROJECT.json` lists under `hazards` what is hard to test, each at its line, with
the properties that cover it.

## The modules

A module without a `MC` or `Proofs` in its name is a model; `MCx` gives the constants of `x`
their values for the runs; `xProofs` has the theorems about `x`. `Stage2` and `InitScript`
are composed in `BootPath`; `Stage1Boot` uses `MountTree`.

### Persistence

One run is a loop of system calls. An action is one call that changes something
(`Umount`, `Unlink`, `Quarantine`, `Inspect`, `Prepare`, `Activate`, `Apply`,
`WriteState`) or a check that decides which call follows (`BeginRemoval`,
`SkipRemoval`, `RefuseRemoval`); a kill, a failing call or an administrator can
come between any two. `pc` names the place in the code, `phase` whether the
run switches or is on one of its two failure paths (`rollback(project(previous))`
or `rollback(restore(...))`, lib.rs 162-180). `previous`, `plan`, `todo` and
`activated` are the variables of `run`, `reconcile` and `project`.

The filesystem is `fs`, a directory entry per (filesystem, path), and `mounts`.
A mount hangs at a path inside a set of other mounts, so that binding a
directory hides what was mounted in it, and a target resolves into different
filesystems at different times (`Chain`, `BaseOf`, `Node`). Paths are targets, and
`Below` is their nesting. Each directory entry remembers who made it; the code does
not know this, the properties do.

The loop takes the deepest (or topmost) entry of `todo` in any order among paths that
are not nested, where the code sorts by the number of components: every order the
code may take is among them. Sources exist and do not nest; owners and modes
are left out, and their failure is the fault `prepare`. A directory of the user's stands for one with something in it:
an empty one at a flagged path would be taken for the placeholder and removed (636-641). A call may fail for a reason
of its own when its name is in `FaultKinds`.

`AtomicSwitch` is what the README of the crate promises in three lines:
plan recorded and projections in place change together. `Persistence` implements
it under the mapping at the end of the module: between runs, what is served is
what is really in place.

### UsersGroups

One action per file that is renamed into place, and one per round of the loops
that allocate ids or make home directories; `pc` names the next file. `Stop`
ends a run before any of them, whether it was killed or a call failed; a late
expiry date error (`badExpires`) and an exhausted range end it as in the code.
`groupsCur`, `usersCur` are the files as read at the start, `groupsOut`, `usersOut`
what will be written. The administrator's commands (`useradd`, `userdel`,
`groupadd`, `gpasswd`, `passwd1`) happen between runs. Ids are small numbers, of which
`Nss` are taken in databases other than `/etc`; the three allocators
take the lowest or the highest free id as the code does. `given`,
`lastUid`, `initial`, `local` are history variables for the properties: the uid, gid and subordinate range
each name was given last, the uid it had in `/etc/passwd` last, who was created with an initial password,
and what the administrator made.
Fields that are copied through, dry runs and the nscd caches are left out;
subordinate gids follow the uids.

### SetupEtc

A node of `/etc` is a link through `/etc/static` (which changes with it), or a copy or
direct link that carries the generation it was made from. The actions follow
`run`: swap `/etc/static`, sweep dangling links, build the manifest (which makes
directories and clears those that give way), compute the base of the diff, apply
the diff path by path, remove old direct links, make new ones, commit the two records,
remove what the Perl script had listed. The library `smfh` is not in the
repository; `Diff` is modelled from its use: it writes an entry over whatever is
there, and removes one of the old manifest if it still is what was recorded.
Writing below a direct link to a directory goes through it (`beyond`). Before the first run nothing, or a
generation the Perl script has activated, is in `/etc`; what that script had listed in `/etc/.clean` is its copies
(the README of the crate, 40-41) or its direct links as well. Below a directory of `/etc` are files and links only. Owners,
modes, temporary files, `/etc/NIXOS`, `resolv.conf` and deeper trees are left out.

### Lustrate

The step of stage 1 that moves the whole root but `/nix` and `/boot` into
`old-root`, when the root has a file `nixos-lustrate`. An action is one rename, one file copied
or removed (`move_path` falls back to that when it cannot rename), the
rename of `old-root.tmp` to `old-root`, one keeper, or the removal of the marker; power can
fail between any two, and the next boot starts over with what is on disk. `Error` is an error
that ends the boot, `Fault` also lets a rename, copy or removal fail, which is only
a warning. `root`, `tmp` and `old` say what each file holds in the three places.
A keeper that is a file comes back as a directory of its name (`Hollow`), because
`copy_dir_recursive` makes one before it fails; the next lustrate meets it. The running
system may write files and ask for another lustrate; from a rescue medium
`old-root` is moved away or the marker removed. `stake`, `fresh`, `late`, `warned` and
`served` are history variables. Modes, links (the copy resolves them), empty
directories and a file cut in the middle of its copy are left out.

### DeviceWait

The loops of `mount_root` (stage1 lib.rs 1737), `wait_for_device` (1153) and
`mount_bcachefs`, one after another as in `jobs`, against a clock `now` in
units of a sleep. Time passes only while a call is under way: `Call` draws how long it takes,
`wake` is when it returns, and until then the world goes on: the disk may turn up
(`DiskAppears`), and the device manager may hear of it or miss the event. Looking again
(`Triggered`, `VolumesActivated`) finds every disk that was there when the call began, and
perhaps a later one. A device is on a disk, or on a logical volume on it that only
`lvm vgchange` activates; `wait_for_device` does not ask LVM. What a call may take is bounded by
`MaxTrigger`, `MaxLvm`, `MaxMount`: the code sets these limits for udevadm, and the model
assumes that of the others. The three device managers are told apart by nothing else.

### Stage1Boot and MountTree

`Order` is the sequence of `run`, `pc` the place in it, and each step fails in the way it does in
the code: `Fail` goes to the recovery shell, a panic or a reboot as the command line
asks (`FailInto`), `Return` is the `?` that ends PID 1 and with it the machine, and some
failures are warnings. Steps that only prepare something (modules, LVM, hooks, secrets,
fsInfo) are one action, `Step`; those that mount, check or signal are modelled
call by call. fsck ends with any of `FsckCodes` and `Verdict` reads its bits. In `Term` and `Kill` the passes over
`/proc` go from pid to pid, while processes fork, become daemons and exit; reading `/proc` may fail (`PassFails`).

`init_path.exists()` is true of whatever lies at the path of init (`InitFound`), on the filesystem the path leads to at that moment; a configuration
says which filesystems hold something there (`inits`). Which of them it has to be is the property's business (`InitIsThere`), not a
guard of the model. Absolute links on the way are followed in the initrd and not in the new root; the model takes them for what they
lead to there, so that an init that is such a link is one that is not found.

`MountTree` is how the kernel resolves paths: a mount sits on a directory of another, and
a later mount at the same place covers an earlier one (`Covered`, `Walk`). `Attach` is mount(2), and MS_MOVE as well:
what is mounted inside moves along because it sits in the mount and not at a path. The
property `InitReady` is about what `Walk` finds in the new root.

`lustrate` is one step here and `Lustrate` on its own; waiting for the root is `FindRoot` here,
which ends well or in a timeout, and `DeviceWait` on its own.

### Stage2

One action per step of `lib.rs run` and `run_and_handoff`. `out` and `err` say where the descriptors lead,
`helper` what became of the process that copies them, and `capture` what the guard has to restore:
`"half"` if the second `dup2` failed, for which there is no guard. `atomic_symlink` is
two actions (`MakeTemp`, `Rename`) and its loop over temporary names a set, `Names`; what a power failure
leaves in `/usr/bin` and `/bin` stays, what is in `/run` does not. A message that nobody reads ends
PID 1 (`Panic`): the standard error is a closed pipe then, `eprintln!` panics, and
the release profile aborts. The hand-off through systemctl, a feature chosen
when the crate is built, and the reading of the boot specification are left out.

### InitScript

One action per directory entry looked at and per call that changes a file: create, write, chmod, rename
of `/sbin/init`, and the same without chmod for the list. `Killed` leaves the temporary file as it is,
`WriteFails` removes it. Generations are made and removed at any time, also while the builder
reads; a directory is read in any order. `Modules` are the systems for which
`extract_kernel_version` finds the modules, the others get no label and are skipped (see
*What was found*).

### BootPath

`InitScript` and `Stage2` together: the builder runs while the machine is up, `/sbin/init` is what
the next boot starts, power fails at any step of either, and a machine that did not
boot is switched off and on again. The generations of the one are the link targets of the other. Its bounds:
the builder runs before the last power failure but one.

### MountFlags

The paths a mount's flags take through the programs: stage 1 mounts or binds with words of its own
parser, stage 2 remounts the root writable and binds `/nix/store` over itself with the options that are
missing, either of which may fail (`failed`; for the store a warning, which leaves what was done by then), and persistence applies an entry's options, word by word, to flags read from
mountinfo. Each function that turns words into flags is an operator (`ParseMountOptions`,
`RemountFlags`, `GetMountOptions`, `OptToFlag`, `ParseOption`, `Apply`); `Remount` and `Fresh` are the kernel,
which takes a remount for the whole truth but keeps the access time flags when none is given, and which ignores what
a program hands to a bind remount as data. `procMounts` says whether `/proc/mounts` can be read: in a boot without a stage 1 it
cannot, and both users of `get_mount_options` then go on with no options. That a filesystem mounted read-only is
itself read-only, whatever a bind of it says, is left out.

### Calendar

`civil_from_days` of init-script and `days_from_civil` of update-users-groups, with integer division as Rust
has it, beside a wall calendar that is turned leaf by leaf from the epoch in both directions and knows only how
long each month is. There is no concurrency here; the state space is the reference definition. The cast of the year
to 32 bits wraps around (`AsI32`), so that labels are right for the years that fit; a link can carry no later time on most filesystems.

## The runs

Each run has its own configuration and takes from seconds to two minutes with two workers.

| Run | Question | Result |
| --- | --- | --- |
| `persistence_switch` | Does each run end in the new plan or in the recorded one, nested binds included, when any one call fails? | holds |
| `persistence_races` | Does nothing of the user's get lost, and does a repeated run complete, with kills, a reboot, a failing call and an administrator at the same paths? | holds |
| `persistence_hidden` | Is what a user keeps at a target safe when a parent directory is persisted later? | **no** |
| `users_activation` | Ids, passwords and accounts over three activations, one of them cut anywhere | holds |
| `setup_etc` | Does `/etc` show the generation and nothing else, over four activations that may be cut? | holds |
| `lustrate` | Is every file kept, and `old-root` made once and completely, whenever power fails? | holds |
| `lustrate_retry` | Does a boot always retry after one that was interrupted? | **no** |
| `stage1_wait` | Is every wait bounded, and no device missed that could be had in time? | holds |
| `stage1_boot` | Does stage 1 do everything in order, find its init and its mounts, end the right processes, and come to an end? | holds |
| `boot_path` | Is what a machine boots whole, whatever was cut, and does stage 2 hand over what it promised? | holds |
| `mount_flags` | Do mounts have the flags asked for, through every parser and remount? | holds |
| `calendar` | Are labels and expiry dates those of the calendar? | holds |

What the bounds contain:

- `persistence_switch`: a path inside another, three sources, two option lists, seven
  plans between which nested binds come, go, change options or source, and a
  link lies below a bind; three runs, one failing call in any of them. Two
  nested paths are what the removal order is about (an entry is stale, or below one that
  is); a third run is needed to come back to a plan whose placeholders were
  made two runs earlier. The fault `mount` is not among the failing calls here:
  a bind whose mount fails leaves the target that was prepared for it, a placeholder on
  no record, and if a link is to be restored there it cannot be (see *What was found*). A bind
  that arrives above a file that is persisted already has a run of its own, `persistence_hidden`.
- `persistence_races`: two paths beside each other, three runs, one failing call,
  one kill, one reboot, two acts of the administrator. During a run the
  administrator makes files and links; mounts and unmounts happen between runs,
  because `umount2` goes by path and nothing could protect a mount made in that
  window. A kill, a race and a repeated run together need three runs and two acts.
  Only directories are bound here: for a file, data put into a placeholder after
  an unmount is unlinked in the way `persistence_hidden` shows.
- `users_activation`: three users, three groups, six ids in two ranges, two of
  them taken elsewhere, two subordinate ranges; seven specifications, so that a range
  runs out, an id asked for collides with one given away, mutable mode changes and a user
  leaves and returns; three runs (a user is added, dropped, and another added), one
  of them cut at any file, one act of the administrator between two runs.
- `setup_etc`: a directory, a path in it and one beside; six generations, in which
  the directory becomes a link, a file or nothing and back, and an entry moves between
  the three ways of being made; four runs, two of them cut or with an entry
  skipped, one foreign file; a new machine, or one where the Perl script had activated
  one of four of the generations and listed its copies or its links too. Four runs allow for: one generation, a cut run, another cut run, and the
  one that repairs.
- `lustrate`: a directory of two files (so that it can be half copied) and a file
  beside it, each there or not at first; markers that keep nothing, the directory, a file in it,
  or all; two requests (the second meets the first's `old-root`), two power failures, one
  failing call, one rescue, two writes.
- `stage1_wait`: a limit of 14, intervals of 3 and 4, a sleep of 1 and calls of up to 3: four rounds of looking again,
  with room for each combination of a slow trigger, a slow `vgchange` and a disk between them; each loop alone, and
  three in a row, where the time one takes must not count for the next. Longer limits add rounds and no new case; the
  theorems are for all of them.
- `stage1_boot`: four filesystems beside the root (one in another, one with the init, one below `/run`), four
  special mounts (one already mounted, one below it), every combination of persistence, check and
  place of the init, with something at the path of init on its filesystem only or on the root and the persistence bind as well, and of the ways to fail, ten exit codes with each of the bits 1, 2, 4 and 8
  alone and together, and a signal; up to three processes beside init; one failing call. A process that is killed, one
  that is spared and one that is forked between the passes make three; two failures in a boot matter only where the first
  is a warning, and then leave less to go wrong.
- `boot_path`: two configurations, one of which gets no label; one specialisation; two generations; one
  failing call or kill of the builder, one failing call in each boot, two power failures, two temporary names
  in place of 101, so that both can be used up. Three setups of stage 2 cover the container, the initrd of systemd and the plain machine,
  with and without activation script.
- `mount_flags`: every set of two plain flags, nodiratime and the three modes for a filesystem,
  two mounts over one another at the store, six settings of the store's options, two of them with words stage 2 has no flag for, `/proc/mounts`
  readable or not, each mount of stage 2 failing or not, and up to three of fourteen words: a flag
  set, taken back and set again.
- `calendar`: every day from the year -2 to 2401, six turns of an era of 400 years, with the first and last second of days,
  hours and minutes.

### Fairness

- `persistence_switch` (`RunsEnd`): `FairSpec` says that a step of the utility that stays possible is taken:
  one process runs until it exits, every system call it makes returns, and the loops have
  nothing to wait for. Nothing is assumed about the administrator, and no
  crash is in that run. No claim is made that a run is ever started.
- `stage1_wait` (`WaitsEnd`): weak fairness of the loops and of the clock. No disk has to turn up and no event
  has to be heard.
- `stage1_boot` (`BootEnds`): weak fairness of `run` as a whole: PID 1 is always scheduled, and the external programs it waits for end. Nothing is
  assumed about other processes; that they may fork for ever during the passes over `/proc` does not matter because
  pids grow and there is a highest one.
- `boot_path` (`BootEnds`): weak fairness of stage 2; the helper may stop reading, and nothing is assumed about the
  builder, generations or power.

### Deadlock

Deadlock checking is off in every configuration: the number of runs, boots or waits is bounded, so
each behaviour comes to rest. That no program gets stuck half way is `RunsEnd`, `WaitsEnd` and `BootEnds`
for persistence and the boot; in the others the coverage of every action stands for it.

## What was found

Two runs end in a counterexample; each contradicts a sentence of the
repository, quoted in `PROJECT.json` under `findings`.

1. *A user's file inside the store is unlinked* (`persistence_hidden`). The
   placeholder flag is inherited by path (persistence lib.rs 197). A file is persisted, then
   its parent directory; the path of the file now resolves into the parent's
   source, where the persisted file is. When the file's entry is dropped, the
   utility removes "its placeholder" there.
2. *A machine that no longer boots* (`lustrate_retry`). The marker is removed after
   `old-root` is made (stage1 lib.rs 2055, 2079). If power fails in between, every later boot
   stages the root again and fails at the same rename.

The passing runs check the strongest form that holds: a property excludes exactly the
interruption that breaks it, and its comment says so. What they exclude, and what else the models had to
follow the code in, is:

- *persistence.* A link becomes a bind and the mount fails: the bind target that was made for it (978) is not removed and
  blocks the link, so that the recorded plan does not come back. In the same way the directories `ensure_parent` made for a bind below a path where a link was stay
  when the state cannot be written, and the link cannot be restored there; the crate's README (10-12) promises the recorded plan back when a projection or the commit fails.
  If `options.apply` fails and then the unmount that takes the bind back, the mount stays and the run says "restored". Killed between `mount` and `options.apply`
  (966), the next run takes the mount for done and records it without its options; `RetryCompletes` leaves options out. libmount's own table
  is stale if the utility is killed between `umount2` and `forget` (612-625).
- *update-users-groups.* `uid-map` is written after `/etc/passwd` (539): cut in between, an id can pass to another name
  (`IdsKept` asks for uncut runs there). An invalid expiry date (596) is found after `/etc/passwd` is written; the
  user is no longer new on the next run and stays locked (`AccountsRight`).
  A name whose uid or gid the specification changes loses the old one: the map holds one id for each name (267, 483), and the old
  one may go to somebody else, although files of its own may still carry it. The README of the crate (47-49) wants no id reused that the system knows about;
  `IdsNotReused` therefore speaks of the last id of a name.
- *setup-etc.* What is made before the records are committed (120) is on no record if the run ends and another
  generation follows (`NothingStays`). A direct link of the Perl script is on no record if `/etc/.clean` lists copies only: it is never removed, and
  a directory that should be in its place is not made (`Foreign` is what the properties except for that). A direct link to a directory becomes a directory (353): its entries are written
  through the link, then the link is removed; a second activation repairs it (`GenerationShown`).
- *init-script.* `extract_kernel_version` (about 211-232) goes two directories up from the resolved kernel, so that for
  `/nix/store/<linux>/bzImage` it looks in `/nix/store/lib/modules` and the generation is skipped; `Modules` says which systems are not.
  Specialisations are looked for beside the default configuration, where a configuration as built has them inside
  (`nix/vm-tests/rebuild.nix` 50).
- *stage 2.* Temporary links of interrupted boots are never removed: after more than a hundred of them `atomic_symlink`
  fails (`FailsForAReason` allows it). If the second `dup2` fails, the standard output stays on the pipe, although a
  comment (bash_compat.rs 127-128) says that systemd always inherits a real console (`HandOverReady` excepts it). If the helper dies, the next message
  ends PID 1 (`Panic`). `tee` is looked for in a default path that is not there before activation; the NixOS module sets another.
- *stage 1.* An error passed on by `?` ends PID 1 also under `boot.shell_on_fail`; `boot.debug1devices` and `debug1mounts` reboot
  unless it is given (the crate's README, 88-92, speaks of stable inspection points). A filesystem other than the root is mounted although its
  fsck failed. The bind of persistence covers what is mounted in the root (1978), and moving `/run` and the
  others covers what fsInfo has mounted below them, where a comment (2374-2376) expects EBUSY; `VisibleToInit` excepts both.
  The init that is started is whatever lies at its path (2370): where its own filesystem failed to mount, which is a warning, a stale one on the root is, and
  under persistence the one the bind has (`InitIsThere` excepts both). The default init (2901) leads through a link to `/nix/store`, which
  `exists` follows in the initrd. `wait_for_device` does not ask LVM (1153): `LateDiskFound` excepts volumes there. A component of a bcachefs source that is not a path is waited for until the limit (551).
- *mount flags.* A negated access time option has no effect but with nodiratime; strictatime beside nodiratime, and nosymfollow,
  are lost when the root is remounted; where `/proc/mounts` cannot be read, so are nosuid, nodev and noexec (bash_compat.rs 403-407: the
  raw remount is meant, the comment says so). The bind of `/nix/store` over itself is remounted with the options that are
  missing on the store (606, 655), and the kernel drops the others: a store that is mounted `nodev` and is to have `ro,nosuid,nodev` has no `nodev`
  afterwards, for all that a comment (561) has the options applied "unconditionally" (`StoreProtected` excepts them). Of the options of the store those without a flag in `opt_to_flag` (588), relatime and nosymfollow among
  them, go to the kernel as data of a bind remount and have no effect; that the bind or its remount fails is a warning (102), and the machine goes on with a store as it was.
  The lowest mount's line of `/proc/mounts` is read. "rw" and "exec" never take "ro" and "noexec" back in stage 1. The properties of `MountFlags`
  name each exception.

## What is proved

`PersistenceProofs`, for every set of paths with any nesting, every set of plans and any number of runs. The first three
also for any failures, kills, reboots and acts of the administrator:

- `TypeCorrect`: `Spec => []TypeOK`. Beside the types it says that an entry is in hand
  wherever the code uses one (`ControlType`). One step for each of the groups of
  actions, one below it for each action; `TypeOK` is inductive as it stands.
- `QuarantineSafe`: `Spec => QuarantineGivesBack`, what was caught by the rename of
  `remove_owned_symlink` and is a user's goes back or keeps its quarantine name.
  This needs `QuarantineInv`: the quarantine is empty but between `Quarantine`
  and `Inspect`, and no node of a user is a link to a source, so that `Inspect`
  cannot mistake it.
- `ForeignMountsSafe`: `Spec => ForeignMountsKept`, if nobody mounts or unmounts during a
  run (`BusyActs` has neither). It needs `MountsInv`: there is one mount per place,
  and between the check of its source and the unmount the mount at the target is the
  utility's own. The hard part (`MountsStep`) is that mounts and unmounts elsewhere change the
  place a path resolves to.

The others are about the switch itself, for a machine where nobody else is at work and nothing is killed (`Undisturbed`), whichever calls fail:

- `SwitchSafe`: `Spec /\ []OneFaultIsRestored => []PlanOrRecorded`, as long as no run has ended with restoring failed too, every run that ends
  leaves the plan it was given, or the recorded one, in place, and nothing else. `PlanOrRecorded` is about runs that have ended; what is kept meanwhile is `Whole`:
  mounts are nested as their targets are, so that a path resolves through what is mounted above it and nothing else (`NestInv`, with the lemma
  `NestedWalks`); what is shown is held by one of the lists of `run` (`UpperInv`) and what the lists say is done is shown (`LowerInv`);
  below a bind that is still to be mounted nothing is shown (`ClosedInv`), without which a mount would cover what was
  projected before it; the loops go through their lists from the inside out, or the other way (`OrderInv`); what the entry in hand may be at
  each place (`HandInv`); and that plans are valid and the goal is one of them (`PlanInv`). `Whole` alone is not inductive: a bind that is
  to be taken back while the *recorded* plan is restored breaks it for two steps, after which the run is lost (`Hopeless`), which is why the invariant is `Atomic`.
- `NotBusySafe`: from the same invariant, `[]NeverBusyOfItself`.
- `SwitchIsAtomic`: in those runs `Persistence` implements `AtomicSwitch`, step by step: initial states map to
  initial states, the rename of the state file is the commit, and every other step shows the same between runs. It assumes that two entries a look
  at the root cannot tell apart are one (`PlansAgree`).
- `OneFaultSafe`: `Spec => []OneFaultIsRestored` if one call fails at most and every path keeps to one kind (`OneKind`: a path is always a
  directory, always a file, or always a link). Then no step fails but by that fault, so that what `run` does after it succeeds.
  `Sound` says what the calls need: nodes have the kind of their path (`KindInv`), `prepare` has made what `activate`
  stands on (`ReadyInv`), and a run that fails has used the fault up (`FaultInv`).
- `OneFaultSwitchSafe` puts these together and assumes nothing of how runs end: with one failing call,
  `Spec => [](PlanOrRecorded /\ NeverBusyOfItself)`.
- `NoOrphanSafe`: `Spec => []NoOrphanPlaceholder`, no bind target stays behind, under the assumptions of `OneFaultSafe` and two more: the call that
  fails is not `mount` itself (the target prepared for it would stay: *What was found*), and a source is bound at one path only (`OneHome`; what lies inside
  a source is named by the path it is seen at, so that for a source that moves the model would not say what the code does). The code knows of a bind target only what the flags of
  three lists say, and no list is complete at every place; hence `Cared`. Each target that was made is empty, is where its path leads, and has a mount over it with a
  flagged entry, or is that of the entry in hand (`OwnedInv`). An unflagged bind stands on something the utility did not make, now (`StandInv`) and, for the
  recorded ones, again once they are back (`PastInv`), so that the failure path never has to make a target that the state file would not flag. The flags of recorded
  entries are in the plan (`FlagInv`) and no flag is there without a cause (`FreshInv`), so that nothing a recorded bind needs is removed. And no path exists without the
  directories above it, in each filesystem as far as plans lead into it (`TreeInv`), so that what is covered by a mount stays empty. Three lemmas carry the proof over the actions:
  `FixedBase`, that a path resolves where the plan says once the binds above it are up, from `DeepestOne` on finite chains; `Grows`, that what `ensure_parent` makes does not lie in a
  covered target; and `CareKept`, for all steps that mount nothing.

The assumption `BindsTakenBack` of the first three (one fault, or not both `apply` and `umount` may fail) and `OneKind` are both needed: *What was found* has the runs
that end otherwise. The plans of `persistence_switch` satisfy all the assumptions (of `NoOrphanSafe` too) but `OneKind`, they turn a link
into a bind: there TLC says more than the theorem.

`UsersGroupsProofs`, for every set of names, ids and specifications, any number of activations, of runs
that are cut and of acts of an administrator:

- `TypeCorrect`: `Spec => []TypeOK`; `ProgressInv` then says which names a run has handled at each place, which all the others need.
- `IdsAlwaysUnique`: `Spec => []IdsUnique`, from `UniqueInv`. That two users in `/etc/passwd` share only an id that was asked for is not inductive, because what is
  written is made of what was read: the same has to hold of `usersCur` and `usersOut`, and each id in `usersOut` has to come from
  the user's own line, from a specification, or be in no line. The proof needs no assumption about where runs are cut or when the administrator acts;
  it does need that the accounts there are before the first run share no id.
- `IdsAlwaysKept`: `Spec => IdsKept`, from `MapInv` and `StableInv`. The maps hold what was given last but for what the run under way has given and not
  stored yet; this is where the windows come from in which a run must not have been cut. `StableInv` says where an id in `usersOut` came from, and that a user
  who did not get the one in the map back lost it to somebody.
- `PasswordsAlwaysSurvive` and `AccountsAlwaysRight`, if the administrator acts between runs only (`QuietRuns`, as in the run; without it both are false, because
  the run writes back what it has read). `PasswordInv` ties what was read to what is in the file, `InitialInv` says why an account with an
  initial password has a line in shadow or gets one, `AccountsInv` that whoever is in a file was declared in the last list or is the administrator's.
- `DatesAlwaysExact`: `WallSpec => [](LabelExact /\ ExpiryExact)`, about `Calendar`, which both crates' date code is modelled in (the theorem is in this module). The wall
  calendar turns day by day without end, and the code's closed formulas agree with it every day of the years that fit into 32 bits, not only in the years TLC goes through. The invariant
  (`WallInv`) is the number of days as a sum over years and months; the rest is the arithmetic of the two conversions: where a year of the 400-year cycle begins
  (`YearParts`), that dividing finds it (`YearFound`), and that the month and the day come back (`DayParts`, `LabelFound`).

`SetupEtcProofs`, for every set of paths and generations, any number of runs, cuts, skipped entries and files of others:

- `TypeCorrect`: `Spec => [](TypeInv /\ PlaceInv)`, what each loop is over and that what is to be written has a directory, or a link to
  one, to go to. The lemma `Changes` lists from it all that a step can do to one path; the other proofs go through this list instead of the actions.
- `OthersAlwaysKept`: `Spec => OthersKept`, from that list.
- `NothingEverStays`: `Spec => []NothingStays`, from `RecordInv`: whatever is ours in `/etc` is on one of the two records, or is of a run that was
  cut, or has just been written; and `RestInv`, the property for a state in which only cut runs of the same generation are remembered. Without the
  latter the property would be lost when a cut run is repeated, which is when it matters.
- `AlwaysOldOrNew`: `Spec => []OldOrNew`, from `FineInv`: a path that was shown, and is a file or link in every generation since, shows one of them
  and is on the list of the run under way, if that has not come to it yet.
- `GenerationAlwaysShown`: `Spec => []GenerationShown`, from `CalmInv`: in a run that turns nothing into a directory or back, or that repeats the one before,
  a path not reached yet has room for what the generation wants there, and one that was reached has it, or is on a list, or is kept from it by
  somebody else's file.

`LustrateProofs`, for every tree of files, every set of markers and every bound:

- `TypeCorrect`: `Spec => []TypeOK`, inductive as it stands.
- `NoFileLost`: `Spec => []NothingLost`. It needs `SafeInv`: until a file is in
  `old-root` there is only one version of it, in the root, in `old-root.tmp` or in both; a file
  is removed only while its copy is there; after the rename `old-root.tmp` is empty,
  so that a repeated boot cannot bring an older version forward. Without the
  second part the step `Delete` would not preserve the first.
- `RetriesUntilPromoted`: `Spec => []RetriesBeforePromotion`, from `LateInv`: once
  a lustrate has begun, an `old-root` is there only if it was before or a boot ended after
  making it.
- `AlwaysComplete`: `Spec => []LustrateComplete`, from three invariants, one for each part of a boot: an entry that was dealt with is
  out of the root (`StagedInv`); what the marker lists is back, but for what is still to be done (`RestoredInv`); and what was served stays as it is (`ServedInv`).
- `OldRootSafe`: `Spec => OldRootKept`, by looking at every action that writes `old`.

`DeviceWaitProofs`, for every sequence of waits, every limit and interval and every duration of the calls:

- `TypeCorrect`, `WaitsBounded` (`Spec => []WaitBounded`) and `DevicesFound` (`Spec => NoneMissed`), all from `WaitInv`.
  Its parts say when the call under way began and how late it may return (`CallInv`), that a device that is ready was not
  when this turn of the loop began (`FoundInv`), what the device manager must know by now (`SeenInv`), and how long ago it
  last looked (`LateInv`). `WaitBounded` alone is not inductive: that a call returns in time depends on when the loop
  decided to make it. The lemma `FinishKeepsInv` covers the change from one wait to the next, where the clock
  starts anew and the device may have been ready for long. The step for each action is linear arithmetic.

`Stage1BootProofs`, for every set of filesystems and special mounts, every set of configurations and exit
codes, and any number of processes and failing calls:

- `OrderAlways`: `Spec => []StepsInOrder`, from `OrderInv`, which bounds for each place in `Order` what is mounted and
  checked when the boot has come there: only what is mounted early until the root is, only the root besides until every
  filesystem that asks for it was checked. The root's verdict comes from the bits: an exit code for which `Verdict` is good is
  0 or 1 (`GoodVerdict`).
- `ProcessesAlwaysSorted`: `Spec => []ProcessesSorted`, from `SortInv`: behind the cursor of the second pass no plain process is alive, because whatever is forked
  meanwhile gets a pid above it; and until the first pass begins only the device manager was asked to terminate, so that a storage daemon is spared as it was found.

`BootPathProofs`, for every set of systems and specialisations, any number of generations, boots, kills, power failures and failing calls:

- `MenuAlwaysRight`: `PathSpec => []MenuRight`, from `ListInv` (what the builder has listed so far is what it has looked at) and `MenuInv`. Sorting
  is a permutation because the rank of an entry is a bijection, which is a lemma about `Sorted`.
- `LauncherAlwaysWhole`: `PathSpec => []LauncherWhole`. `LauncherInv` follows the temporary file: what it holds at each
  place in the builder, and that it is whole and executable when it is renamed, whatever an earlier run has left under its name.
- `HandOverAlwaysReady`: `PathSpec => []HandOverReady`. `HandInv` says for each step of stage 2 what has been done when it is
  reached, and relates the descriptors, the helper and the guard: the descriptors lead to the pipe only while there is a guard to
  restore them, or after a `dup2` that failed.
- `AlwaysForAReason`: `PathSpec => []FailsForAReason`, from `TempsInv`, which counts the temporary links: one more than the boots that were cut
  in a boot that failed, none more in one that has not made its own yet, and none in `/run`; and `ReasonInv`, that what stage 2 writes is read unless a call has failed.

`MountFlagsProofs`, for every set of options, flags and words, option lists of any length and any number of mounts over one another:

- `FlagsAlwaysAsAsked`: `Spec => [](TypeOK /\ FlagsAsAsked)`. The property is about a list of words and the parser keeps two sets, so the invariant
  says after each word what the sets know of the list: of every flag, what the last word about it said (`LastWordInv`), and of the access time mode at most the last
  that was named, the others being cleared (`ModeInv`). Besides, the mount that is bound has one mode (`SingleInv`), as the kernel sees to. The remount of the root is by cases: with `/proc/mounts` and without.
- `StoreAlwaysProtected`: `Spec => StoreProtected`, for all sets of options, words stage 2 does not know included: it has at most one flag
  for the access time mode (`KnownFlags`), so that a list cannot ask for two. A call that fails leaves what the store shows as it was.

The theorems rest on the assumptions the modules name, and on nothing else: nesting is a strict
order and the distinguished values are distinct (`ConstantsOK` of `Persistence`), each file is in one entry (that of `Lustrate`), names and ids of `UsersGroups` are distinct from `None` and accounts before the first run share no uid, the trees of `SetupEtc` are two levels deep (`ConstantsOK` of both), the loops have time to look
twice (`LooksInTime`; the code's 3 s between looks and 3 s of settling leave `lvm` more than 20 of the 30 s) and durations are numbers (`TimesOK`), filesystems have names of their own (`NamesOK`), and the constants
have their types (`MountsOK`, `BoundsOK`, `BuilderOK`, `NoFileOK`, `FlagsOK`). TLC evaluates them in the runs.

Only model-checked:

- liveness (`RunsEnd`, `WaitsEnd`, `BootEnds`), which is out of the prover's reach;
- `InitReady` of `Stage1Boot`, which is about what a recursive function (`Walk`) finds in a table of mounts of any length: an induction over data;
- `RetryCompletes` of `Persistence`, which no proof was attempted for: it is about a run that was killed, where `Whole` does not hold;
- the switch where a path changes its kind, or several calls fail: `OneFaultSafe` is false there for all plans, and the runs say for which it holds;
- `Settles` of `UsersGroups`, which relates three activations in a row.

Two of the proofs first failed for a reason, and changed the models: that an id passes to no other name held in the run only because no specification there
changed the id of a user and then dropped it, and that nothing of an earlier generation stays only because the Perl script's list had every link
(both under *What was found*).

## Not modelled, and what comes next

Not modelled for good: byte formats of the files, options and command lines, logging,
owners and modes, the multicall dispatcher, and the inside of
external programs (udev, LVM, fsck, systemd, the smfh library). Of stage 1, what the preparing steps do in
detail (secrets, kernel modules, link units, copying an ISO to memory, hooks): they change files of the initrd that
no other step of the model reads, and their failure is in the model. Of stage 2, the hand-off through systemctl and
the boot specification. Loss of unsynced data when power fails
is left out too: a rename, once done, stays. Pids do not wrap.

What is left to prove: `RetryCompletes`, for runs that are killed, and `Settles` of `UsersGroups`.
