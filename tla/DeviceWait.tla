----------------------------- MODULE DeviceWait -----------------------------
(***************************************************************************)
(* How stage 1 waits for block devices: the loop of mount_root, which has    *)
(* the device manager and LVM look again every few seconds, wait_for_device, *)
(* which has only the device manager look again, and mount_bcachefs, which   *)
(* tries to mount until the time is over.                                    *)
(*                                                                           *)
(* Time passes only in calls that take time (sleep, udevadm, lvm,            *)
(* mount.bcachefs); the world goes on meanwhile: disks turn up late, and the *)
(* device manager may miss the event.                                        *)
(***************************************************************************)
EXTENDS Integers, Sequences

CONSTANTS
  Jobs,          \* what is waited for, one thing after another: see JobsOK
  Limit,         \* seconds of the loops with a limit (30, and 10 for persistence)
  RootInterval,  \* seconds between looking again in mount_root (3) ...
  WaitInterval,  \* ... and in wait_for_device (5)
  Sleep, Pause,  \* the sleeps of the loops and of mount_bcachefs (100 and 500 ms)
  MaxTrigger,    \* longest time that retrigger_block takes
  MaxLvm,        \* ... lvm vgchange
  MaxMount       \* ... mount.bcachefs

ASSUME JobsOK ==
  \A j \in Jobs : j \in Seq({"root", "device", "bcachefs"}) /\ j # <<>>
ASSUME TimesOK ==
  /\ {Limit, RootInterval, WaitInterval, Sleep, Pause} \subseteq Nat \ {0}
  /\ {MaxTrigger, MaxLvm, MaxMount} \subseteq Nat
\* The loops have time to look again: they wait for that, look and sleep within the limit.
ASSUME LooksInTime ==
  /\ RootInterval + 2 * Sleep + MaxTrigger + MaxLvm < Limit
  /\ WaitInterval + 2 * Sleep + MaxTrigger < Limit

Never == -1

VARIABLES
  jobs,     \* what is still to be waited for, the present wait first
  pc,       \* where the loop is: "test", "trigger", "lvm", "sleep", "attempt", "end"
  now,      \* the time
  began, wake, \* when the call under way began, and when it returns
  start, last, \* when the wait began, when the device manager last looked again
  volume,   \* the device is a logical volume, its disk the physical one
  disk,     \* when the disk turned up
  seen,     \* the device manager has taken note of the disk
  ready,    \* when the device became ready
  result    \* of the waits that are over, the last one first

vars == <<jobs, pc, now, began, wake, start, last, volume, disk, seen, ready, result>>
world == <<volume, disk, seen, ready>>
----------------------------------------------------------------------------
Job == Head(jobs)
Interval == IF Job = "root" THEN RootInterval ELSE WaitInterval
FirstStep(job) == IF job = "bcachefs" THEN "attempt" ELSE "test"

Init ==
  /\ jobs \in Jobs
  /\ pc = FirstStep(Head(jobs))
  /\ now = 0 /\ began = 0 /\ wake = 0 /\ start = 0 /\ last = 0
  /\ volume \in BOOLEAN /\ disk = Never /\ seen = FALSE /\ ready = Never
  /\ result = <<>>

\* A call that takes between least and most, and where the loop goes on after it.
Call(least, most, next) ==
  /\ \E d \in least .. most : wake' = now + d
  /\ began' = now
  /\ pc' = next
Awake == now = wake /\ pc # "end"

\* The present wait is over; the next one starts its own clock.
Finish(r) ==
  /\ result' = <<r>> \o result
  /\ jobs' = Tail(jobs)
  /\ pc' = IF Len(jobs) = 1 THEN "end" ELSE FirstStep(jobs[2])
  /\ start' = now /\ last' = now
  /\ UNCHANGED <<now, began, wake>>

ElapsedSinceLook == now - last  \* Mutant: looking again starts the clock anew
Elapsed == now - start
----------------------------------------------------------------------------
\* The loops of mount_root and wait_for_device.
Found ==
  /\ Awake /\ pc = "test" /\ Elapsed < Limit
  /\ ready # Never
  /\ Finish("found") /\ UNCHANGED world

LookAgain == now - last >= Interval

NotYet ==
  /\ Awake /\ pc = "test" /\ Elapsed < Limit
  /\ ready = Never
  /\ IF LookAgain THEN Call(0, MaxTrigger, "trigger") ELSE Call(0, 0, "sleep")
  /\ UNCHANGED <<jobs, now, start, last, result, world>>

\* Mutant: gives up when there is no time to look again.
TimedOutEarly ==
  /\ Awake /\ pc = "test" /\ Elapsed + Interval >= Limit
  /\ Finish("timeout") /\ UNCHANGED world
TimedOut ==
  /\ Awake /\ pc = "test" /\ Elapsed >= Limit
  /\ Finish("timeout") /\ UNCHANGED world

\* retrigger_block has returned: the device manager knows the disks that were there
\* when it was called, and perhaps one that has turned up since.
Triggered ==
  /\ Awake /\ pc = "trigger"
  /\ \E knows \in BOOLEAN :
       /\ knows => disk # Never
       /\ (seen \/ disk \in 0 .. began) => knows
       /\ seen' = knows
       /\ ready' = IF knows /\ ready = Never /\ ~volume THEN now ELSE ready
  /\ IF Job = "root" THEN Call(0, MaxLvm, "lvm") /\ UNCHANGED last
     ELSE pc' = "sleep" /\ last' = now /\ UNCHANGED <<began, wake>>
  /\ UNCHANGED <<jobs, now, start, volume, disk, result>>

\* lvm vgchange -ay has returned: volumes on disks that were known are active.
VolumesActivated ==
  /\ Awake /\ pc = "lvm"
  /\ \E active \in BOOLEAN :
       /\ active => volume /\ seen
       /\ volume /\ seen /\ disk <= began => active
       /\ ready' = IF active /\ ready = Never THEN now ELSE ready
  /\ last' = now /\ pc' = "sleep"
  /\ UNCHANGED <<jobs, now, began, wake, start, volume, disk, seen, result>>

\* Mutant: no sleep, and no time passes between two tests.
SleptNot ==
  /\ Awake /\ pc = "sleep" /\ pc' = "test"
  /\ UNCHANGED <<jobs, now, began, wake, start, last, result, world>>
Slept ==
  /\ Awake /\ pc = "sleep"
  /\ Call(Sleep, Sleep, "test")
  /\ UNCHANGED <<jobs, now, start, last, result, world>>

\* mount_bcachefs: try, and only then look at the time.
Attempt ==
  /\ Awake /\ pc = "attempt"
  /\ Call(0, MaxMount, IF ready # Never THEN "mounted" ELSE "failed")
  /\ UNCHANGED <<jobs, now, start, last, result, world>>

Mounted ==
  /\ Awake /\ pc = "mounted"
  /\ Finish("found") /\ UNCHANGED world

AttemptFailed ==
  /\ Awake /\ pc = "failed"
  /\ IF Elapsed >= Limit THEN Finish("timeout")
     ELSE Call(Pause, Pause, "attempt") /\ UNCHANGED <<jobs, now, start, last, result>>
  /\ UNCHANGED world
----------------------------------------------------------------------------
\* The world: time passes in calls only; the disk turns up, and the device manager
\* hears of it, or does not.
Tick ==
  /\ now < wake
  /\ now' = now + 1
  /\ UNCHANGED <<jobs, pc, began, wake, start, last, result, world>>

DiskAppears ==
  /\ disk = Never /\ pc # "end"
  /\ disk' = now
  /\ \E heard \in BOOLEAN :
       seen' = heard /\ ready' = IF heard /\ ~volume THEN now ELSE Never
  /\ UNCHANGED <<jobs, pc, now, began, wake, start, last, volume, result>>

Stage1 == Found \/ NotYet \/ TimedOut \/ Triggered \/ VolumesActivated \/ Slept
          \/ Attempt \/ Mounted \/ AttemptFailed
Next == Stage1 \/ Tick \/ DiskAppears

\* The program goes on and time passes; no disk has to turn up.
Fairness == WF_vars(Stage1) /\ WF_vars(Tick)
Spec == Init /\ [][Next]_vars /\ Fairness
----------------------------------------------------------------------------
Time == Nat \cup {Never}
TypeOK ==
  /\ jobs \in Seq({"root", "device", "bcachefs"}) /\ (pc # "end" => jobs # <<>>)
  /\ pc \in {"test", "trigger", "lvm", "sleep", "attempt", "mounted", "failed", "end"}
  /\ {now, began, wake, start, last} \subseteq Nat /\ began <= now /\ now <= wake /\ start <= now /\ last <= now
  /\ volume \in BOOLEAN /\ seen \in BOOLEAN /\ {disk, ready} \subseteq Time
  /\ result \in Seq({"found", "timeout"})

\* One turn of the present loop at most.
Turn == IF Job = "bcachefs" THEN MaxMount + Pause
        ELSE MaxTrigger + Sleep + IF Job = "root" THEN MaxLvm ELSE 0

\* A wait is over Limit after it began, and one turn at most: boot is not held up
\* longer than that by a disk that never comes, however often the loop looks again.
WaitBounded == pc # "end" => now - start <= Limit + Turn

\* A device that is ready a turn before the limit is not reported missing, although
\* the loops look at the time between the calls only.
FoundInTime ==
  (TimedOut \/ AttemptFailed) /\ jobs' # jobs =>
    ready = Never \/ ready + Turn >= start + Limit

\* A disk whose event was missed, or which has volumes on it that nobody activates, is
\* found by looking again if it turns up an interval and two turns before the limit; by
\* wait_for_device, which does not ask LVM, only if it is no volume.
LateDiskFound ==
  TimedOut /\ (Job = "root" \/ ~volume) =>
    disk = Never \/ disk + Interval + 2 * Turn >= start + Limit

\* No disk that could be had in time is reported missing.
NoneMissed == [][FoundInTime /\ LateDiskFound]_vars

\* Every wait comes to an end.
WaitsEnd == <>(pc = "end")
=============================================================================
