-------------------------- MODULE DeviceWaitProofs --------------------------
(***************************************************************************)
(* How long stage 1 waits, and that it misses no device, for every sequence  *)
(* of waits, every limit and every duration of the calls: whenever the disk  *)
(* turns up, whatever the device manager hears of it.                        *)
(***************************************************************************)
EXTENDS DeviceWait, TLAPS

Loops == {"test", "trigger", "lvm", "sleep"}
Attempts == {"attempt", "mounted", "failed"}
LookTime == MaxTrigger + IF Job = "root" THEN MaxLvm ELSE 0

\* Which steps belong to which wait.
JobInv ==
  /\ pc \in Loops => Job \in {"root", "device"}
  /\ pc = "lvm" => Job = "root"
  /\ pc \in Attempts => Job = "bcachefs"

\* When the call under way began and how long it may take: every wait is looked at again
\* before its limit and a turn are over.
CallInv ==
  /\ pc = "test" => wake <= start + Limit + Turn /\ (wake = start \/ wake <= began + Sleep)
  /\ pc = "trigger" => began < start + Limit /\ wake <= began + MaxTrigger
  /\ pc = "lvm" => began < start + Limit + MaxTrigger /\ wake <= began + MaxLvm
  /\ pc = "sleep" => wake < start + Limit + LookTime /\ wake = now
  /\ pc = "attempt" => wake <= start + Limit + Pause
  /\ pc \in {"mounted", "failed"} => began <= start + Limit + Pause /\ wake <= began + MaxMount

\* A device that is ready was not so when the turn began that is under way.
ReadySince(t) == ready = Never \/ t <= ready
FoundInv ==
  /\ pc = "test" => wake = start \/ ReadySince(wake - Turn)
  /\ pc = "trigger" => ReadySince(began)
  /\ pc = "lvm" => ReadySince(began - MaxTrigger)
  /\ pc = "sleep" => ReadySince(wake - LookTime)
  /\ pc = "failed" => ReadySince(began)

\* What the device manager knows of the disk.
SeenInv ==
  /\ seen => disk # Never
  /\ seen /\ ~volume => ready # Never
  /\ pc = "lvm" /\ ~seen /\ disk # Never => began <= disk + MaxTrigger

\* The present loop can make the disk ready, and t is not later than the end of the turn
\* that looks again for the first time.
Helps == disk # Never /\ (Job = "root" \/ ~volume)
InFirstLook(t) == t <= start + Interval + Sleep \/ t <= disk + Interval + LookTime + Sleep

\* As long as it is not ready, nobody has looked since the disk turned up; therefore each
\* step comes early enough after the disk.
LateInv ==
  /\ pc = "test" => wake <= last + Interval + Sleep
  /\ pc = "sleep" => wake <= last + Interval
  /\ pc # "end" /\ Helps /\ ready = Never => last <= start \/ last <= disk + LookTime
  /\ pc = "test" /\ Helps => InFirstLook(wake - LookTime - Sleep)
  /\ pc = "trigger" /\ Helps => InFirstLook(began)
  /\ pc = "lvm" /\ Helps => InFirstLook(began - MaxTrigger)
  /\ pc = "sleep" /\ Helps => InFirstLook(wake - LookTime)

WaitInv == TypeOK /\ JobInv /\ CallInv /\ FoundInv /\ SeenInv /\ LateInv
----------------------------------------------------------------------------
\* The durations are numbers, and a turn of a loop is a look and a sleep.
LEMMA Durations ==
  /\ {Interval, LookTime, Turn, Limit, Sleep, Pause, MaxTrigger, MaxLvm, MaxMount} \subseteq Nat
  /\ Limit > 0 /\ Sleep > 0
  /\ Job \in {"root", "device"} => Turn = LookTime + Sleep /\ Interval + Sleep + Turn < Limit
  /\ Job = "root" => LookTime = MaxTrigger + MaxLvm
  /\ Job = "device" => LookTime = MaxTrigger
  /\ Job = "bcachefs" => Turn = MaxMount + Pause
BY TimesOK, LooksInTime DEF Interval, LookTime, Turn

\* After it nothing has happened yet, whatever the wait.
LEMMA FinishKeepsInv ==
  ASSUME WaitInv, Awake, NEW r \in {"found", "timeout"}, Finish(r), UNCHANGED world
  PROVE  WaitInv'
<1>1. now = wake /\ pc # "end"
  BY DEF Awake
\* A wait that is over is followed by the first step of the next, at its start.
<1>2. /\ start' = now /\ last' = now /\ now' = now /\ wake' = wake /\ began' = began
      /\ jobs' \in Seq({"root", "device", "bcachefs"}) /\ result' \in Seq({"found", "timeout"})
      /\ pc' \in {"test", "attempt", "end"} /\ (pc' # "end" => jobs' # <<>>)
      /\ (pc' = "test" => Job' \in {"root", "device"})
      /\ (pc' = "attempt" => Job' = "bcachefs")
  <2>1. jobs \in Seq({"root", "device", "bcachefs"}) /\ jobs # <<>> /\ result \in Seq({"found", "timeout"})
    BY <1>1 DEF WaitInv, TypeOK
  <2>2. Tail(jobs) \in Seq({"root", "device", "bcachefs"}) /\ Len(Tail(jobs)) = Len(jobs) - 1
        /\ Len(jobs) \in Nat \ {0}
    BY <2>1
  <2>3. <<r>> \o result \in Seq({"found", "timeout"})
    BY <2>1
  <2>4. CASE Len(jobs) = 1
    BY <2>1, <2>2, <2>3, <2>4 DEF Finish
  <2>5. CASE Len(jobs) # 1
    <3>1. jobs' = Tail(jobs) /\ Len(Tail(jobs)) \in Nat \ {0}
      BY <2>2, <2>5 DEF Finish
    <3>2. Tail(jobs)[1] = jobs[2] /\ jobs[2] \in {"root", "device", "bcachefs"}
      BY <2>1, <2>2, <2>5
    <3>3. jobs' # <<>> /\ Job' = jobs[2] /\ jobs[2] \in {"root", "device", "bcachefs"}
      <4>1. \A s \in Seq({"root", "device", "bcachefs"}) : Len(s) # 0 => s # <<>> /\ Head(s) = s[1]
        OBVIOUS
      <4>2. Tail(jobs) # <<>> /\ Head(Tail(jobs)) = Tail(jobs)[1]
        BY <2>2, <3>1, <4>1
      <4>3. Job' = Head(jobs')
        BY DEF Job
      <4> QED BY <3>1, <3>2, <4>2, <4>3
    <3> QED BY <2>1, <2>2, <2>3, <2>5, <3>3 DEF Finish, FirstStep
  <2> QED BY <2>4, <2>5
<1>3. {Interval', LookTime', Turn', Limit, Sleep, Pause} \subseteq Nat
  BY TimesOK DEF Interval, LookTime, Turn
<1>4. volume' = volume /\ disk' = disk /\ seen' = seen /\ ready' = ready
  BY DEF world
<1>5. TypeOK'
  BY <1>1, <1>2, <1>4 DEF WaitInv, TypeOK
<1>6. JobInv' /\ CallInv'
  <2>1. JobInv'
    BY <1>2 DEF JobInv, Loops, Attempts
  <2>2. start' \in Nat /\ wake' = start'
    BY <1>1, <1>2 DEF WaitInv, TypeOK
  <2>3. CallInv'
    BY <1>2, <1>3, <2>2 DEF CallInv
  <2> QED BY <2>1, <2>3
<1>7. FoundInv' /\ SeenInv'
  BY <1>1, <1>2, <1>4 DEF WaitInv, FoundInv, SeenInv
<1>8. LateInv'
  <2>1. {now, start', last', wake', Interval', LookTime', Sleep} \subseteq Nat
    BY <1>1, <1>2, <1>3, TimesOK DEF WaitInv, TypeOK
  <2>2. start' = wake' /\ last' = wake' /\ wake' - LookTime' - Sleep <= start' + Interval' + Sleep
    BY <1>1, <1>2, <2>1
  <2> QED BY <1>2, <2>1, <2>2 DEF LateInv, InFirstLook
<1> QED BY <1>5, <1>6, <1>7, <1>8 DEF WaitInv

----------------------------------------------------------------------------
----------------------------------------------------------------------------
\* The invariant that the three theorems below share.
THEOREM Invariance == Spec => []WaitInv
<1>1. Init => WaitInv
  <2> SUFFICES ASSUME Init PROVE WaitInv
    OBVIOUS
  <2>1. jobs \in Seq({"root", "device", "bcachefs"}) /\ jobs # <<>>
    BY JobsOK DEF Init
  <2>2. Job \in {"root", "device", "bcachefs"} /\ pc = FirstStep(Job)
    BY <2>1 DEF Init, Job
  <2>3. TypeOK
    <3>1. result \in Seq({"found", "timeout"}) /\ pc \in {"test", "attempt"}
      BY <2>2 DEF Init, FirstStep
    <3>2. {now, began, wake, start, last} \subseteq Nat /\ {disk, ready} \subseteq Time
      BY DEF Init, Time
    <3>3. began <= now /\ now <= wake /\ start <= now /\ last <= now
      BY DEF Init
    <3>4. volume \in BOOLEAN /\ seen \in BOOLEAN
      BY Zenon DEF Init
    <3> QED BY <2>1, <3>1, <3>2, <3>3, <3>4 DEF TypeOK
  <2>4. JobInv /\ CallInv
    <3>1. JobInv
      BY <2>2 DEF JobInv, FirstStep, Loops, Attempts
    <3>2. pc \in {"test", "attempt"} /\ start = 0 /\ wake = 0 /\ {Limit, Turn, Pause} \subseteq Nat
      BY <2>2, Durations DEF Init, FirstStep
    <3>3. CallInv
      BY <3>2 DEF CallInv
    <3> QED BY <3>1, <3>3
  <2>5. FoundInv /\ SeenInv /\ LateInv
    BY <2>2, Durations DEF Init, FoundInv, SeenInv, LateInv, ReadySince, FirstStep, Helps, InFirstLook
  <2> QED BY <2>3, <2>4, <2>5 DEF WaitInv
\* Every step keeps the invariant.
<1>2. WaitInv /\ [Next]_vars => WaitInv'
  <2> SUFFICES ASSUME WaitInv, [Next]_vars PROVE WaitInv'
    OBVIOUS
  \* While a wait goes on, so do its durations.
  <2>w. jobs' = jobs => Job' = Job /\ Interval' = Interval /\ LookTime' = LookTime /\ Turn' = Turn
    BY DEF Job, Interval, LookTime, Turn
  <2> USE DEF WaitInv
  <2>d. {Interval, LookTime, Turn, Limit, Sleep, Pause, MaxTrigger, MaxLvm, MaxMount} \subseteq Nat
        /\ Limit > 0 /\ Sleep > 0
    BY Durations
  <2>j. /\ Job = "root" => LookTime = MaxTrigger + MaxLvm
        /\ Job = "device" => LookTime = MaxTrigger
        /\ Job \in {"root", "device"} => Turn = LookTime + Sleep
        /\ Job = "bcachefs" => Turn = MaxMount + Pause
    BY Durations
  <2>t. /\ {now, began, wake, start, last} \subseteq Nat /\ began <= now /\ now <= wake
        /\ start <= now /\ last <= now
        /\ \A t \in {disk, ready} : t \in Nat \/ t = Never
    BY DEF TypeOK, Time
  <2>b. seen \in BOOLEAN /\ disk \in Time /\ ready \in Time
    BY DEF TypeOK
  <2>k. ASSUME jobs' = jobs, result' = result, volume' = volume,
               \/ pc # "end" /\ pc' \in Loops \cup Attempts
               \/ pc' = pc,
               {now', began', wake', start', last'} \subseteq Nat,
               began' <= now', now' <= wake', start' <= now', last' <= now',
               seen' \in BOOLEAN, disk' \in Time, ready' \in Time
        PROVE  TypeOK'
    <3>1. jobs' \in Seq({"root", "device", "bcachefs"}) /\ (pc' # "end" => jobs' # <<>>)
      BY <2>k DEF TypeOK
    <3>2. pc' \in {"test", "trigger", "lvm", "sleep", "attempt", "mounted", "failed", "end"}
      BY <2>k DEF TypeOK, Loops, Attempts
    <3>3. volume' \in BOOLEAN /\ result' \in Seq({"found", "timeout"})
      BY <2>k DEF TypeOK
    <3> QED BY <2>k, <3>1, <3>2, <3>3 DEF TypeOK
  <2>1. CASE Found \/ TimedOut \/ Mounted
    BY <2>1, FinishKeepsInv DEF Found, TimedOut, Mounted, Awake
  <2>2. CASE NotYet
    <3> USE <2>2
    <3>1. /\ jobs' = jobs /\ pc = "test" /\ now = wake /\ now' = now /\ start' = start /\ last' = last
          /\ began' = now /\ ready = Never /\ result' = result /\ now - start < Limit
          /\ volume' = volume /\ disk' = disk /\ seen' = seen /\ ready' = ready
      BY DEF NotYet, Call, Awake, Elapsed, world
    <3>2. \/ pc' = "trigger" /\ wake' \in now .. now + MaxTrigger
          \/ pc' = "sleep" /\ wake' = now /\ now - last < Interval
      BY <2>d, <2>t, <3>1 DEF NotYet, Call, LookAgain
    <3>3. Job' = Job /\ Interval' = Interval /\ LookTime' = LookTime /\ Turn' = Turn
      BY <3>1, <2>w
    <3>4. TypeOK' /\ JobInv' /\ SeenInv'
      <4>1. TypeOK'
        BY <2>b, <2>d, <2>k, <2>t, <3>1, <3>2, <3>3 DEF Loops, Attempts, Time
      <4>2. JobInv'
        BY <2>d, <2>t, <3>1, <3>2, <3>3 DEF JobInv, Loops, Attempts
      <4>3. SeenInv'
        BY <2>d, <2>t, <3>1, <3>2, <3>3 DEF SeenInv
      <4> QED BY <4>1, <4>2, <4>3
    <3>5. CallInv' /\ FoundInv'
      BY <2>d, <2>t, <3>1, <3>2, <3>3 DEF CallInv, FoundInv, ReadySince
    <3>6. LateInv'
      BY <2>d, <2>t, <3>1, <3>2, <3>3 DEF LateInv, Helps, InFirstLook
    <3> QED BY <3>4, <3>5, <3>6
  <2>3. CASE Triggered
    <3> USE <2>3
    <3>1. /\ jobs' = jobs /\ pc = "trigger" /\ now = wake /\ now' = now /\ start' = start
          /\ result' = result /\ volume' = volume /\ disk' = disk
      BY DEF Triggered, Awake
    <3>2. \/ Job = "root" /\ pc' = "lvm" /\ last' = last /\ began' = now /\ wake' \in now .. now + MaxLvm
          \/ Job # "root" /\ pc' = "sleep" /\ last' = now /\ began' = began /\ wake' = wake
      BY <2>d, <2>t, <3>1 DEF Triggered, Call
    <3>3. Job' = Job /\ Interval' = Interval /\ LookTime' = LookTime /\ Turn' = Turn
      BY <3>1, <2>w
    <3>4. /\ seen' \in BOOLEAN
          /\ seen' => disk # Never
          /\ disk \in 0 .. began => seen'
          /\ seen => seen'
          /\ ready' = IF seen' /\ ready = Never /\ ~volume THEN now ELSE ready
      BY DEF Triggered
    <3>5. TypeOK' /\ JobInv' /\ SeenInv'
      <4>1. TypeOK'
        BY <2>b, <2>d, <2>k, <2>t, <3>1, <3>2, <3>4 DEF Loops, Attempts, Time
      <4>2. JobInv'
        BY <3>1, <3>2, <3>3 DEF JobInv, Loops, Attempts
      <4>3. SeenInv'
        BY <2>d, <2>t, <3>1, <3>2, <3>4 DEF SeenInv, Never, CallInv
      <4> QED BY <4>1, <4>2, <4>3
    <3>6. CallInv' /\ FoundInv'
      BY <2>d, <2>j, <2>t, <3>1, <3>2, <3>3, <3>4 DEF CallInv, FoundInv, ReadySince, JobInv, Loops
    <3>7. LateInv'
      BY <2>d, <2>j, <2>t, <3>1, <3>2, <3>3, <3>4 DEF LateInv, Helps, InFirstLook, CallInv, Never, JobInv, Loops
    <3> QED BY <3>5, <3>6, <3>7
  <2>4. CASE VolumesActivated
    <3> USE <2>4
    <3>1. /\ jobs' = jobs /\ pc = "lvm" /\ now = wake /\ now' = now /\ start' = start
          /\ began' = began /\ wake' = wake /\ last' = now /\ pc' = "sleep"
          /\ result' = result /\ volume' = volume /\ disk' = disk /\ seen' = seen
      BY DEF VolumesActivated, Awake
    <3>2. /\ ready' \in {now, ready} /\ (ready # Never => ready' = ready)
          /\ volume /\ seen /\ disk <= began /\ ready = Never => ready' = now
      BY DEF VolumesActivated
    <3>3. Job' = Job /\ Interval' = Interval /\ LookTime' = LookTime /\ Turn' = Turn /\ Job = "root"
      BY <3>1, <2>w DEF JobInv
    <3>4. TypeOK' /\ JobInv'
      <4>1. TypeOK'
        BY <2>b, <2>k, <2>t, <3>1, <3>2 DEF Loops, Attempts, Time
      <4>2. JobInv'
        BY <3>1, <3>2, <3>3 DEF JobInv, Loops, Attempts
      <4> QED BY <4>1, <4>2
    <3>5. SeenInv'
      BY <2>t, <3>1, <3>2 DEF SeenInv, Never
    <3>6. CallInv' /\ FoundInv'
      BY <2>d, <2>j, <2>t, <3>1, <3>2, <3>3 DEF CallInv, FoundInv, ReadySince
    <3>7. LateInv'
      BY <2>d, <2>j, <2>t, <3>1, <3>2, <3>3 DEF LateInv, Helps, InFirstLook, CallInv, SeenInv, Never
    <3> QED BY <3>4, <3>5, <3>6, <3>7
  <2>5. CASE Slept
    <3> USE <2>5
    <3>1. /\ jobs' = jobs /\ pc = "sleep" /\ now = wake /\ now' = now /\ start' = start /\ last' = last
          /\ began' = now /\ wake' = now + Sleep /\ pc' = "test" /\ result' = result
          /\ volume' = volume /\ disk' = disk /\ seen' = seen /\ ready' = ready
      BY <2>d, <2>t DEF Slept, Call, Awake, world
    <3>2. Job' = Job /\ Interval' = Interval /\ LookTime' = LookTime /\ Turn' = Turn
      BY <3>1, <2>w
    <3>3. TypeOK' /\ JobInv' /\ SeenInv'
      <4>1. TypeOK'
        BY <2>b, <2>d, <2>k, <2>t, <3>1, <3>2 DEF Loops, Attempts, Time
      <4>2. JobInv'
        BY <2>d, <2>t, <3>1, <3>2 DEF JobInv, Loops, Attempts
      <4>3. SeenInv'
        BY <2>d, <2>t, <3>1, <3>2 DEF SeenInv
      <4> QED BY <4>1, <4>2, <4>3
    <3>4. CallInv' /\ FoundInv'
      BY <2>d, <2>j, <2>t, <3>1, <3>2 DEF CallInv, FoundInv, ReadySince, JobInv, Loops
    <3>5. LateInv'
      BY <2>d, <2>t, <3>1, <3>2 DEF LateInv, Helps, InFirstLook
    <3> QED BY <3>3, <3>4, <3>5
  <2>6. CASE Attempt
    <3> USE <2>6
    <3>1. /\ jobs' = jobs /\ pc = "attempt" /\ now = wake /\ now' = now /\ start' = start /\ last' = last
          /\ began' = now /\ result' = result
          /\ pc' = (IF ready # Never THEN "mounted" ELSE "failed") /\ wake' \in now .. now + MaxMount
          /\ volume' = volume /\ disk' = disk /\ seen' = seen /\ ready' = ready
      BY <2>d, <2>t DEF Attempt, Call, Awake, world
    <3>2. Job' = Job /\ Interval' = Interval /\ LookTime' = LookTime /\ Turn' = Turn
      BY <3>1, <2>w
    <3>3. TypeOK' /\ JobInv' /\ SeenInv'
      <4>1. TypeOK'
        BY <2>b, <2>d, <2>k, <2>t, <3>1, <3>2 DEF Loops, Attempts, Time
      <4>2. JobInv'
        BY <2>d, <2>t, <3>1, <3>2 DEF JobInv, Loops, Attempts
      <4>3. SeenInv'
        BY <2>d, <2>t, <3>1, <3>2 DEF SeenInv
      <4> QED BY <4>1, <4>2, <4>3
    <3>4. CallInv' /\ FoundInv' /\ LateInv'
      BY <2>d, <2>t, <3>1, <3>2 DEF CallInv, FoundInv, ReadySince, LateInv, Helps
    <3> QED BY <3>3, <3>4
  <2>7. CASE AttemptFailed
    <3>1. CASE Elapsed >= Limit
      BY <2>7, <3>1, FinishKeepsInv DEF AttemptFailed
    <3>2. CASE ~(Elapsed >= Limit)
      <4> USE <2>7, <3>2
      <4>1. /\ jobs' = jobs /\ pc = "failed" /\ now = wake /\ now' = now /\ start' = start /\ last' = last
            /\ began' = now /\ wake' = now + Pause /\ pc' = "attempt" /\ result' = result
            /\ now < start + Limit
            /\ volume' = volume /\ disk' = disk /\ seen' = seen /\ ready' = ready
        BY <2>d, <2>t DEF AttemptFailed, Call, Awake, world, Elapsed
      <4>2. Job' = Job /\ Interval' = Interval /\ LookTime' = LookTime /\ Turn' = Turn
        BY <4>1, <2>w
      <4>3. TypeOK' /\ JobInv' /\ SeenInv'
        <5>1. TypeOK'
          BY <2>b, <2>d, <2>k, <2>t, <4>1, <4>2 DEF Loops, Attempts, Time
        <5>2. JobInv'
          BY <2>d, <2>t, <4>1, <4>2 DEF JobInv, Loops, Attempts
        <5>3. SeenInv'
          BY <2>d, <2>t, <4>1, <4>2 DEF SeenInv
        <5> QED BY <5>1, <5>2, <5>3
      <4>4. CallInv' /\ FoundInv' /\ LateInv'
        BY <2>d, <2>t, <4>1, <4>2 DEF CallInv, FoundInv, LateInv, Helps
      <4> QED BY <4>3, <4>4
    <3> QED BY <3>1, <3>2
  <2>8. CASE Tick
    <3> USE <2>8
    <3>1. /\ jobs' = jobs /\ pc' = pc /\ now < wake /\ now' = now + 1 /\ start' = start /\ last' = last
          /\ began' = began /\ wake' = wake /\ result' = result
          /\ volume' = volume /\ disk' = disk /\ seen' = seen /\ ready' = ready
      BY DEF Tick, world
    <3>2. Job' = Job /\ Interval' = Interval /\ LookTime' = LookTime /\ Turn' = Turn
      BY <3>1, <2>w
    <3>3. TypeOK' /\ JobInv' /\ SeenInv'
      <4>1. TypeOK'
        BY <2>b, <2>d, <2>k, <2>t, <3>1, <3>2 DEF Loops, Attempts, Time
      <4>2. JobInv'
        BY <2>d, <2>t, <3>1, <3>2 DEF JobInv
      <4>3. SeenInv'
        BY <2>d, <2>t, <3>1, <3>2 DEF SeenInv
      <4> QED BY <4>1, <4>2, <4>3
    <3>4. CallInv' /\ FoundInv' /\ LateInv'
      BY <2>d, <2>t, <3>1, <3>2 DEF CallInv, FoundInv, ReadySince, LateInv, Helps, InFirstLook
    <3> QED BY <3>3, <3>4
  <2>9. CASE DiskAppears
    <3> USE <2>9
    <3>1. /\ jobs' = jobs /\ pc' = pc /\ now' = now /\ start' = start /\ last' = last
          /\ began' = began /\ wake' = wake /\ result' = result
          /\ volume' = volume /\ disk = Never /\ disk' = now /\ seen' \in BOOLEAN
          /\ ready' = IF seen' /\ ~volume THEN now ELSE Never
      BY DEF DiskAppears
    <3>2. Job' = Job /\ Interval' = Interval /\ LookTime' = LookTime /\ Turn' = Turn
      BY <3>1, <2>w
    <3>3. TypeOK' /\ JobInv' /\ SeenInv'
      <4>1. TypeOK'
        BY <2>b, <2>d, <2>k, <2>t, <3>1, <3>2 DEF Loops, Attempts, Time
      <4>2. JobInv'
        BY <2>d, <2>t, <3>1, <3>2 DEF JobInv
      <4>3. SeenInv'
        BY <2>d, <2>t, <3>1, <3>2 DEF SeenInv, Never
      <4> QED BY <4>1, <4>2, <4>3
    <3>4. CallInv' /\ FoundInv'
      BY <2>d, <2>j, <2>t, <3>1, <3>2 DEF CallInv, FoundInv, ReadySince, JobInv, Loops
    <3>5. LateInv'
      BY <2>d, <2>t, <3>1, <3>2 DEF LateInv, Helps, InFirstLook, CallInv
    <3> QED BY <3>3, <3>4, <3>5
  <2>10. CASE UNCHANGED vars
    <3>1. /\ jobs' = jobs /\ pc' = pc /\ now' = now /\ began' = began /\ wake' = wake /\ start' = start
          /\ last' = last /\ volume' = volume /\ disk' = disk /\ seen' = seen /\ ready' = ready /\ result' = result
      BY <2>10 DEF vars
    <3>2. Job' = Job /\ Interval' = Interval /\ LookTime' = LookTime /\ Turn' = Turn
      BY <3>1, <2>w
    <3>3. TypeOK'
      BY <2>b, <2>k, <2>t, <3>1
    <3>4. JobInv' /\ CallInv'
      <4>1. JobInv'
        BY <3>1, <3>2 DEF JobInv
      <4>2. CallInv'
        BY <3>1, <3>2 DEF CallInv
      <4> QED BY <4>1, <4>2
    <3>5. FoundInv' /\ SeenInv'
      BY <3>1, <3>2 DEF FoundInv, ReadySince, SeenInv
    <3>6. LateInv'
      BY <3>1, <3>2 DEF LateInv, Helps, InFirstLook
    <3> QED BY <3>3, <3>4, <3>5, <3>6
  <2> QED BY <2>1, <2>2, <2>3, <2>4, <2>5, <2>6, <2>7, <2>8, <2>9, <2>10 DEF Next, Stage1
<1> QED BY <1>1, <1>2, PTL DEF Spec

\* mount_root, wait_for_device and mount_bcachefs: where each loop is, and that time
\* runs forward, for every sequence of waits.
THEOREM TypeCorrect == Spec => []TypeOK
<1>1. WaitInv => TypeOK
  BY DEF WaitInv
<1> QED BY <1>1, Invariance, PTL

\* No wait of stage 1 takes longer than its limit and one turn of its loop.
THEOREM WaitsBounded == Spec => []WaitBounded
<1>1. WaitInv => WaitBounded
  <2> SUFFICES ASSUME WaitInv, pc # "end" PROVE now - start <= Limit + Turn
    BY DEF WaitBounded
  <2>1. {Interval, LookTime, Turn, Limit, Sleep, Pause, MaxTrigger, MaxLvm, MaxMount} \subseteq Nat
        /\ (Job = "root" => LookTime = MaxTrigger + MaxLvm)
        /\ (Job = "device" => LookTime = MaxTrigger)
        /\ (Job \in {"root", "device"} => Turn = LookTime + Sleep)
        /\ (Job = "bcachefs" => Turn = MaxMount + Pause)
    BY Durations
  <2>2. {now, began, wake, start} \subseteq Nat /\ now <= wake
        /\ pc \in {"test", "trigger", "lvm", "sleep", "attempt", "mounted", "failed"}
    BY DEF WaitInv, TypeOK
  <2> QED BY <2>1, <2>2 DEF WaitInv, JobInv, CallInv, Loops, Attempts
<1> QED BY <1>1, Invariance, PTL

\* No device that is ready a turn before the limit, and no disk that turns up an interval
\* and two turns before it, is reported missing by the loops of stage 1.
THEOREM DevicesFound == Spec => NoneMissed
<1>1. WaitInv /\ [Next]_vars => [FoundInTime /\ LateDiskFound]_vars
  <2> SUFFICES ASSUME WaitInv PROVE FoundInTime /\ LateDiskFound
    OBVIOUS
  <2> USE DEF WaitInv
  <2>1. {Interval, LookTime, Turn, Limit, Sleep, Pause, MaxTrigger, MaxLvm, MaxMount} \subseteq Nat
        /\ Limit > 0
    BY Durations
  <2>2. {now, began, wake, start} \subseteq Nat
        /\ \A t \in {disk, ready} : t \in Nat \/ t = Never
    BY DEF TypeOK, Time
  <2>3. CASE TimedOut
    <3>1. pc = "test" /\ now = wake /\ start + Limit <= wake
      BY <2>1, <2>2, <2>3 DEF TimedOut, Awake, Elapsed
    <3>2. Job \in {"root", "device"} /\ Turn = LookTime + Sleep /\ Interval + Sleep + Turn < Limit
      BY <3>1, Durations DEF JobInv, Loops
    <3>3. ready = Never \/ ready + Turn >= start + Limit
      BY <2>1, <2>2, <3>1 DEF FoundInv, ReadySince
    <3>4. Job = "root" \/ ~volume => disk = Never \/ disk + Interval + 2 * Turn >= start + Limit
      BY <2>1, <2>2, <3>1, <3>2 DEF LateInv, Helps, InFirstLook
    <3> QED BY <3>3, <3>4 DEF FoundInTime, LateDiskFound
  <2>4. CASE ~TimedOut
    <3>1. LateDiskFound
      BY <2>4 DEF LateDiskFound
    <3>2. ASSUME AttemptFailed, jobs' # jobs PROVE ready = Never \/ ready + Turn >= start + Limit
      <4>1. pc = "failed" /\ now = wake /\ start + Limit <= wake
        BY <2>1, <2>2, <3>2 DEF AttemptFailed, Awake, Elapsed
      <4>2. Turn = MaxMount + Pause
        BY <4>1, Durations DEF JobInv, Attempts
      <4> QED BY <2>1, <2>2, <4>1, <4>2 DEF FoundInv, ReadySince, CallInv
    <3> QED BY <2>4, <3>1, <3>2 DEF FoundInTime
  <2> QED BY <2>3, <2>4
<1> QED BY <1>1, Invariance, PTL DEF Spec, NoneMissed
=============================================================================
