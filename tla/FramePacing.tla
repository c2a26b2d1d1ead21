---------------------------- MODULE FramePacing ----------------------------
(***************************************************************************)
(* Frame pacing: src/src/platform/windows/windows_frame_pacer.cpp over      *)
(* src/src/core/frame_schedule.cpp.                                         *)
(*                                                                          *)
(* The main loop calls wait_for_next_frame once per frame.  The wait sleeps *)
(* on a waitable timer until shortly before the deadline of the schedule,   *)
(* spins on the performance counter until the deadline has passed, and      *)
(* advances the schedule to its next slot.  The thread may lose the         *)
(* processor between any two of these steps, so the clock ticks in between. *)
(*                                                                          *)
(* Times are whole ticks; the code's are doubles, whose rounding is left    *)
(* out.  The performance counter does not fail.                             *)
(***************************************************************************)
EXTENDS Integers

CONSTANTS
  Period,         \* period_seconds_
  SpinThreshold,  \* spin_threshold_seconds_
  StartTime,      \* what the clock may show when the process starts
  MaxTime         \* bound on the clock

ASSUME PacingAssumption ==
  /\ Period \in Nat \ {0} /\ SpinThreshold \in Nat
  /\ MaxTime \in Nat /\ StartTime \subseteq 0 .. MaxTime

VARIABLES
  clock,             \* what QpcClock::now_seconds would return
  start,             \* the clock when the pacer was constructed
  deadline_seconds,  \* of the FrameSchedule
  phase,             \* "absent" without a pacer, "work" outside of the wait, or the
                     \* step the wait is at
  now,               \* local variable of the wait
  due,               \* when the waitable timer is signalled
  returned           \* what the last wait returned

vars == <<clock, start, deadline_seconds, phase, now, due, returned>>

Init ==
  /\ clock \in StartTime /\ start = clock
  /\ deadline_seconds = start + Period
  /\ phase = "absent" /\ now = start /\ due = start /\ returned = start

\* The constructor: FrameSchedule resets its deadline to one period from now.
Construct ==
  /\ phase = "absent" /\ phase' = "work"
  /\ start' = clock /\ deadline_seconds' = clock + Period
  /\ now' = clock /\ due' = clock /\ returned' = clock
  /\ UNCHANGED clock

Destroy ==
  /\ phase = "work" /\ phase' = "absent"
  /\ UNCHANGED <<clock, start, deadline_seconds, now, due, returned>>

Tick ==
  /\ clock < MaxTime /\ clock' = clock + 1
  /\ UNCHANGED <<start, deadline_seconds, phase, now, due, returned>>

(***************************************************************************)
(* wait_for_next_frame                                                      *)
(***************************************************************************)
\* What is left of the wait at time t, less the time reserved for spinning.
CoarseWait(t) == deadline_seconds - t - SpinThreshold

Enter(next) ==
  /\ phase = "work"
  /\ now' = clock
  /\ phase' = next
  /\ UNCHANGED <<clock, start, deadline_seconds, due, returned>>

EnterLate  == clock >= deadline_seconds /\ Enter("advance")
EnterSoon  == clock < deadline_seconds /\ CoarseWait(clock) <= 0 /\ Enter("spin")

EnterEarly == CoarseWait(clock) > 0 /\ clock < deadline_seconds /\ Enter("arm")

\* SetWaitableTimer: the due time counts from the call, not from now.
Arm ==
  /\ phase = "arm"
  /\ due' = clock + CoarseWait(now)
  /\ phase' = "sleep"
  /\ UNCHANGED <<clock, start, deadline_seconds, now, returned>>

ArmFails ==
  /\ phase = "arm" /\ phase' = "spin"
  /\ UNCHANGED <<clock, start, deadline_seconds, now, due, returned>>

\* WaitForSingleObject returns, at the due time or later.
Wake ==
  /\ phase = "sleep" /\ clock >= due
  /\ phase' = "spin"
  /\ UNCHANGED <<clock, start, deadline_seconds, now, due, returned>>

\* Mutant of Spin: the counter is read once.
SpinOnce ==
  /\ phase = "spin"
  /\ now' = clock /\ phase' = "advance"
  /\ UNCHANGED <<clock, start, deadline_seconds, due, returned>>

\* Mutant of Spin: the loop does not read the counter again.
SpinWithoutClock ==
  /\ phase = "spin"
  /\ phase' = IF now < deadline_seconds THEN "spin" ELSE "advance"
  /\ UNCHANGED <<clock, start, deadline_seconds, now, due, returned>>

\* One iteration of the loop around YieldProcessor.
Spin ==
  /\ phase = "spin"
  /\ now' = clock
  /\ phase' = IF clock < deadline_seconds THEN "spin" ELSE "advance"
  /\ UNCHANGED <<clock, start, deadline_seconds, due, returned>>

\* Mutant of Advanced: one period from now.
AdvancedFromNow(deadline, time) == time + Period

\* advance_after_frame: at least one period, and as many as lead past the time.
Advanced(deadline, time) ==
  LET missed == IF time < deadline THEN 0 ELSE (time - deadline) \div Period
  IN  deadline + (missed + 1) * Period

Return ==
  /\ phase = "advance" /\ phase' = "work"
  /\ deadline_seconds' = Advanced(deadline_seconds, now)
  /\ returned' = now
  /\ UNCHANGED <<clock, start, now, due>>

Wait ==
  \/ EnterLate \/ EnterSoon \/ EnterEarly
  \/ Arm \/ ArmFails \/ Wake \/ Spin \/ Return

Next == Tick \/ Construct \/ Destroy \/ Wait

Spec == Init /\ [][Next]_vars

(***************************************************************************)
(* Properties                                                               *)
(***************************************************************************)
\* The types of the clock, the schedule and the locals of a wait, which arms the
\* timer only when there is something left to sleep.
TypeOK ==
  /\ clock \in 0 .. MaxTime /\ start \in 0 .. clock
  /\ now \in start .. clock /\ returned \in start .. now
  /\ deadline_seconds \in Nat /\ due \in Nat
  /\ phase \in {"absent", "work", "arm", "sleep", "spin", "advance"}
  /\ phase \in {"arm", "sleep"} => CoarseWait(now) > 0

\* Between two frames the deadline is the next slot: in the future of the last
\* frame, but no more than a period away, however late that frame was.
NextSlot ==
  /\ returned < deadline_seconds /\ deadline_seconds <= returned + Period
  /\ phase = "advance" => deadline_seconds <= now

\* The schedule keeps its timeline: no delay ever moves its slots.
OnTimeline == \E n \in 0 .. deadline_seconds : deadline_seconds = start + n * Period

\* The inductive invariant.
Inv == TypeOK /\ NextSlot /\ OnTimeline

Slot(time) == (time - start) \div Period

\* A slot has at most one frame: frames that were missed are skipped and never
\* made up for in a burst, and no frame comes before its slot.
OneFramePerSlot ==
  [][Return => Slot(returned') > Slot(returned)]_vars

\* The clock stops at its bound before what the wait waits for.
OutOfTime == deadline_seconds > MaxTime \/ (phase = "sleep" /\ due > MaxTime)

\* Every wait returns, whenever the timer is armed and however long the thread is
\* kept from running, unless the bound on the clock cuts the wait off.
WaitReturns ==
  phase \in {"arm", "sleep", "spin", "advance"} ~> (phase = "work" \/ OutOfTime)
=============================================================================
