-------------------------- MODULE FramePacingProofs --------------------------
(***************************************************************************)
(* The schedule of FramePacing and the process of Bootstrap, proved for     *)
(* every period, spin threshold, start time, size of the message queue and  *)
(* bound on the clock.  What is proved of the schedule rests on what        *)
(* advance_after_frame computes (AdvancedBounds), and holds of the process  *)
(* because each of its steps is a step of the pacer or leaves it alone.     *)
(***************************************************************************)
EXTENDS Bootstrap, TLAPS

LEMMA DivisionBounds ==
  ASSUME NEW a \in Nat, NEW p \in Nat \ {0}
  PROVE  /\ a \div p \in Nat
         /\ (a \div p) * p <= a /\ a < (a \div p + 1) * p
OBVIOUS

LEMMA ProductGrows ==
  ASSUME NEW n \in Nat, NEW p \in Nat \ {0}
  PROVE  n * p \in Nat /\ n <= n * p
OBVIOUS

\* What lies at or past slot n has a quotient of n or more, and what lies before
\* it one of less.
LEMMA QuotientAtSlot ==
  ASSUME NEW a \in Nat, NEW p \in Nat \ {0}, NEW n \in Nat
  PROVE  /\ n * p <= a => n <= a \div p
         /\ a < n * p => a \div p < n
<1> DEFINE q == a \div p
<1>1. q \in Nat /\ q * p <= a /\ a < (q + 1) * p
  BY DivisionBounds
<1>2. ASSUME NEW i \in Nat, NEW j \in Nat, i <= j PROVE i * p <= j * p
  <2>1. PICK d \in Nat : j = i + d
    <3>1. j - i \in Nat /\ j = i + (j - i)
      BY <1>2
    <3> QED BY <3>1
  <2>2. (i + d) * p = i * p + d * p /\ d * p \in Nat /\ i * p \in Nat
    OBVIOUS
  <2> QED BY <2>1, <2>2
<1>3. ASSUME n * p <= a PROVE n <= q
  <2> SUFFICES ASSUME q + 1 <= n PROVE FALSE
    BY <1>1
  <2>1. (q + 1) * p <= n * p
    BY <1>1, <1>2
  <2>2. n * p \in Nat /\ (q + 1) * p \in Nat
    BY <1>1
  <2> HIDE DEF q
  <2> QED BY <1>1, <1>3, <2>1, <2>2
<1>4. ASSUME a < n * p PROVE q < n
  <2> SUFFICES ASSUME n <= q PROVE FALSE
    BY <1>1
  <2>1. n * p <= q * p
    BY <1>1, <1>2
  <2>2. n * p \in Nat /\ q * p \in Nat
    BY <1>1
  <2> HIDE DEF q
  <2> QED BY <1>1, <1>4, <2>1, <2>2
<1> QED BY <1>3, <1>4

\* advance_after_frame moves the deadline by whole periods, to the first slot that
\* lies past the time given.
LEMMA AdvancedBounds ==
  ASSUME NEW deadline \in Nat, NEW time \in Nat, deadline <= time
  PROVE  /\ Advanced(deadline, time) \in Nat
         /\ time < Advanced(deadline, time)
         /\ Advanced(deadline, time) <= time + Period
         /\ \E k \in Nat : Advanced(deadline, time) = deadline + k * Period
<1> DEFINE late == time - deadline
           q == late \div Period
<1>1. late \in Nat /\ Period \in Nat \ {0}
  BY PacingAssumption
<1>2. q \in Nat /\ q * Period <= late /\ late < (q + 1) * Period
  BY <1>1, DivisionBounds
<1>3. Advanced(deadline, time) = deadline + (q + 1) * Period
  <2>1. CASE deadline = time
    <3>1. q = 0
      BY <1>1, <2>1
    <3> QED BY <2>1, <3>1 DEF Advanced
  <2>2. CASE deadline < time
    BY <2>2 DEF Advanced
  <2> QED BY <2>1, <2>2
<1>4. q + 1 \in Nat /\ (q + 1) * Period = q * Period + Period /\ q * Period \in Nat
  BY <1>1, <1>2
<1>5. deadline + (q + 1) * Period \in Nat
  BY <1>1, <1>4
<1> HIDE DEF q
<1>6. /\ time < deadline + (q + 1) * Period
      /\ deadline + (q + 1) * Period <= time + Period
  BY <1>1, <1>2, <1>4
<1> QED BY <1>3, <1>4, <1>5, <1>6

(***************************************************************************)
(* The inductive invariant                                                  *)
(***************************************************************************)
LEMMA InvInit == Init => Inv
<1> SUFFICES ASSUME Init PROVE Inv
  OBVIOUS
<1>1. TypeOK
  BY PacingAssumption DEF Init, TypeOK
<1>2. NextSlot
  BY PacingAssumption DEF Init, NextSlot
<1>3. OnTimeline
  <2>1. start \in Nat /\ Period \in Nat \ {0}
    BY PacingAssumption DEF Init
  <2>2. 1 \in 0 .. deadline_seconds /\ deadline_seconds = start + 1 * Period
    BY <2>1 DEF Init
  <2> QED BY <2>2 DEF OnTimeline
<1> QED BY <1>1, <1>2, <1>3 DEF Inv

\* The timeline of a new pacer.
LEMMA ConstructPreservesInv == Inv /\ Construct => Inv'
<1> SUFFICES ASSUME Inv, Construct PROVE Inv'
  OBVIOUS
<1>1. clock \in Nat /\ Period \in Nat \ {0}
  BY PacingAssumption DEF Inv, TypeOK
<1>2. TypeOK' /\ NextSlot'
  BY PacingAssumption DEF Inv, TypeOK, NextSlot, Construct
<1>3. 1 \in 0 .. deadline_seconds' /\ deadline_seconds' = start' + 1 * Period
  BY <1>1 DEF Construct
<1> QED BY <1>2, <1>3 DEF Inv, OnTimeline

\* A frame ends: the one step that moves the deadline of a pacer.
LEMMA ReturnPreservesInv == Inv /\ Return => Inv'
<1> SUFFICES ASSUME Inv, Return PROVE Inv'
  OBVIOUS
<1> USE DEF Inv
<1>1. /\ deadline_seconds \in Nat /\ now \in Nat /\ deadline_seconds <= now
      /\ start \in Nat /\ Period \in Nat \ {0}
  BY PacingAssumption DEF TypeOK, NextSlot, Return
<1>2. /\ deadline_seconds' = Advanced(deadline_seconds, now)
      /\ returned' = now /\ now' = now /\ phase' = "work" /\ start' = start
  BY DEF Return
<1>3. /\ deadline_seconds' \in Nat
      /\ now < deadline_seconds' /\ deadline_seconds' <= now + Period
  BY <1>1, <1>2, AdvancedBounds
<1>4. TypeOK'
  BY <1>2, <1>3 DEF TypeOK, Return, CoarseWait
<1>5. NextSlot'
  BY <1>2, <1>3 DEF NextSlot
<1>6. OnTimeline'
  <2>1. PICK n \in 0 .. deadline_seconds : deadline_seconds = start + n * Period
    BY DEF OnTimeline
  <2>2. PICK k \in Nat : deadline_seconds' = deadline_seconds + k * Period
    BY <1>1, <1>2, AdvancedBounds
  <2>3. n \in Nat /\ n + k \in Nat
    BY <1>1
  <2>4. /\ (n + k) * Period = n * Period + k * Period
        /\ n * Period \in Nat /\ k * Period \in Nat
    BY <1>1, <2>3
  <2>5. (n + k) * Period \in Nat /\ n + k <= (n + k) * Period
    BY <1>1, <2>3, ProductGrows
  <2>6. deadline_seconds' = start + (n + k) * Period
    BY <1>1, <2>1, <2>2, <2>4
  <2>7. n + k \in 0 .. deadline_seconds'
    BY <1>1, <1>3, <2>3, <2>5, <2>6
  <2> QED BY <1>2, <2>6, <2>7 DEF OnTimeline
<1> QED BY <1>4, <1>5, <1>6

LEMMA InvNext == Inv /\ [Next]_vars => Inv'
<1> SUFFICES ASSUME Inv, [Next]_vars PROVE Inv'
  OBVIOUS
<1>1. CASE Return
  BY <1>1, ReturnPreservesInv
<1>2. ASSUME UNCHANGED <<start, deadline_seconds>>, TypeOK', NextSlot' PROVE Inv'
  BY <1>2 DEF Inv, OnTimeline
<1> USE PacingAssumption DEF Inv
<1>3. CASE Tick
  BY <1>2, <1>3 DEF Tick, TypeOK, NextSlot, CoarseWait
<1>4. CASE EnterLate
  BY <1>2, <1>4 DEF EnterLate, Enter, TypeOK, NextSlot, CoarseWait
<1>5. CASE EnterSoon
  BY <1>2, <1>5 DEF EnterSoon, Enter, TypeOK, NextSlot, CoarseWait
<1>6. CASE EnterEarly
  BY <1>2, <1>6 DEF EnterEarly, Enter, TypeOK, NextSlot, CoarseWait
<1>7. CASE Arm
  BY <1>2, <1>7 DEF Arm, TypeOK, NextSlot, CoarseWait
<1>8. CASE ArmFails
  BY <1>2, <1>8 DEF ArmFails, TypeOK, NextSlot, CoarseWait
<1>9. CASE Wake
  BY <1>2, <1>9 DEF Wake, TypeOK, NextSlot, CoarseWait
<1>10. CASE Spin
  BY <1>2, <1>10 DEF Spin, TypeOK, NextSlot, CoarseWait
<1>11. CASE UNCHANGED vars
  BY <1>2, <1>11 DEF vars, TypeOK, NextSlot, CoarseWait
<1>12. CASE Destroy
  BY <1>2, <1>12 DEF Destroy, TypeOK, NextSlot, CoarseWait
<1>13. CASE Construct
  BY <1>13, ConstructPreservesInv
<1> QED
  BY <1>1, <1>3, <1>4, <1>5, <1>6, <1>7, <1>8, <1>9, <1>10, <1>11, <1>12, <1>13
  DEF Next, Wait

\* The inductive invariant holds of every run of the pacer.
THEOREM Invariance == Spec => []Inv
<1> QED BY InvInit, InvNext, PTL DEF Spec

\* The clock, the schedule and the wait stay within their types, and the timer is
\* never armed for a time that has passed when the wait looked at the clock.
THEOREM TypeCorrectness == Spec => []TypeOK
<1>1. Inv => TypeOK
  BY DEF Inv
<1> QED BY Invariance, <1>1, PTL

\* The deadline after a frame is the very next slot, however late the frame was.
THEOREM DeadlineIsNextSlot == Spec => []NextSlot
<1>1. Inv => NextSlot
  BY DEF Inv
<1> QED BY Invariance, <1>1, PTL

\* No delay moves the slots of the schedule: it does not drift.
THEOREM NoDrift == Spec => []OnTimeline
<1>1. Inv => OnTimeline
  BY DEF Inv
<1> QED BY Invariance, <1>1, PTL

\* Two frames never share a slot, and none comes before its own.
THEOREM NoBurst == Spec => OneFramePerSlot
<1>1. Inv /\ [Next]_vars => [Return => Slot(returned') > Slot(returned)]_vars
  <2> SUFFICES ASSUME Inv, Return PROVE Slot(returned') > Slot(returned)
    OBVIOUS
  <2> USE DEF Inv
  <2>1. /\ start \in Nat /\ returned \in Nat /\ now \in Nat
        /\ start <= returned /\ start <= now
        /\ returned < deadline_seconds /\ deadline_seconds <= now
        /\ deadline_seconds \in Nat /\ Period \in Nat \ {0}
    BY PacingAssumption DEF TypeOK, NextSlot, Return
  <2>2. PICK n \in 0 .. deadline_seconds : deadline_seconds = start + n * Period
    BY DEF OnTimeline
  <2>3. n \in Nat /\ n * Period \in Nat
    BY <2>1
  <2>4. /\ returned - start \in Nat /\ returned - start < n * Period
        /\ now - start \in Nat /\ n * Period <= now - start
    BY <2>1, <2>2, <2>3
  <2>5. (returned - start) \div Period < n
    BY <2>1, <2>3, <2>4, QuotientAtSlot
  <2>6. n <= (now - start) \div Period
    BY <2>1, <2>3, <2>4, QuotientAtSlot
  <2>7. /\ (returned - start) \div Period \in Nat
        /\ (now - start) \div Period \in Nat
    BY <2>1, <2>4, DivisionBounds
  <2>8. (now - start) \div Period > (returned - start) \div Period
    BY <2>3, <2>5, <2>6, <2>7
  <2>9. Slot(returned') = (now - start) \div Period
    BY DEF Slot, Return
  <2> QED BY <2>8, <2>9 DEF Slot
<1> QED BY Invariance, <1>1, PTL DEF Spec, OneFramePerSlot

(***************************************************************************)
(* The process                                                              *)
(***************************************************************************)
LEMMA BootStep == BootNext => [Next]_vars
<1> SUFFICES ASSUME BootNext PROVE [Next]_vars
  OBVIOUS
<1>1. CASE TimePasses
  BY <1>1 DEF TimePasses, Next
<1>2. CASE ConstructSchedule
  BY <1>2 DEF ConstructSchedule, Next
<1>3. CASE NoTimer \/ DestroyPacer
  BY <1>3 DEF NoTimer, DestroyPacer, Next
<1>4. CASE WaitForFrame
  BY <1>4 DEF WaitForFrame, Next
<1>5. CASE \E message \in Message : PostMessage(message)
  BY <1>5 DEF PostMessage
<1>6. CASE ParseCommandLine \/ CreateWindow \/ HighResolutionTimer \/ FallbackTimer
  BY <1>6 DEF ParseCommandLine, CreateWindow, HighResolutionTimer, FallbackTimer
<1>7. CASE Pump \/ PumpQuit \/ BeginFrame \/ Report \/ ReportThrows
  BY <1>7 DEF Pump, PumpQuit, BeginFrame, Report, ReportThrows
<1>8. CASE Catch \/ ShutdownLog \/ UnwindWindow
  BY <1>8 DEF Catch, ShutdownLog, UnwindWindow
<1> QED
  BY <1>1, <1>2, <1>3, <1>4, <1>5, <1>6, <1>7, <1>8 DEF BootNext, wWinMain

\* The process uses its pacer as FramePacing says: what holds of the pacer on its
\* own holds of it in the main loop.
THEOREM ProcessPaces == BootSpec => Spec
<1>1. BootInit => Init
  BY DEF BootInit
<1>2. [BootNext]_bootVars => [Next]_vars
  BY BootStep DEF bootVars
<1> QED BY <1>1, <1>2, PTL DEF BootSpec, Spec

\* The main loop never moves the slots of its schedule.
THEOREM ProcessDoesNotDrift == BootSpec => []OnTimeline
<1> QED BY ProcessPaces, NoDrift

\* The main loop never runs two frames in one slot.
THEOREM ProcessDoesNotBurst == BootSpec => OneFramePerSlot
<1> QED BY ProcessPaces, NoBurst

LEMMA BootInvInit == BootInit => BootInv
BY DEF BootInit, Init, BootInv, Resource

LEMMA BootInvNext == BootInv /\ [BootNext]_bootVars => BootInv'
<1> SUFFICES ASSUME BootInv, [BootNext]_bootVars PROVE BootInv'
  OBVIOUS
<1> USE DEF BootInv, Resource
<1>1. CASE ParseCommandLine
  BY <1>1 DEF ParseCommandLine, Go, vars, window
<1>2. CASE CreateWindow
  BY <1>2 DEF CreateWindow, Go, vars
<1>3. CASE ConstructSchedule
  BY <1>3 DEF ConstructSchedule, Construct, Go, window
<1>4. CASE HighResolutionTimer
  BY <1>4 DEF HighResolutionTimer, Go, vars, window
<1>5. CASE FallbackTimer
  BY <1>5 DEF FallbackTimer, Go, vars, window
<1>6. CASE NoTimer
  BY <1>6 DEF NoTimer, Destroy, Go, window
<1>7. CASE Pump
  BY <1>7 DEF Pump, Dispatch, DestroyWindow, vars
<1>8. CASE PumpQuit
  BY <1>8 DEF PumpQuit, Go, vars
<1>9. CASE BeginFrame
  BY <1>9 DEF BeginFrame, Go, vars, window
<1>10. CASE WaitForFrame
  <2>1. phase' # "absent" /\ phase # "absent"
    BY <1>10 DEF WaitForFrame, Wait, EnterLate, EnterSoon, EnterEarly, Enter, Arm,
                ArmFails, Wake, Spin, Return
  <2> QED BY <1>10, <2>1 DEF WaitForFrame, window
<1>11. CASE Report
  BY <1>11 DEF Report, Go, vars, window
<1>12. CASE ReportThrows
  BY <1>12 DEF ReportThrows, Go, vars, window
<1>13. CASE DestroyPacer
  BY <1>13 DEF DestroyPacer, Destroy, window
<1>14. CASE Catch
  BY <1>14 DEF Catch, Go, vars, window
<1>15. CASE ShutdownLog
  BY <1>15 DEF ShutdownLog, Go, vars, window
<1>16. CASE UnwindWindow
  BY <1>16 DEF UnwindWindow, DestroyWindow, Go, vars
<1>17. CASE \E message \in Message : PostMessage(message)
  BY <1>17 DEF PostMessage, vars
<1>18. CASE TimePasses
  BY <1>18 DEF TimePasses, Tick, boot, window
<1>19. CASE UNCHANGED bootVars
  BY <1>19 DEF bootVars, boot, vars, window
<1> QED
  BY <1>1, <1>2, <1>3, <1>4, <1>5, <1>6, <1>7, <1>8, <1>9, <1>10, <1>11, <1>12,
     <1>13, <1>14, <1>15, <1>16, <1>17, <1>18, <1>19 DEF BootNext, wWinMain

THEOREM ProcessInvariance == BootSpec => []BootInv
<1> QED BY BootInvInit, BootInvNext, PTL DEF BootSpec

\* Whatever fails, and whenever the window is closed, the process has released all
\* that it holds when it exits, with the code of what has gone wrong.
THEOREM CleanExit == BootSpec => []ExitsAreClean
<1>1. BootInv => ExitsAreClean
  BY DEF BootInv, ExitsAreClean, Resource
<1> QED BY ProcessInvariance, <1>1, PTL

\* No frame runs after the window is gone, however many messages were waiting.
THEOREM FramesHaveWindows == BootSpec => []NoFrameWithoutWindow
<1>1. BootInv => NoFrameWithoutWindow
  BY DEF BootInv, NoFrameWithoutWindow
<1> QED BY ProcessInvariance, <1>1, PTL

(***************************************************************************)
(* Closing the window                                                       *)
(***************************************************************************)
\* What keeps the loop from another frame: a close that was posted waits in the
\* queue for as long as there is a window, and the frame that is running, if one
\* is, is the one it was posted in.
CloseInv ==
  /\ queue \in Seq(Message)
  /\ hwnd = "none" => closing = NotClosing
  /\ closing # NotClosing /\ hwnd = "live" =>
       \E i \in 1 .. Len(queue) : queue[i] # "other"
  /\ closing # NotClosing /\ step = "frame" => deadline_seconds = closing

\* No frame begins after a close was posted, and the deadline of a frame that is
\* running then is the one that was in force when it was posted.
CloseIsLastFrame ==
  /\ [] (closing # NotClosing /\ step = "frame" => deadline_seconds = closing)
  /\ [][closing # NotClosing => ~ BeginFrame]_bootVars

\* With a close posted the pump is never idle: it has a message, or WM_QUIT.
LEMMA PumpIsNotIdle ==
  ASSUME BootInv, CloseInv, closing # NotClosing
  PROVE  ~ BeginFrame
<1> SUFFICES ASSUME BeginFrame PROVE FALSE
  OBVIOUS
<1>1. step = "pump" /\ queue = <<>> /\ ~ quit
  BY DEF BeginFrame, Go
<1>2. hwnd = "live"
  BY <1>1 DEF BootInv
<1> QED BY <1>1, <1>2 DEF CloseInv

\* Dispatching a message leaves the close that was posted in the queue, unless it
\* is that very close, which destroys the window.
LEMMA DispatchKeepsClose ==
  ASSUME CloseInv, Pump
  PROVE  CloseInv'
<1>1. /\ queue # <<>> /\ Dispatch(Head(queue)) /\ step = "pump" /\ step' = "pump"
      /\ closing' = closing
  BY DEF Pump
<1>2. CASE Head(queue) \in {"WM_CLOSE", "VK_ESCAPE"}
  BY <1>1, <1>2 DEF Dispatch, DestroyWindow, CloseInv
<1>3. CASE Head(queue) \notin {"WM_CLOSE", "VK_ESCAPE"}
  <2>1. queue' = Tail(queue) /\ hwnd' = hwnd
    BY <1>1, <1>3 DEF Dispatch
  <2>2. queue \in Seq(Message)
    BY DEF CloseInv
  <2>3. queue' \in Seq(Message)
    BY <1>1, <2>1, <2>2
  <2>4. queue[1] = "other"
    BY <1>1, <1>3, <2>2 DEF Message
  <2>5. ASSUME NEW i \in 1 .. Len(queue), queue[i] # "other"
        PROVE  \E j \in 1 .. Len(queue') : queue'[j] # "other"
    <3>1. i # 1 /\ Len(queue) \in Nat /\ Len(queue') = Len(queue) - 1
      BY <1>1, <2>1, <2>2, <2>4, <2>5
    <3>2. i - 1 \in 1 .. Len(queue') /\ queue'[i - 1] = queue[i]
      BY <1>1, <2>1, <2>2, <3>1
    <3> QED BY <2>5, <3>2
  <2> QED BY <1>1, <2>1, <2>3, <2>5 DEF CloseInv
<1> QED BY <1>2, <1>3

LEMMA PostKeepsClose ==
  ASSUME CloseInv, NEW message \in Message, PostMessage(message)
  PROVE  CloseInv'
<1>1. /\ queue \in Seq(Message) /\ queue' = Append(queue, message)
      /\ hwnd = "live" /\ hwnd' = hwnd /\ step' = step
      /\ deadline_seconds' = deadline_seconds
      /\ closing' = IF message # "other" /\ closing = NotClosing
                    THEN deadline_seconds ELSE closing
  BY DEF PostMessage, CloseInv, vars
<1>2. /\ queue' \in Seq(Message) /\ Len(queue) \in Nat
      /\ Len(queue') = Len(queue) + 1 /\ queue'[Len(queue) + 1] = message
      /\ \A i \in 1 .. Len(queue) : queue'[i] = queue[i]
  BY <1>1
<1>3. /\ Len(queue) + 1 \in 1 .. Len(queue')
      /\ \A i \in 1 .. Len(queue) : i \in 1 .. Len(queue')
  BY <1>2
<1>4. CASE message # "other"
  <2>1. \E i \in 1 .. Len(queue') : queue'[i] # "other"
    BY <1>2, <1>3, <1>4
  <2> QED BY <1>1, <1>2, <2>1 DEF CloseInv
<1>5. CASE message = "other"
  <2>1. closing' = closing
    BY <1>1, <1>5
  <2>2. closing # NotClosing => \E i \in 1 .. Len(queue') : queue'[i] # "other"
    BY <1>1, <1>2, <1>3 DEF CloseInv
  <2> QED BY <1>1, <1>2, <2>1, <2>2 DEF CloseInv
<1> QED BY <1>4, <1>5

LEMMA CloseInvNext == BootInv /\ CloseInv /\ [BootNext]_bootVars => CloseInv'
<1> SUFFICES ASSUME BootInv, CloseInv, [BootNext]_bootVars PROVE CloseInv'
  OBVIOUS
<1>1. CASE Pump
  BY <1>1, DispatchKeepsClose
<1>2. CASE \E message \in Message : PostMessage(message)
  BY <1>2, PostKeepsClose
<1>3. CASE BeginFrame
  <2>1. closing = NotClosing /\ closing' = closing /\ UNCHANGED window
    BY <1>3, PumpIsNotIdle DEF BeginFrame
  <2> QED BY <2>1 DEF CloseInv, window
<1>4. CASE WaitForFrame
  <2>1. /\ closing' = closing /\ UNCHANGED window /\ step = "frame"
        /\ phase' = "work" \/ deadline_seconds' = deadline_seconds
        /\ step' = IF phase' = "work" THEN "report" ELSE "frame"
    BY <1>4 DEF WaitForFrame, Wait, EnterLate, EnterSoon, EnterEarly, Enter, Arm,
                ArmFails, Wake, Spin, Return
  <2> QED BY <2>1 DEF CloseInv, window
<1>5. CASE PumpQuit
  BY <1>5 DEF PumpQuit, Go, CloseInv
<1>6. CASE UnwindWindow
  <2>1. closing' = closing /\ step' = "exited"
    BY <1>6 DEF UnwindWindow, Go
  <2>2. CASE hwnd = "live"
    <3>1. hwnd' = "destroyed" /\ queue' = <<>>
      BY <1>6, <2>2 DEF UnwindWindow, DestroyWindow
    <3> QED BY <2>1, <3>1 DEF CloseInv
  <2>3. CASE hwnd # "live"
    <3>1. hwnd' = hwnd /\ queue' = queue
      BY <1>6, <2>3 DEF UnwindWindow
    <3> QED BY <2>1, <3>1 DEF CloseInv
  <2> QED BY <2>2, <2>3
<1>7. CASE CreateWindow
  <2>1. hwnd = "none" /\ closing = NotClosing /\ closing' = closing /\ queue' = queue
    BY <1>7 DEF CreateWindow, Go, BootInv, CloseInv
  <2> QED BY <2>1 DEF CloseInv
<1>8. ASSUME UNCHANGED <<window, closing>>, step' # "frame" PROVE CloseInv'
  BY <1>8 DEF CloseInv, window
<1>9. CASE ParseCommandLine \/ ConstructSchedule \/ HighResolutionTimer
           \/ FallbackTimer \/ NoTimer
  BY <1>8, <1>9 DEF ParseCommandLine, ConstructSchedule, HighResolutionTimer,
                    FallbackTimer, NoTimer, Go
<1>10. CASE Report \/ ReportThrows \/ DestroyPacer \/ Catch \/ ShutdownLog
  BY <1>8, <1>10 DEF Report, ReportThrows, DestroyPacer, Catch, ShutdownLog, Go
<1>11. CASE TimePasses
  BY <1>11 DEF TimePasses, Tick, boot, window, CloseInv
<1>12. CASE UNCHANGED bootVars
  BY <1>12 DEF bootVars, boot, vars, window, CloseInv
<1> QED
  BY <1>1, <1>2, <1>3, <1>4, <1>5, <1>6, <1>7, <1>9, <1>10, <1>11, <1>12
  DEF BootNext, wWinMain

\* Closing the window is noticed before the next frame: whatever else is posted, no
\* frame begins once a close is in the queue.
THEOREM CloseEndsFrames == BootSpec => CloseIsLastFrame
<1>1. BootInit => CloseInv
  BY DEF BootInit, CloseInv
<1>2. BootInv /\ CloseInv => (closing # NotClosing => ~ BeginFrame)
  BY PumpIsNotIdle
<1>3. CloseInv => (closing # NotClosing /\ step = "frame" => deadline_seconds = closing)
  BY DEF CloseInv
<1>4. BootInv /\ CloseInv /\ [BootNext]_bootVars => [closing # NotClosing => ~ BeginFrame]_bootVars
  BY <1>2
<1> QED BY <1>1, <1>3, <1>4, CloseInvNext, ProcessInvariance, PTL
        DEF BootSpec, CloseIsLastFrame
=============================================================================
