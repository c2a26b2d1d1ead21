------------------------------ MODULE Bootstrap ------------------------------
(***************************************************************************)
(* The process: wWinMain (src/src/platform/windows/win_main.cpp), its       *)
(* window (win32_window.cpp) and the life of the frame pacer, whose waits   *)
(* are those of FramePacing.                                                *)
(*                                                                          *)
(* The user posts messages to the window whenever there is one; the process *)
(* sees them only when its main loop pumps them.  What it acquires (the log *)
(* file, the window class, the window, the timer and the resolution of the  *)
(* system clock) it must give back on each of its ways out.                 *)
(*                                                                          *)
(* Left out: the simulation and the renderer, which the main loop does not  *)
(* have yet; the statistics it keeps, which are FrameStats', and their      *)
(* output; the loops inside of Windows that run while a window is dragged.  *)
(***************************************************************************)
EXTENDS FramePacing, Sequences

CONSTANT QueueSize  \* bound on the messages that wait in the queue

ASSUME QueueAssumption == QueueSize \in Nat

VARIABLES
  step,        \* of wWinMain, and of the destructors it runs
  exit_code,
  hwnd,        \* "none" | "live" | "destroyed"
  queue,       \* messages posted to the window
  quit,        \* PostQuitMessage was called and WM_QUIT not received
  held,        \* what the process has acquired and not given back
  failed,      \* what has gone wrong, if anything
  closing      \* the deadline in force when the window was told to close

window == <<hwnd, queue, quit>>
boot == <<step, exit_code, window, held, failed, closing>>
bootVars == <<vars, boot>>

\* The log file, the window class, the handle of the pacer's timer, and the raised
\* resolution of the system clock (fallback_timer_resolution_).
Resource == {"log", "class", "timer", "resolution"}

Message == {"WM_CLOSE", "VK_ESCAPE", "other"}
NotClosing == -1

BootInit ==
  /\ Init
  /\ step = "parse" /\ exit_code = NotClosing
  /\ hwnd = "none" /\ queue = <<>> /\ quit = FALSE
  /\ held = {"log"}
  /\ failed = "nothing" /\ closing = NotClosing

Go(from, to) == step = from /\ step' = to

(***************************************************************************)
(* Before the main loop                                                     *)
(***************************************************************************)
ParseCommandLine ==
  /\ \/ Go("parse", "create") /\ UNCHANGED <<exit_code, failed, held>>
     \/ /\ Go("parse", "exited") /\ exit_code' = 2 /\ failed' = "arguments"
        /\ held' = held \ {"log"}
  /\ UNCHANGED <<vars, window, closing>>

\* Registering the class, measuring the window and creating it may each fail.
CreateWindow ==
  /\ \/ /\ Go("create", "construct") /\ hwnd' = "live"
        /\ held' = held \cup {"class"}
        /\ UNCHANGED <<exit_code, failed>>
     \/ /\ Go("create", "unwind") /\ exit_code' = 3 /\ failed' = "window"
        /\ held' \in {held \ {"log"}, (held \cup {"class"}) \ {"log"}}
        /\ UNCHANGED hwnd
  /\ UNCHANGED <<vars, queue, quit, closing>>

ConstructSchedule ==
  /\ Go("construct", "timer") /\ Construct
  /\ UNCHANGED <<exit_code, window, held, failed, closing>>

HighResolutionTimer ==
  /\ Go("timer", "pump") /\ held' = held \cup {"timer"}
  /\ UNCHANGED <<vars, exit_code, window, failed, closing>>

FallbackTimer ==
  /\ Go("timer", "pump")
  /\ held' \in {held \cup {"timer"}, held \cup {"timer", "resolution"}}
  /\ UNCHANGED <<vars, exit_code, window, failed, closing>>

\* Mutant of NoTimer: the resolution is raised before the fallback timer is made,
\* and a constructor that throws has no destructor to take it back.
NoTimerAtHighResolution ==
  /\ Go("timer", "catch") /\ failed' = "timer"
  /\ held' \in {held, held \cup {"resolution"}}
  /\ Destroy
  /\ UNCHANGED <<exit_code, window, closing>>

\* Neither timer can be created: the constructor throws.
NoTimer ==
  /\ Go("timer", "catch") /\ failed' = "timer"
  /\ Destroy
  /\ UNCHANGED <<exit_code, window, held, closing>>

(***************************************************************************)
(* The main loop                                                            *)
(***************************************************************************)
\* DestroyWindow drops what else was posted to the window, and sends WM_DESTROY,
\* which the window procedure answers with PostQuitMessage.
DestroyWindow == hwnd' = "destroyed" /\ queue' = <<>> /\ quit' = TRUE

\* Mutant of Dispatch: the window procedure leaves WM_DESTROY to the system.
DispatchWithoutQuit(message) ==
  IF message \in {"WM_CLOSE", "VK_ESCAPE"}
    THEN hwnd' = "destroyed" /\ queue' = <<>> /\ UNCHANGED quit
    ELSE queue' = Tail(queue) /\ UNCHANGED <<hwnd, quit>>

Dispatch(message) ==
  IF message \in {"WM_CLOSE", "VK_ESCAPE"}
    THEN DestroyWindow
    ELSE queue' = Tail(queue) /\ UNCHANGED <<hwnd, quit>>

\* Mutant of Pump: one message for each frame.
PumpOne ==
  /\ step = "pump" /\ queue # <<>>
  /\ Dispatch(Head(queue)) /\ step' = "frame"
  /\ UNCHANGED <<vars, exit_code, held, failed, closing>>

\* The pump dispatches messages until none is left ...
Pump ==
  /\ step = "pump" /\ queue # <<>>
  /\ Dispatch(Head(queue))
  /\ UNCHANGED <<vars, step, exit_code, held, failed, closing>>

\* ... and WM_QUIT, which comes after all others, ends the loop.
PumpQuit ==
  /\ queue = <<>> /\ quit /\ Go("pump", "release") /\ quit' = FALSE
  /\ exit_code' = 0
  /\ UNCHANGED <<vars, hwnd, queue, held, failed, closing>>

BeginFrame ==
  /\ queue = <<>> /\ ~ quit /\ Go("pump", "frame")
  /\ UNCHANGED <<vars, exit_code, window, held, failed, closing>>

WaitForFrame ==
  /\ step = "frame" /\ Wait
  /\ step' = IF phase' = "work" THEN "report" ELSE "frame"
  /\ UNCHANGED <<exit_code, window, held, failed, closing>>

Report ==
  /\ Go("report", "pump")
  /\ UNCHANGED <<vars, exit_code, window, held, failed, closing>>

\* There is no memory for the line of the report.
ReportThrows ==
  /\ Go("report", "release") /\ failed' = "report"
  /\ UNCHANGED <<vars, exit_code, window, held, closing>>

(***************************************************************************)
(* The ways out                                                             *)
(***************************************************************************)
\* The end of the try block, in the normal way or on the way to the handler.
DestroyPacer ==
  /\ step = "release" /\ step' = IF failed = "nothing" THEN "shutdown" ELSE "catch"
  /\ Destroy /\ held' = held \ {"timer", "resolution"}
  /\ UNCHANGED <<exit_code, window, failed, closing>>

Catch ==
  /\ Go("catch", "shutdown") /\ exit_code' = 4
  /\ UNCHANGED <<vars, window, held, failed, closing>>

ShutdownLog ==
  /\ Go("shutdown", "unwind") /\ held' = held \ {"log"}
  /\ UNCHANGED <<vars, exit_code, window, failed, closing>>

\* The destructor of the window, last of all.
UnwindWindow ==
  /\ Go("unwind", "exited") /\ held' = held \ {"class"}
  /\ IF hwnd = "live" THEN DestroyWindow ELSE UNCHANGED <<hwnd, queue, quit>>
  /\ UNCHANGED <<vars, exit_code, failed, closing>>

wWinMain ==
  \/ ParseCommandLine \/ CreateWindow \/ ConstructSchedule
  \/ HighResolutionTimer \/ FallbackTimer \/ NoTimer
  \/ Pump \/ PumpQuit \/ BeginFrame \/ WaitForFrame \/ Report \/ ReportThrows
  \/ DestroyPacer \/ Catch \/ ShutdownLog \/ UnwindWindow

PostMessage(message) ==
  /\ hwnd = "live" /\ Len(queue) < QueueSize
  /\ queue' = Append(queue, message)
  /\ closing' = IF message # "other" /\ closing = NotClosing
                  THEN deadline_seconds ELSE closing
  /\ UNCHANGED <<vars, step, exit_code, hwnd, quit, held, failed>>

TimePasses == Tick /\ UNCHANGED boot

BootNext == wWinMain \/ (\E message \in Message : PostMessage(message)) \/ TimePasses

BootSpec == BootInit /\ [][BootNext]_bootVars

\* Time passes, and the thread is scheduled again and again; the user need not act.
FairBootSpec == BootSpec /\ WF_bootVars(TimePasses) /\ WF_bootVars(wWinMain)

(***************************************************************************)
(* Properties                                                               *)
(***************************************************************************)
\* No frame runs without its window: whatever order its messages come in, and
\* however many are left in the queue when the window is closed, the pump does not
\* let go of a frame once it has destroyed the window.
NoFrameWithoutWindow == step \in {"frame", "report"} => hwnd = "live"

\* A process that has exited has given back all it acquired, whichever step
\* failed, and its exit code says which.
ExitsAreClean ==
  step = "exited" =>
    /\ held = {} /\ hwnd # "live" /\ phase = "absent"
    /\ exit_code = CASE failed = "nothing"   -> 0
                     [] failed = "arguments" -> 2
                     [] failed = "window"    -> 3
                     [] OTHER                -> 4

\* What holds at each step of wWinMain: the resources it has at that point, and how
\* far the news of a failure or of the end of the window has come.
BootInv ==
  /\ held \subseteq Resource
  /\ "log" \in held <=>
       step \in {"parse", "create", "construct", "timer", "pump", "frame",
                "report", "release", "catch", "shutdown"}
  /\ "timer" \in held <=> step \in {"pump", "frame", "report", "release"}
  /\ "resolution" \in held => "timer" \in held
  /\ phase # "absent" <=> step \in {"timer", "pump", "frame", "report", "release"}
  /\ hwnd = "live" => "class" \in held
  /\ hwnd = "destroyed" /\ step = "pump" => quit /\ queue = <<>>
  /\ step = "pump" => hwnd \in {"live", "destroyed"}
  /\ step \in {"parse", "create"} => hwnd = "none" /\ "class" \notin held
  /\ step \in {"construct", "timer", "frame", "report"} => hwnd = "live"
  /\ step \in {"parse", "create", "construct", "timer", "pump", "frame", "report"} =>
       failed = "nothing"
  /\ step = "catch" => failed \in {"timer", "report"}
  /\ step = "release" => failed \in {"nothing", "report"}
  /\ step = "release" /\ failed = "nothing" => exit_code = 0
  /\ step \in {"shutdown", "unwind", "exited"} =>
       /\ failed \in {"nothing", "arguments", "window", "timer", "report"}
       /\ exit_code = CASE failed = "nothing"   -> 0
                        [] failed = "arguments" -> 2
                        [] failed = "window"    -> 3
                        [] OTHER                -> 4
  /\ step = "exited" => "class" \notin held /\ hwnd # "live"

\* Closing the window ends the process after the frame that is running at most: it
\* exits, unless the bound on the clock cuts off the wait of that very frame.
CloseEndsTheLoop ==
  closing # NotClosing ~>
    (step = "exited" \/ (OutOfTime /\ phase # "work" /\ deadline_seconds = closing))
=============================================================================
