---------------------------- MODULE TraceSession ----------------------------
(***************************************************************************)
(* core/trace_session.py, class TraceSession: the thread of the caller,    *)
(* the debug thread and the memory-scanner thread, the launch of the       *)
(* target (core/process_launcher.py) and the two variables that report it, *)
(* the stop events, and the bounded queue that both threads fill and the   *)
(* caller empties.  stop() may come from any thread at any time.           *)
(*                                                                         *)
(* The debug loop is DebugThread seen from outside, as DebugLoop has it:   *)
(* it is handling events of live targets ("running"), or every target it   *)
(* tracks is exiting, or it has ended.  The caller is the loop the         *)
(* docstring of TraceSession shows.                                        *)
(***************************************************************************)
EXTENDS Naturals

CONSTANT QueueSize   \* event_queue_maxsize

ASSUME QueueAssumption == QueueSize \in Nat \ {0}

VARIABLES
    user,          \* the caller's thread
    stopper,       \* whoever calls stop()
    debug,         \* DebugThread.run
    scanner,       \* MemoryScannerThread.run
    started_ok,    \* DebugThread.started_ok
    startup_error, \* DebugThread.startup_error is not None
    debug_stop,    \* DebugThread._stop_event
    scanner_stop,  \* MemoryScannerThread._stop_event
    target,        \* external: the debugged processes, taken together
    queued         \* how many events _event_queue holds

callers == <<user, stopper>>
launch == <<started_ok, startup_error>>
stops == <<debug_stop, scanner_stop>>
signals == <<launch, stops>>
vars == <<callers, debug, scanner, signals, target, queued>>

TypeOK ==
    /\ user \in {"idle", "starting", "raised", "consuming", "joining",
                "joining_debug", "joined"}
    /\ stopper \in {"idle", "called", "stopping", "done"}
    /\ debug \in {"none", "launching", "created", "launched", "raising",
                  "failing", "loop", "dead"}
    /\ scanner \in {"none", "sleeping", "woken", "scanning", "dead"}
    /\ started_ok \in BOOLEAN /\ startup_error \in BOOLEAN
    /\ debug_stop \in BOOLEAN /\ scanner_stop \in BOOLEAN
    /\ target \in {"none", "running", "exiting", "gone"}
    /\ queued \in 0 .. QueueSize

Init ==
    /\ user = "idle" /\ stopper = "idle" /\ debug = "none" /\ scanner = "none"
    /\ started_ok = FALSE /\ startup_error = FALSE
    /\ debug_stop = FALSE /\ scanner_stop = FALSE
    /\ target = "none"
    /\ queued = 0

(* Mutants: put() instead of put_nowait(), so that the producer waits for  *)
(* room; a queue without a bound.                                          *)
put_blocking == queued < QueueSize /\ queued' = queued + 1

put_unbounded == queued' = IF queued <= QueueSize THEN queued + 1 ELSE queued

(* put_nowait: a full queue loses the new event, never the producer.       *)
put_nowait == queued' = IF queued < QueueSize THEN queued + 1 ELSE queued

is_alive == debug \notin {"none", "dead"} \/ scanner \notin {"none", "dead"}

-----------------------------------------------------------------------------
(* The debug thread.                                                       *)

(* CreateProcessW: the target exists, or the launcher raises.              *)
create_process ==
    /\ debug = "launching"
    /\ debug' = "created" /\ target' = "running"
    /\ UNCHANGED <<callers, scanner, signals, queued>>

create_fails ==
    /\ debug = "launching"
    /\ debug' = "raising"
    /\ UNCHANGED <<callers, scanner, signals, target, queued>>

(* The target is fit for this monitor, or nobody could tell.               *)
launch_ok ==
    /\ debug = "created"
    /\ debug' = "launched"
    /\ UNCHANGED <<callers, scanner, signals, target, queued>>

(* A 32-bit target is ended before the launcher raises.                    *)
launch_rejected ==
    /\ debug = "created"
    /\ debug' = "raising" /\ target' = "gone"
    /\ UNCHANGED <<callers, scanner, signals, queued>>

(* Root tracked, then the caller released, then the loop.                  *)
signal_ok ==
    /\ debug = "launched"
    /\ started_ok' = TRUE
    /\ debug' = IF debug_stop THEN "dead" ELSE "loop"
    /\ target' = IF debug_stop THEN "gone" ELSE target
    /\ UNCHANGED <<callers, scanner, startup_error, stops, queued>>

(* Mutant: the caller is released before the error is recorded.            *)
launch_failed_swapped ==
    /\ debug = "raising"
    /\ started_ok' = TRUE
    /\ debug' = "failing"
    /\ UNCHANGED <<callers, scanner, startup_error, stops, target, queued>>

launch_failed ==
    /\ debug = "raising"
    /\ startup_error' = TRUE
    /\ debug' = "failing"
    /\ UNCHANGED <<callers, scanner, started_ok, stops, target, queued>>

signal_failed ==
    /\ debug = "failing"
    /\ started_ok' = TRUE
    /\ debug' = "dead"
    /\ UNCHANGED <<callers, scanner, startup_error, stops, target, queued>>

(* One debug event of a live target, which may bring a child under the     *)
(* loop, then the loop's test of the stop event.  When the thread ends     *)
(* Windows kills what it was debugging.                                    *)
handle_event ==
    /\ debug = "loop" /\ target \in {"running", "exiting"}
    /\ put_nowait
    /\ debug' = IF debug_stop THEN "dead" ELSE "loop"
    /\ target' \in IF debug_stop THEN {"gone"} ELSE {target, "running"}
    /\ UNCHANGED <<callers, scanner, signals>>

(* Mutant: an EXIT_PROCESS ends the loop whether it is the last or not.    *)
handle_any_exit ==
    /\ debug = "loop" /\ target \in {"running", "exiting"}
    /\ put_nowait
    /\ debug' = "dead" /\ target' = "gone"
    /\ UNCHANGED <<callers, scanner, signals>>

(* The EXIT_PROCESS event of the last tracked process ends the loop.       *)
handle_last_exit ==
    /\ debug = "loop" /\ target = "exiting"
    /\ put_nowait
    /\ debug' = "dead" /\ target' = "gone"
    /\ UNCHANGED <<callers, scanner, signals>>

(* WaitForDebugEvent timed out and the loop sees the stop event.           *)
wait_timeout ==
    /\ debug = "loop" /\ debug_stop
    /\ debug' = "dead" /\ target' = "gone"
    /\ UNCHANGED <<callers, scanner, signals, queued>>

-----------------------------------------------------------------------------
(* The scanner thread.                                                     *)

(* _stop_event.wait(interval): a stop ends the wait and the thread.  The   *)
(* answer is not looked at again before the scan: a stop that comes right  *)
(* after the wait has timed out lets one more scan begin.                  *)
wake ==
    /\ scanner = "sleeping"
    /\ scanner' = IF scanner_stop THEN "dead" ELSE "woken"
    /\ UNCHANGED <<callers, debug, signals, target, queued>>

begin_scan ==
    /\ scanner = "woken"
    /\ scanner' = "scanning"
    /\ UNCHANGED <<callers, debug, signals, target, queued>>

scan_event ==
    /\ scanner = "scanning"
    /\ put_nowait
    /\ UNCHANGED <<callers, debug, scanner, signals, target>>

(* The scan is over, or an exception ended it: the loop goes on.           *)
scan_done ==
    /\ scanner = "scanning"
    /\ scanner' = "sleeping"
    /\ UNCHANGED <<callers, debug, signals, target, queued>>

-----------------------------------------------------------------------------
(* The caller.                                                             *)

start ==
    /\ user = "idle"
    /\ user' = "starting" /\ debug' = "launching"
    /\ UNCHANGED <<stopper, scanner, signals, target, queued>>

start_timeout ==
    /\ user = "starting" /\ ~started_ok
    /\ user' = "raised"
    /\ UNCHANGED <<stopper, debug, scanner, signals, target, queued>>

start_failed ==
    /\ user = "starting" /\ started_ok /\ startup_error
    /\ user' = "raised"
    /\ UNCHANGED <<stopper, debug, scanner, signals, target, queued>>

start_scanner ==
    /\ user = "starting" /\ started_ok /\ ~startup_error
    /\ user' = "consuming" /\ scanner' = "sleeping"
    /\ UNCHANGED <<stopper, debug, signals, target, queued>>

get_event ==
    /\ user = "consuming" /\ is_alive /\ queued > 0
    /\ queued' = queued - 1
    /\ UNCHANGED <<callers, debug, scanner, signals, target>>

(* The loop "while session.is_alive" ends, or Ctrl+C has ended it.         *)
leave_loop ==
    /\ user = "consuming" /\ ~is_alive
    /\ user' = "joining"
    /\ UNCHANGED <<stopper, debug, scanner, signals, target, queued>>

interrupted ==
    /\ user \in {"raised", "consuming"} /\ stopper = "done"
    /\ user' = "joining"
    /\ UNCHANGED <<stopper, debug, scanner, signals, target, queued>>

(* join(timeout): scanner, then debug thread; each wait ends with its      *)
(* thread or with its time.                                                *)
join ==
    /\ \/ user = "joining" /\ user' = "joining_debug"
       \/ user = "joining_debug" /\ user' = "joined"
    /\ UNCHANGED <<stopper, debug, scanner, signals, target, queued>>

(* stop(), on any thread and at any time, also while start() is under way: *)
(* it asks the scanner, if there is one yet, and then the debug thread.    *)
call_stop ==
    /\ stopper = "idle"
    /\ stopper' = "called"
    /\ UNCHANGED <<user, debug, scanner, signals, target, queued>>

stop ==
    /\ stopper = "called"
    /\ stopper' = "stopping"
    /\ scanner_stop' = (scanner # "none")
    /\ UNCHANGED <<user, debug, scanner, launch, debug_stop, target, queued>>

(* Mutant: the debug thread is only asked to stop if it was launched.      *)
stop_debug_launched ==
    /\ stopper = "stopping"
    /\ stopper' = "done"
    /\ debug_stop' = started_ok
    /\ UNCHANGED <<user, debug, scanner, launch, scanner_stop, target, queued>>

stop_debug ==
    /\ stopper = "stopping"
    /\ stopper' = "done"
    /\ debug_stop' = (debug # "none")
    /\ UNCHANGED <<user, debug, scanner, launch, scanner_stop, target, queued>>

-----------------------------------------------------------------------------
(* External: every tracked process has posted its EXIT_PROCESS.            *)
TargetExits ==
    /\ target = "running"
    /\ target' = "exiting"
    /\ UNCHANGED <<callers, debug, scanner, signals, queued>>

Debugger ==
    \/ create_process \/ create_fails \/ launch_ok \/ launch_rejected
    \/ signal_ok \/ launch_failed \/ signal_failed
    \/ handle_event \/ handle_last_exit \/ wait_timeout

Scanner == wake \/ begin_scan \/ scan_event \/ scan_done

Caller ==
    \/ start \/ start_timeout \/ start_failed \/ start_scanner
    \/ get_event \/ leave_loop \/ interrupted \/ join
    \/ call_stop \/ stop \/ stop_debug

Next == Debugger \/ Scanner \/ Caller \/ TargetExits

Spec == Init /\ [][Next]_vars

(* A started thread runs; the debug loop takes every event it is offered,  *)
(* the last one included; a scan ends; and a call of start() or stop()     *)
(* goes on to its end.  Nothing is assumed of the caller between calls: it *)
(* may stop reading for good.                                              *)
ThreadsRun ==
    /\ WF_vars(create_process \/ create_fails)
    /\ WF_vars(launch_ok \/ launch_rejected \/ launch_failed)
    /\ WF_vars(signal_ok \/ signal_failed)
    /\ WF_vars(handle_last_exit)
    /\ WF_vars(handle_event \/ wait_timeout)
    /\ WF_vars(wake \/ begin_scan)
    /\ WF_vars(start_timeout \/ start_failed \/ start_scanner)
    /\ WF_vars(stop \/ stop_debug)

Fairness == ThreadsRun /\ WF_vars(scan_done)

FairSpec == Spec /\ Fairness
-----------------------------------------------------------------------------
(* The scanner only ever runs beside a debug thread that launched its      *)
(* target: start() must not mistake the started_ok of a failed launch for  *)
(* success (trace_session.py:120-126, debug_thread.py:168-172).  And no    *)
(* target stays behind where the launch is reported as failed: none was    *)
(* created, or it was ended first (process_launcher.py:126-133).           *)
ScannerNeedsTarget ==
    /\ scanner # "none" => target # "none" /\ ~startup_error
    /\ startup_error => target \notin {"running", "exiting"}

(* A stop() ends each thread it finds, whether start() has succeeded, has  *)
(* failed, has given up waiting or is still waiting for the launch, and    *)
(* although nobody empties the queue (trace_session.py:153-166).  A stop   *)
(* that comes between the scanner's wait and its scan finds it in time for *)
(* the next wait (memory_scanner.py:103-108); a scanner that start()       *)
(* creates after stop() has looked for one is not found.                   *)
StopEndsBoth ==
    /\ stopper = "called" /\ debug # "none" ~> debug = "dead"
    /\ stopper = "called" /\ scanner # "none" ~> scanner = "dead"

(* The debug thread never waits for the consumer: however full the queue   *)
(* is, it follows its targets to their end, unless the event of a child    *)
(* comes before that of the last exit (debug_thread.py:152-160).           *)
LoopFollowsTarget == target = "exiting" ~> debug = "dead" \/ target = "running"

(* While the session's debug thread is in its loop it does what DebugLoop  *)
(* allows, which is what DebugThread implements (debug_thread.py:185-208): *)
(* the session's events, exits and stops are all steps of that loop.       *)
Loop == INSTANCE DebugLoop WITH
    loop <- IF debug = "loop" THEN "wait" ELSE "ended",
    stop_event <- debug_stop,
    targets <- target

UsesLoop == [][debug = "loop" => [Loop!Next]_(Loop!vars)]_vars

(* is_alive: "True while the target process is still running and being     *)
(* monitored" (trace_session.py:199): once the targets are gone it turns   *)
(* False.                                                                  *)
AliveFollowsTarget == target = "gone" ~> ~is_alive
=============================================================================
