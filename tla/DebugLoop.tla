----------------------------- MODULE DebugLoop -----------------------------
(***************************************************************************)
(* The debug loop as TraceSession knows it: what run() of                  *)
(* core/debug_thread.py (lines 185-208) promises its session, whatever the *)
(* events are about.  The loop ends because it was asked to, or with the   *)
(* EXIT_PROCESS event of its last tracked process ("All processes (parent  *)
(* and children) terminated"), and never while a tracked process has not   *)
(* exited; once it has ended none of its targets lives.                    *)
(***************************************************************************)
VARIABLES
    loop,       \* "wait" in the loop, "ended"
    stop_event, \* DebugThread._stop_event
    targets     \* "running"; "exiting" once every tracked process has posted
                \* its EXIT_PROCESS; "gone"

vars == <<loop, stop_event, targets>>

Init == loop = "wait" /\ stop_event = FALSE /\ targets = "running"

End == loop' = "ended" /\ targets' = "gone" /\ UNCHANGED stop_event

(* Any event; it may bring a new process, a child, under the loop.         *)
HandleEvent ==
    /\ loop = "wait"
    /\ IF stop_event
         THEN End
         ELSE /\ targets' \in {targets, "running"}
              /\ UNCHANGED <<loop, stop_event>>

HandleLastExit == loop = "wait" /\ targets = "exiting" /\ End

Timeout == loop = "wait" /\ stop_event /\ End

TargetsExit ==
    /\ targets = "running"
    /\ targets' = "exiting"
    /\ UNCHANGED <<loop, stop_event>>

RequestStop == stop_event' = TRUE /\ UNCHANGED <<loop, targets>>

Next ==
    \/ HandleEvent \/ HandleLastExit \/ Timeout
    \/ TargetsExit \/ RequestStop

Spec == Init /\ [][Next]_vars
=============================================================================
