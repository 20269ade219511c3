---------------------------- MODULE SessionScan ----------------------------
(***************************************************************************)
(* A session whose scanner thread really scans: core/memory_scanner.py,    *)
(* _scan_once, with one walk of memory/reader.py over each process of its  *)
(* snapshot, between the beginning and the end of a scan of TraceSession.  *)
(* What TraceSession assumes of a scan, that it ends, is here a            *)
(* consequence of how the walk goes on while the process changes under it. *)
(***************************************************************************)
EXTENDS TraceSession, MemoryReader

CONSTANT MaxProcesses   \* bound: the processes of one snapshot

ASSUME SnapshotAssumption == MaxProcesses \in Nat

VARIABLE left   \* how many processes of the snapshot are still to be scanned

ssVars == <<vars, mrVars, left>>

SSInit == Init /\ MRInit /\ left = 0

scan_once ==
    /\ begin_scan
    /\ left' \in 0 .. MaxProcesses
    /\ UNCHANGED mrVars

next_process ==
    /\ scanner = "scanning" /\ left > 0
    /\ read_committed_regions
    /\ left' = left - 1
    /\ UNCHANGED vars

walk_on ==
    /\ Walk
    /\ UNCHANGED <<vars, left>>

report ==
    /\ walk = "done"
    /\ scan_event
    /\ UNCHANGED <<mrVars, left>>

process_done ==
    /\ walk = "done"
    /\ Leave
    /\ UNCHANGED <<vars, left>>

scan_ends ==
    /\ left = 0 /\ walk = "none"
    /\ scan_done
    /\ UNCHANGED <<mrVars, left>>

(* A buffer cannot be had: the exception ends the scan, not the thread.    *)
scan_raises ==
    /\ scan_done /\ Leave
    /\ left' = 0

Scan == next_process \/ walk_on \/ process_done \/ scan_ends

Rest ==
    /\ Debugger \/ wake \/ Caller \/ TargetExits
    /\ UNCHANGED <<mrVars, left>>

External ==
    /\ Remap \/ ProcessEnds
    /\ UNCHANGED <<vars, left>>

SSNext == scan_once \/ Scan \/ report \/ scan_raises \/ Rest \/ External

SSSpec == SSInit /\ [][SSNext]_ssVars

(* The scanner's thread runs; that its scans end is not assumed.           *)
SSFairSpec == SSSpec /\ ThreadsRun /\ WF_ssVars(Scan)
-----------------------------------------------------------------------------
(* The session with a real scan implements the session with an abstract    *)
(* one, its fairness included: every walk ends, however the address space  *)
(* changes under it (reader.py:63-80, memory_scanner.py:103-123).          *)
ImplementsSession == FairSpec
=============================================================================
