--------------------------- MODULE MemoryScanner ---------------------------
(***************************************************************************)
(* core/memory_scanner.py, class MemoryScannerThread, beside the debug     *)
(* thread whose dict of tracked processes it reads without a lock: the     *)
(* snapshot of handles, the scan of one process after the other, the two   *)
(* caches of strings, and the bounded event queue.                         *)
(*                                                                         *)
(* The strings of a process are those of its readable regions of interest  *)
(* (read_committed_regions, extract_strings): a region that cannot be read *)
(* for a while is a change of memory.                                      *)
(***************************************************************************)
EXTENDS Naturals, FiniteSets, Functions

CONSTANTS
    Pids, Handles, Strings,
    RwxStrings,     \* the strings that live in PAGE_EXECUTE_READWRITE regions
    QueueSize,      \* event_queue_maxsize
    MaxStrings,     \* max_strings_per_event
    RwxThreshold,   \* rwx_string_threshold
    NoHandle, Closed

ASSUME ScannerAssumption ==
    /\ RwxStrings \subseteq Strings
    /\ QueueSize \in Nat \ {0} /\ MaxStrings \in Nat \ {0}
    /\ RwxThreshold \in Nat \ {0}
    /\ NoHandle \notin Handles /\ Closed \notin Pids

VARIABLES
    loop,             \* DebugThread.run: "running", "cleanup", "ended"
    tracked,          \* DebugThread.tracked: the handle of each process
    closing,          \* the handle popped by EXIT_PROCESS, still to be closed
    owner,            \* external: the process each handle value refers to
    memory,           \* external: the strings in each process
    scan,             \* "waiting", "snapshot", "scanning"
    disturbed,        \* tracked changed size while the snapshot was taken
    todo,             \* the part of the snapshot that is still to be scanned
    previous_strings, \* self._previous_strings, a function on the pids it has
    previous_rwx,     \* self._previous_rwx_strings
    queued,           \* how many events the queue holds
    reported,         \* history: the strings that events have shown, per pid
    excused           \* history: pids with a string event cut short or lost

debugVars == <<loop, tracked, closing, owner, memory>>
scanVars == <<scan, todo, previous_strings, previous_rwx, reported, excused>>
vars == <<debugVars, scanVars, disturbed, queued>>

Handled(f) == {p \in Pids : f[p] # NoHandle}

TypeOK ==
    /\ loop \in {"running", "cleanup", "ended"}
    /\ tracked \in [Pids -> Handles \union {NoHandle}]
    /\ closing \in Handles \union {NoHandle}
    /\ owner \in [Handles -> Pids \union {Closed}]
    /\ memory \in [Pids -> SUBSET Strings]
    /\ scan \in {"waiting", "snapshot", "scanning"}
    /\ disturbed \in BOOLEAN
    /\ todo \in [Pids -> Handles \union {NoHandle}]
    /\ previous_strings \in UNION {[D -> SUBSET Strings] : D \in SUBSET Pids}
    /\ previous_rwx \in UNION {[D -> SUBSET RwxStrings] : D \in SUBSET Pids}
    /\ queued \in 0 .. QueueSize
    /\ reported \in [Pids -> SUBSET Strings]
    /\ excused \in SUBSET Pids

Init ==
    /\ loop = "running"
    /\ tracked = [p \in Pids |-> NoHandle]
    /\ closing = NoHandle
    /\ owner = [h \in Handles |-> Closed]
    /\ memory = [p \in Pids |-> {}]
    /\ scan = "waiting" /\ disturbed = FALSE
    /\ todo = [p \in Pids |-> NoHandle]
    /\ previous_strings = [p \in {} |-> {}]
    /\ previous_rwx = [p \in {} |-> {}]
    /\ queued = 0
    /\ reported = [p \in Pids |-> {}]
    /\ excused = {}

-----------------------------------------------------------------------------
(* The debug thread and its targets.                                       *)

(* _on_create_process.  Both the pid and the value of the handle may have   *)
(* been used before: neither is given again while the handle is open.      *)
track(p, h) ==
    /\ loop = "running"
    /\ owner[h] = Closed /\ \A g \in Handles : owner[g] # p
    /\ tracked' = [tracked EXCEPT ![p] = h]
    /\ owner' = [owner EXCEPT ![h] = p]
    /\ disturbed' = (scan = "snapshot")
    /\ UNCHANGED <<loop, closing, memory, scanVars, queued>>

(* Mutant: the handle is closed before the entry is taken out.             *)
untrack_late(p) ==
    /\ loop = "running" /\ tracked[p] # NoHandle /\ closing = NoHandle
    /\ closing' = tracked[p]
    /\ UNCHANGED <<loop, tracked, owner, memory, scanVars, disturbed, queued>>

(* EXIT_PROCESS takes the entry out first and closes the handle last.      *)
untrack(p) ==
    /\ loop = "running" /\ tracked[p] # NoHandle /\ closing = NoHandle
    /\ closing' = tracked[p]
    /\ tracked' = [tracked EXCEPT ![p] = NoHandle]
    /\ disturbed' = (scan = "snapshot")
    /\ UNCHANGED <<loop, owner, memory, scanVars, queued>>

(* CloseHandle: nothing more can be read of the process.                   *)
Close(h) ==
    /\ owner' = [owner EXCEPT ![h] = Closed]
    /\ memory' = [memory EXCEPT ![owner[h]] = {}]

close_handle ==
    /\ closing # NoHandle
    /\ Close(closing)
    /\ closing' = NoHandle
    /\ UNCHANGED <<loop, tracked, scanVars, disturbed, queued>>

(* run leaves its loop between two events: stopped, or with nothing left.  *)
end_loop ==
    /\ loop = "running" /\ closing = NoHandle
    /\ loop' = "cleanup"
    /\ UNCHANGED <<tracked, closing, owner, memory, scanVars, disturbed, queued>>

(* _cleanup closes the handles first and clears the dict last.             *)
cleanup(p) ==
    /\ loop = "cleanup" /\ tracked[p] # NoHandle /\ owner[tracked[p]] # Closed
    /\ Close(tracked[p])
    /\ UNCHANGED <<loop, tracked, closing, scanVars, disturbed, queued>>

clear_tracked ==
    /\ loop = "cleanup" /\ \A p \in Handled(tracked) : owner[tracked[p]] = Closed
    /\ loop' = "ended"
    /\ tracked' = [p \in Pids |-> NoHandle]
    /\ disturbed' = (scan = "snapshot" /\ (disturbed \/ Handled(tracked) # {}))
    /\ UNCHANGED <<closing, owner, memory, scanVars, queued>>

Change(p) ==
    /\ tracked[p] # NoHandle /\ owner[tracked[p]] # Closed
    /\ \E S \in SUBSET Strings : memory' = [memory EXCEPT ![p] = S]
    /\ UNCHANGED <<loop, tracked, closing, owner, scanVars, disturbed, queued>>

get_event ==
    /\ queued > 0
    /\ queued' = queued - 1
    /\ UNCHANGED <<debugVars, scanVars, disturbed>>

-----------------------------------------------------------------------------
(* The scanner thread.                                                     *)

(* The interval is over and no stop was asked for (TraceSession has the    *)
(* stop): the first step of the snapshot, the iterator over tracked.       *)
wake ==
    /\ scan = "waiting"
    /\ scan' = "snapshot"
    /\ UNCHANGED <<debugVars, todo, previous_strings, previous_rwx, reported,
                   excused, disturbed, queued>>

(* Mutant: only the first cache is purged.                                 *)
purge_first(P) ==
    /\ previous_strings' = Restrict(previous_strings, DOMAIN previous_strings \intersect P)
    /\ UNCHANGED previous_rwx

(* Entries of processes that are no longer tracked go, from both caches.   *)
purge(P) ==
    LET stale_pids == DOMAIN previous_strings \ P IN
    /\ previous_strings' = Restrict(previous_strings, DOMAIN previous_strings \ stale_pids)
    /\ previous_rwx' = Restrict(previous_rwx, DOMAIN previous_rwx \ stale_pids)

(* The snapshot is complete.                                               *)
take_snapshot ==
    /\ scan = "snapshot"
    /\ scan' = "scanning" /\ todo' = tracked
    /\ purge(Handled(tracked))
    /\ disturbed' = FALSE
    /\ UNCHANGED <<debugVars, reported, excused, queued>>

(* Where tracked changed under the iterator it may also raise: run catches *)
(* it, and this scan is over before it began.                              *)
snapshot_raises ==
    /\ scan = "snapshot" /\ disturbed
    /\ scan' = "waiting"
    /\ disturbed' = FALSE
    /\ UNCHANGED <<debugVars, todo, previous_strings, previous_rwx, reported,
                   excused, queued>>

Get(cache, p) == IF p \in DOMAIN cache THEN cache[p] ELSE {}

Set(cache, p, S) ==
    [q \in DOMAIN cache \union {p} |-> IF q = p THEN S ELSE cache[q]]

(* What read_committed_regions finds behind a handle: nothing once it has  *)
(* been closed, and another process if the value has been given again.     *)
Seen(h) == IF owner[h] = Closed THEN {} ELSE memory[owner[h]]

(* The strings an event can show of the new ones.                          *)
Shown(new) == {S \in SUBSET new : S # {} /\ Cardinality(S) <= MaxStrings}

(* Mutant: a queue without a bound.                                        *)
Room_always(q) == IF q <= QueueSize THEN 1 ELSE 0

Room(q) == IF q < QueueSize THEN 1 ELSE 0

(* Mutant: the caches are replaced before they are compared.               *)
new_strings_late(p, seen) == {}

new_strings(p, seen) == seen \ Get(previous_strings, p)

new_rwx(p, seen) == (seen \intersect RwxStrings) \ Get(previous_rwx, p)

(* The RWX alarm counts the new strings of each region for itself: one     *)
(* that is in several regions counts as often, and may bring the list to   *)
(* the threshold when the set is below it.                                 *)
Alarming(new) ==
    {alarm \in BOOLEAN : /\ Cardinality(new) >= RwxThreshold => alarm
                         /\ new = {} => ~alarm}

(* One process: YARA event, string event, RWX event, each put if there is  *)
(* room, then both caches.                                                 *)
scan_process(p) ==
    LET seen == Seen(todo[p])
        new == new_strings(p, seen)
    IN
    /\ scan = "scanning" /\ todo[p] # NoHandle
    /\ \E matches \in BOOLEAN, alarm \in Alarming(new_rwx(p, seen)) :
         LET q1 == queued + (IF matches THEN Room(queued) ELSE 0)
             q2 == q1 + (IF new # {} THEN Room(q1) ELSE 0)
         IN
         /\ queued' = q2 + (IF alarm THEN Room(q2) ELSE 0)
         /\ IF new # {} /\ q1 < QueueSize
              THEN \E S \in Shown(new) :
                     /\ reported' = [reported EXCEPT ![p] = @ \union S]
                     /\ excused' = IF S = new THEN excused ELSE excused \union {p}
              ELSE /\ excused' = IF new = {} THEN excused ELSE excused \union {p}
                   /\ UNCHANGED reported
    /\ previous_rwx' = Set(previous_rwx, p, seen \intersect RwxStrings)
    /\ previous_strings' = Set(previous_strings, p, seen)
    /\ todo' = [todo EXCEPT ![p] = NoHandle]
    /\ UNCHANGED <<debugVars, scan, disturbed>>

(* Reading a process may raise, a buffer that cannot be had: the others are *)
(* not scanned this time and nothing is forgotten.                         *)
scan_raises ==
    /\ scan = "scanning" /\ Handled(todo) # {}
    /\ scan' = "waiting"
    /\ todo' = [p \in Pids |-> NoHandle]
    /\ UNCHANGED <<debugVars, previous_strings, previous_rwx, reported,
                   excused, disturbed, queued>>

scan_done ==
    /\ scan = "scanning" /\ Handled(todo) = {}
    /\ scan' = "waiting"
    /\ UNCHANGED <<debugVars, todo, previous_strings, previous_rwx, reported,
                   excused, disturbed, queued>>

Scanner ==
    \/ wake \/ take_snapshot \/ snapshot_raises
    \/ \E p \in Pids : scan_process(p)
    \/ scan_raises \/ scan_done

Next ==
    \/ \E p \in Pids : \E h \in Handles : track(p, h)
    \/ \E p \in Pids : untrack(p)
    \/ close_handle
    \/ end_loop \/ clear_tracked
    \/ \E p \in Pids : cleanup(p) \/ Change(p)
    \/ get_event
    \/ Scanner

Spec == Init /\ [][Next]_vars
-----------------------------------------------------------------------------
(* "Generates a TraceEvent for every new string" (memory_scanner.py:4): a  *)
(* string the scanner remembers for a process has been shown by an event,  *)
(* unless one was lost to a full queue or cut at max_strings_per_event.    *)
RememberedWasReported ==
    \A p \in DOMAIN previous_strings \ excused :
        previous_strings[p] \subseteq reported[p]

(* The two caches always tell of the same processes and of the same scan   *)
(* of each, so that purging by the keys of the first leaves nothing behind *)
(* in the second (memory_scanner.py:117-121, 235-237).                     *)
CachesInStep ==
    /\ DOMAIN previous_strings = DOMAIN previous_rwx
    /\ \A p \in DOMAIN previous_strings :
         previous_rwx[p] = previous_strings[p] \intersect RwxStrings

(* The snapshot outlives what it names, and handle values are given again: *)
(* but a handle of it that has come to name another process is one of a    *)
(* process that is no longer tracked by it.  While its entry is there a    *)
(* process is read as itself, or, once the loop has ended, not at all      *)
(* (debug_thread.py:284, 294-295, 468-473; memory_scanner.py:115-124).     *)
StaleHandlesAreOfTheGone ==
    \A p \in Handled(todo) :
        todo[p] = tracked[p] =>
            \/ owner[todo[p]] = p
            \/ loop = "cleanup" /\ owner[todo[p]] = Closed
=============================================================================
