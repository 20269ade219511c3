------------------------ MODULE MemoryScannerProofs ------------------------
(***************************************************************************)
(* Proofs about MemoryScanner: for any pids, handle values, strings, queue *)
(* and thresholds, and any debug thread beside it.                         *)
(***************************************************************************)
EXTENDS MemoryScanner, TLAPS

Caches(D, S) == UNION {[E -> SUBSET S] : E \in SUBSET D}

IInv == TypeOK /\ CachesInStep /\ RememberedWasReported

(* A cache is a function from some pids to strings.                        *)
LEMMA CacheOf ==
    ASSUME NEW D, NEW S, NEW f
    PROVE  f \in Caches(D, S) <=> /\ f \in [DOMAIN f -> SUBSET S]
                                  /\ DOMAIN f \subseteq D
  BY DEF Caches

(* The pids left in a cache after purge are those of both.                 *)
LEMMA PurgeKeeps ==
    ASSUME TypeOK, CachesInStep, NEW P, purge(P)
    PROVE  /\ DOMAIN previous_strings' = DOMAIN previous_strings \intersect P
           /\ DOMAIN previous_rwx' = DOMAIN previous_strings \intersect P
           /\ \A p \in DOMAIN previous_strings' :
                /\ previous_strings'[p] = previous_strings[p]
                /\ previous_rwx'[p] = previous_rwx[p]
           /\ previous_strings' \in Caches(Pids, Strings)
           /\ previous_rwx' \in Caches(Pids, RwxStrings)
  <1> DEFINE K == DOMAIN previous_strings \intersect P
  <1>1. /\ previous_strings \in [DOMAIN previous_strings -> SUBSET Strings]
        /\ previous_rwx \in [DOMAIN previous_rwx -> SUBSET RwxStrings]
        /\ DOMAIN previous_strings \subseteq Pids
    BY CacheOf DEF TypeOK, Caches
  <1>2. /\ DOMAIN previous_strings \ (DOMAIN previous_strings \ P) = K
        /\ DOMAIN previous_rwx \ (DOMAIN previous_strings \ P) = K
    BY DEF CachesInStep
  <1>3. /\ previous_strings' = [p \in K |-> previous_strings[p]]
        /\ previous_rwx' = [p \in K |-> previous_rwx[p]]
    BY <1>2 DEF purge, Restrict
  <1>4. /\ previous_strings' \in [K -> SUBSET Strings]
        /\ previous_rwx' \in [K -> SUBSET RwxStrings]
    BY <1>1, <1>3 DEF CachesInStep
  <1> QED BY <1>1, <1>3, <1>4, CacheOf

(* Room adds one only below the size of the queue.                         *)
LEMMA RoomFits ==
    ASSUME NEW q \in 0 .. QueueSize
    PROVE  /\ q + Room(q) \in 0 .. QueueSize
           /\ q + 0 \in 0 .. QueueSize
  BY ScannerAssumption DEF Room

LEMMA InitInv == Init => IInv
  <1> SUFFICES ASSUME Init PROVE IInv
    OBVIOUS
  <1>1. /\ DOMAIN previous_strings = {} /\ DOMAIN previous_rwx = {}
        /\ previous_strings \in Caches(Pids, Strings)
        /\ previous_rwx \in Caches(Pids, RwxStrings)
    BY CacheOf DEF Init
  <1>2. TypeOK
    <2>1. /\ tracked \in [Pids -> Handles \union {NoHandle}]
          /\ owner \in [Handles -> Pids \union {Closed}]
          /\ memory \in [Pids -> SUBSET Strings]
          /\ todo \in [Pids -> Handles \union {NoHandle}]
          /\ reported \in [Pids -> SUBSET Strings]
      BY DEF Init
    <2>2. queued \in 0 .. QueueSize
      BY ScannerAssumption DEF Init
    <2> QED BY <1>1, <2>1, <2>2 DEF Init, TypeOK, Caches
  <1> QED BY <1>1, <1>2 DEF IInv, CachesInStep, RememberedWasReported

(* The steps of the debug thread and of the caller touch no cache.         *)
LEMMA DebugInv ==
    ASSUME IInv,
           NEW p \in Pids,
           \/ \E h \in Handles : track(p, h)
           \/ untrack(p) \/ Change(p) \/ cleanup(p)
    PROVE  IInv'
  <1>1. /\ UNCHANGED <<previous_strings, previous_rwx, reported, excused>>
    BY DEF track, untrack, Change, cleanup, scanVars
  <1>2. TypeOK'
    <2>1. CASE \E h \in Handles : track(p, h)
      BY <2>1 DEF IInv, TypeOK, track, scanVars
    <2>2. CASE untrack(p)
      BY <2>2 DEF IInv, TypeOK, untrack, scanVars
    <2>3. CASE Change(p)
      BY <2>3 DEF IInv, TypeOK, Change, scanVars
    <2>4. CASE cleanup(p)
      BY <2>4 DEF IInv, TypeOK, cleanup, Close, scanVars
    <2> QED BY <2>1, <2>2, <2>3, <2>4
  <1> QED BY <1>1, <1>2 DEF IInv, CachesInStep, RememberedWasReported

LEMMA QuietInv ==
    ASSUME IInv, close_handle \/ get_event \/ end_loop \/ clear_tracked
    PROVE  IInv'
  <1>1. UNCHANGED <<previous_strings, previous_rwx, reported, excused>>
    BY DEF close_handle, get_event, end_loop, clear_tracked, scanVars
  <1>2. TypeOK'
    <2>1. CASE close_handle
      BY <2>1 DEF IInv, TypeOK, close_handle, Close, scanVars
    <2>2. CASE get_event
      BY <2>2, ScannerAssumption DEF IInv, TypeOK, get_event, debugVars, scanVars
    <2>3. CASE end_loop \/ clear_tracked
      BY <2>3 DEF IInv, TypeOK, end_loop, clear_tracked, scanVars
    <2> QED BY <2>1, <2>2, <2>3
  <1> QED BY <1>1, <1>2 DEF IInv, CachesInStep, RememberedWasReported

(* The scanner's own steps around the scan of a process.                   *)
LEMMA AroundInv ==
    ASSUME IInv, wake \/ snapshot_raises \/ scan_raises \/ scan_done
    PROVE  IInv'
  <1>1. /\ UNCHANGED <<previous_strings, previous_rwx, reported, excused>>
    BY DEF wake, snapshot_raises, scan_raises, scan_done
  <1>2. TypeOK'
    BY DEF IInv, TypeOK, wake, snapshot_raises, scan_raises, scan_done, debugVars
  <1> QED BY <1>1, <1>2 DEF IInv, CachesInStep, RememberedWasReported

LEMMA SnapshotInv == ASSUME IInv, take_snapshot PROVE IInv'
  <1> USE DEF IInv
  <1>1. PICK P : purge(P)
    BY DEF take_snapshot
  <1>2. /\ DOMAIN previous_strings' = DOMAIN previous_strings \intersect P
        /\ DOMAIN previous_rwx' = DOMAIN previous_strings \intersect P
        /\ \A p \in DOMAIN previous_strings' :
             /\ previous_strings'[p] = previous_strings[p]
             /\ previous_rwx'[p] = previous_rwx[p]
        /\ previous_strings' \in Caches(Pids, Strings)
        /\ previous_rwx' \in Caches(Pids, RwxStrings)
    BY <1>1, PurgeKeeps
  <1>3. TypeOK'
    BY <1>2 DEF TypeOK, take_snapshot, debugVars, Caches
  <1>4. CachesInStep'
    BY <1>2 DEF CachesInStep
  <1>5. RememberedWasReported'
    BY <1>2 DEF RememberedWasReported, take_snapshot
  <1> QED BY <1>3, <1>4, <1>5

(* The scan of a process: what it remembers is what it has seen now; of    *)
(* that, the part it remembered before was reported before, and the rest   *)
(* is reported by this event, or the process is excused.                   *)
LEMMA ScanInv ==
    ASSUME IInv, NEW p \in Pids, scan_process(p)
    PROVE  IInv'
  <1> USE DEF IInv
  <1> DEFINE seen == Seen(todo[p])
             new == new_strings(p, seen)
  <1>1. seen \in SUBSET Strings
    BY DEF TypeOK, scan_process, Seen
  <1>2. /\ DOMAIN previous_strings' = DOMAIN previous_strings \union {p}
        /\ DOMAIN previous_rwx' = DOMAIN previous_rwx \union {p}
        /\ \A q \in DOMAIN previous_strings \union {p} :
             previous_strings'[q] = IF q = p THEN seen ELSE previous_strings[q]
        /\ \A q \in DOMAIN previous_rwx \union {p} :
             previous_rwx'[q] = IF q = p THEN seen \intersect RwxStrings
                                         ELSE previous_rwx[q]
        /\ previous_strings' \in [DOMAIN previous_strings' -> SUBSET Strings]
        /\ previous_rwx' \in [DOMAIN previous_rwx' -> SUBSET RwxStrings]
    <2>1. /\ previous_strings \in [DOMAIN previous_strings -> SUBSET Strings]
          /\ previous_rwx \in [DOMAIN previous_rwx -> SUBSET RwxStrings]
      BY CacheOf DEF TypeOK, Caches
    <2>2. /\ previous_strings' = Set(previous_strings, p, seen)
          /\ previous_rwx' = Set(previous_rwx, p, seen \intersect RwxStrings)
      BY DEF scan_process
    <2> QED BY <1>1, <2>1, <2>2 DEF Set
  <1>3. /\ previous_strings' \in Caches(Pids, Strings)
        /\ previous_rwx' \in Caches(Pids, RwxStrings)
    <2>1. /\ DOMAIN previous_strings \subseteq Pids
          /\ DOMAIN previous_rwx \subseteq Pids
      BY CacheOf DEF TypeOK, Caches
    <2> QED BY <1>2, <2>1, CacheOf
  <1>4. queued' \in 0 .. QueueSize
    <2>1. PICK a, b, c \in BOOLEAN :
            LET q1 == queued + (IF a THEN Room(queued) ELSE 0)
                q2 == q1 + (IF b THEN Room(q1) ELSE 0)
            IN queued' = q2 + (IF c THEN Room(q2) ELSE 0)
      BY DEF scan_process, Alarming
    <2> DEFINE q1 == queued + (IF a THEN Room(queued) ELSE 0)
               q2 == q1 + (IF b THEN Room(q1) ELSE 0)
    <2>2. q1 \in 0 .. QueueSize
      BY RoomFits DEF TypeOK
    <2>3. q2 \in 0 .. QueueSize
      BY <2>2, RoomFits
    <2>4. queued' = q2 + (IF c THEN Room(q2) ELSE 0)
      BY <2>1
    <2> HIDE DEF q2
    <2> QED BY <2>3, <2>4, RoomFits
  <1>5. \/ /\ new # {}
           /\ \E S \in SUBSET new :
                /\ reported' = [reported EXCEPT ![p] = @ \union S]
                /\ excused' = IF S = new THEN excused ELSE excused \union {p}
        \/ /\ excused' = IF new = {} THEN excused ELSE excused \union {p}
           /\ UNCHANGED reported
    BY DEF scan_process, Shown
  <1>6. TypeOK'
    <2>1. new \in SUBSET Strings
      BY <1>1 DEF new_strings
    <2>2. reported' \in [Pids -> SUBSET Strings] /\ excused' \in SUBSET Pids
      BY <1>5, <2>1 DEF TypeOK
    <2>3. /\ UNCHANGED <<loop, tracked, closing, owner, memory, scan, disturbed>>
          /\ todo' = [todo EXCEPT ![p] = NoHandle]
      BY DEF scan_process, debugVars
    <2> QED BY <1>3, <1>4, <2>2, <2>3 DEF TypeOK, Caches
  <1>7. CachesInStep'
    BY <1>2 DEF CachesInStep
  <1>8. RememberedWasReported'
    <2> SUFFICES ASSUME NEW q \in DOMAIN previous_strings' \ excused'
                 PROVE  previous_strings'[q] \subseteq reported'[q]
      BY DEF RememberedWasReported
    <2>1. excused \subseteq excused'
      BY <1>5
    <2>2. CASE q # p
      <3>1. q \in DOMAIN previous_strings \ excused
        BY <1>2, <2>1, <2>2
      <3>2. q \in Pids
        BY <3>1, CacheOf DEF TypeOK, Caches
      <3>3. reported'[q] = reported[q]
        BY <1>5, <2>2, <3>2 DEF TypeOK
      <3> QED BY <1>2, <2>2, <3>1, <3>3 DEF RememberedWasReported
    <2>3. CASE q = p
      <3>1. seen \ new \subseteq reported[p]
        BY <2>1, <2>3 DEF new_strings, Get, RememberedWasReported
      <3>2. reported'[p] = reported[p] \union new
        BY <1>5, <2>3 DEF TypeOK
      <3> QED BY <1>2, <2>3, <3>1, <3>2
    <2> QED BY <2>2, <2>3
  <1> QED BY <1>6, <1>7, <1>8

LEMMA NextInv == ASSUME IInv, [Next]_vars PROVE IInv'
  <1>1. CASE UNCHANGED vars
    BY <1>1 DEF vars, debugVars, scanVars, IInv, TypeOK, CachesInStep,
                RememberedWasReported
  <1>2. CASE close_handle \/ get_event \/ end_loop \/ clear_tracked
    BY <1>2, QuietInv
  <1>3. CASE \E p \in Pids : \/ \E h \in Handles : track(p, h)
                             \/ untrack(p) \/ Change(p) \/ cleanup(p)
    BY <1>3, DebugInv
  <1>4. CASE Scanner
    BY <1>4, AroundInv, SnapshotInv, ScanInv DEF Scanner
  <1> QED BY <1>1, <1>2, <1>3, <1>4 DEF Next

(* Type correctness, the bound of the queue included.                      *)
THEOREM TypeCorrect == Spec => []TypeOK
  <1>1. IInv => TypeOK
    BY DEF IInv
  <1> QED BY <1>1, InitInv, NextInv, PTL DEF Spec

(* The two caches never part (memory_scanner.py:117-121, 235-237).         *)
THEOREM CachesInStepHolds == Spec => []CachesInStep
  <1>1. IInv => CachesInStep
    BY DEF IInv
  <1> QED BY <1>1, InitInv, NextInv, PTL DEF Spec

(* What is remembered has been reported, or was lost to a full queue or to *)
(* the limit of an event (memory_scanner.py:185-208, 237).                 *)
THEOREM RememberedWasReportedHolds == Spec => []RememberedWasReported
  <1>1. IInv => RememberedWasReported
    BY DEF IInv
  <1> QED BY <1>1, InitInv, NextInv, PTL DEF Spec

-----------------------------------------------------------------------------
(* Handles.                                                                *)

(* The handle of a tracked process is its own and open until the cleanup;  *)
(* the one that is still to be closed is nobody's any more.                *)
OwnHandles ==
    /\ \A p \in Handled(tracked) :
         \/ owner[tracked[p]] = p
         \/ loop = "cleanup" /\ owner[tracked[p]] = Closed
    /\ closing # NoHandle => /\ loop = "running" /\ owner[closing] # Closed
                            /\ \A p \in Pids : tracked[p] # closing

LEMMA HandlesInv ==
    ASSUME TypeOK, OwnHandles, [Next]_vars PROVE OwnHandles'
  <1>1. /\ tracked \in [Pids -> Handles \union {NoHandle}]
        /\ closing \in Handles \union {NoHandle}
        /\ owner \in [Handles -> Pids \union {Closed}]
        /\ NoHandle \notin Handles /\ Closed \notin Pids
    BY ScannerAssumption DEF TypeOK, ScannerAssumption
  <1>2. /\ \A p \in Pids : tracked[p] # NoHandle =>
             \/ owner[tracked[p]] = p
             \/ loop = "cleanup" /\ owner[tracked[p]] = Closed
        /\ closing # NoHandle => /\ loop = "running" /\ owner[closing] # Closed
                                /\ \A p \in Pids : tracked[p] # closing
    BY DEF OwnHandles, Handled
  <1>3. ASSUME NEW p \in Pids, NEW h \in Handles, track(p, h) PROVE OwnHandles'
    <2>1. /\ loop = "running" /\ loop' = loop /\ closing' = closing
          /\ owner[h] = Closed
          /\ tracked' = [tracked EXCEPT ![p] = h] /\ owner' = [owner EXCEPT ![h] = p]
      BY <1>3 DEF track
    <2>2. /\ \A q \in Pids : tracked[q] # h
          /\ closing # h
      BY <1>1, <1>2, <2>1
    <2> QED BY <1>1, <1>2, <2>1, <2>2 DEF OwnHandles, Handled
  <1>4. ASSUME NEW p \in Pids, untrack(p) PROVE OwnHandles'
    <2>1. /\ loop = "running" /\ loop' = loop /\ owner' = owner
          /\ tracked[p] # NoHandle /\ closing' = tracked[p]
          /\ tracked' = [tracked EXCEPT ![p] = NoHandle]
      BY <1>4 DEF untrack
    <2>2. /\ owner[tracked[p]] = p
          /\ \A q \in Pids \ {p} : tracked[q] # tracked[p]
      BY <1>1, <1>2, <2>1
    <2> QED BY <1>1, <1>2, <2>1, <2>2 DEF OwnHandles, Handled
  <1>5. ASSUME close_handle PROVE OwnHandles'
    <2>1. /\ closing # NoHandle /\ closing' = NoHandle /\ tracked' = tracked
          /\ loop' = loop /\ owner' = [owner EXCEPT ![closing] = Closed]
      BY <1>5 DEF close_handle, Close
    <2>2. \A p \in Pids : tracked[p] # NoHandle => owner'[tracked[p]] = owner[tracked[p]]
      BY <1>1, <1>2, <2>1
    <2> QED BY <1>1, <1>2, <2>1, <2>2 DEF OwnHandles, Handled
  <1>6. ASSUME NEW p \in Pids, cleanup(p) PROVE OwnHandles'
    <2>1. /\ loop = "cleanup" /\ loop' = loop /\ closing' = closing
          /\ tracked' = tracked /\ tracked[p] # NoHandle
          /\ owner' = [owner EXCEPT ![tracked[p]] = Closed]
      BY <1>6 DEF cleanup, Close
    <2>2. closing = NoHandle
      BY <1>2, <2>1
    <2>3. \A q \in Pids : tracked[q] # NoHandle =>
            owner'[tracked[q]] = owner[tracked[q]] \/ owner'[tracked[q]] = Closed
      BY <1>1, <2>1
    <2> QED BY <1>1, <1>2, <2>1, <2>2, <2>3 DEF OwnHandles, Handled
  <1>7. ASSUME end_loop PROVE OwnHandles'
    BY <1>1, <1>2, <1>7 DEF end_loop, OwnHandles, Handled
  <1>8. ASSUME clear_tracked PROVE OwnHandles'
    BY <1>1, <1>2, <1>8 DEF clear_tracked, OwnHandles, Handled
  <1>9. CASE UNCHANGED <<loop, tracked, closing, owner>>
    BY <1>2, <1>9 DEF OwnHandles, Handled
  <1>10. CASE Scanner
    <2>1. UNCHANGED debugVars
      BY <1>10 DEF Scanner, wake, take_snapshot, snapshot_raises, scan_process,
                   scan_raises, scan_done
    <2> QED BY <1>9, <2>1 DEF debugVars
  <1>11. CASE (\E p \in Pids : Change(p)) \/ get_event \/ UNCHANGED vars
    BY <1>9, <1>11 DEF Change, get_event, vars, debugVars
  <1> QED BY <1>3, <1>4, <1>5, <1>6, <1>7, <1>8, <1>10, <1>11 DEF Next

(* A handle of the snapshot that names another process than it was taken   *)
(* for is one of a process that has left tracked (debug_thread.py:284,     *)
(* 294-295, 468-473; memory_scanner.py:115-124).                           *)
THEOREM StaleHandlesAreOfTheGoneHolds == Spec => []StaleHandlesAreOfTheGone
  <1>1. Init => OwnHandles
    BY DEF Init, OwnHandles, Handled
  <1>2. IInv /\ OwnHandles /\ [Next]_vars => OwnHandles'
    BY HandlesInv DEF IInv
  <1>3. IInv /\ OwnHandles => StaleHandlesAreOfTheGone
    BY DEF IInv, TypeOK, OwnHandles, Handled, StaleHandlesAreOfTheGone
  <1> QED BY <1>1, <1>2, <1>3, InitInv, NextInv, PTL DEF Spec
=============================================================================
