------------------------------ MODULE C2Beacon ------------------------------
(***************************************************************************)
(* detectors/c2_beacon_detector.py, class C2BeaconDetector: connections of *)
(* a process to one IP:port, counted over a sliding window, and the set of *)
(* pairs an alert has been raised for.                                     *)
(*                                                                         *)
(* The list of a pair is a set of <<time, event id>> records: ids are      *)
(* unique, and only the average interval in the alert's text reads the     *)
(* order.  The time of a connection is time.monotonic() when process() is  *)
(* called, an argument here.                                               *)
(***************************************************************************)
EXTENDS Naturals, FiniteSets

CONSTANTS
    Pids, Dests,    \* processes; <<ip, port>> pairs
    Window,         \* window_sec
    Threshold       \* count_threshold

ASSUME C2Assumption == Window \in Nat /\ Threshold \in Nat \ {0}

Pairs == Pids \X Dests

Connection == [ts : Nat, id : Nat]

VARIABLES
    connections,  \* self._connections; no entry is an empty list
    alerted,      \* self._alerted
    c2_now,       \* history: the time of the latest call of process()
    c2_log,       \* history: every connection process() was given, per pair
    c2_alerts     \* history: the connections that raised an alert, per pair

c2Vars == <<connections, alerted, c2_now, c2_log, c2_alerts>>

C2TypeOK ==
    /\ connections \in [Pairs -> SUBSET Connection]
    /\ alerted \in SUBSET Pairs
    /\ c2_now \in Nat
    /\ c2_log \in [Pairs -> SUBSET Connection]
    /\ c2_alerts \in [Pairs -> SUBSET Connection]

C2Init ==
    /\ connections = [k \in Pairs |-> {}]
    /\ alerted = {}
    /\ c2_now = 0
    /\ c2_log = [k \in Pairs |-> {}]
    /\ c2_alerts = [k \in Pairs |-> {}]

-----------------------------------------------------------------------------
(* Mutant: the age limit is exclusive.                                     *)
Active_strict(S, now) == {c \in S : now < c.ts + Window}

Active(S, now) == {c \in S : now <= c.ts + Window}

(* Mutant: an alert key is never given up.                                 *)
prune_alerted_never(now) == alerted

(* Mutant: the keys are given up at every call.                            *)
prune_alerted_all(now) == {}

(* _prune_alerted, which looks at the pairs of every process.              *)
prune_alerted(now) ==
    {k \in alerted : Cardinality(Active(connections[k], now)) >= Threshold}

(* process() of a connection without a parsed address.                     *)
c2_unparsed(now) ==
    /\ alerted' = prune_alerted(now)
    /\ c2_now' = now
    /\ UNCHANGED <<connections, c2_log, c2_alerts>>

(* process() of the connection of a pair.                                  *)
c2_process(k, now, id) ==
    LET kept == prune_alerted(now)
        this == [ts |-> now, id |-> id]
        conn_list == Active(connections[k], now) \union {this}
        fires == Cardinality(conn_list) >= Threshold /\ k \notin kept
    IN
    /\ connections' = [connections EXCEPT ![k] = conn_list]
    /\ alerted' = IF fires THEN kept \union {k} ELSE kept
    /\ c2_now' = now
    /\ c2_log' = [c2_log EXCEPT ![k] = @ \union {this}]
    /\ c2_alerts' = IF fires THEN [c2_alerts EXCEPT ![k] = @ \union {this}]
                     ELSE c2_alerts

(* A new instance of the detector.                                         *)
c2_new ==
    /\ connections' = [k \in Pairs |-> {}]
    /\ alerted' = {}
    /\ c2_log' = [k \in Pairs |-> {}]
    /\ c2_alerts' = [k \in Pairs |-> {}]
    /\ UNCHANGED c2_now

Fresh(id) == \A k \in Pairs : \A c \in c2_log[k] : c.id < id

C2Next ==
    \/ \E k \in Pairs : \E now, id \in Nat :
         now >= c2_now /\ Fresh(id) /\ c2_process(k, now, id)
    \/ \E now \in Nat : now >= c2_now /\ c2_unparsed(now)
    \/ c2_new

C2Spec == C2Init /\ [][C2Next]_c2Vars

-----------------------------------------------------------------------------
(* The connections of a pair in the window that ends at a time, among all  *)
(* the detector was ever given.                                            *)
InWindow(k, time) == {c \in c2_log[k] : c.ts + Window >= time}

(* _alerted is exactly the set of pairs that are beaconing as of the last  *)
(* call, although lists are pruned only when their own pair connects again *)
(* and keys only against those lists (c2_beacon_detector.py:76-87, 107).   *)
AlertedIsExact ==
    alerted = {k \in Pairs : Cardinality(InWindow(k, c2_now)) >= Threshold}

(* An alert is raised by, and only by, the connections that bring the      *)
(* count of their window to the threshold, whatever other pairs did in     *)
(* between (c2_beacon_detector.py:91, 123-124).                            *)
AlertsOnCrossing ==
    \A k \in Pairs :
        c2_alerts[k] =
          {c \in c2_log[k] :
             Cardinality({d \in InWindow(k, c.ts) : d.id <= c.id}) = Threshold}

(* What the set of alerted pairs does against flooding: between two alerts *)
(* of a pair, a connection that the earlier one counted has left the       *)
(* window, so that no burst that fits into one is alerted twice            *)
(* (c2_beacon_detector.py:76-87, 123-124).                                 *)
AlertsAreApart ==
    \A k \in Pairs : \A a, b \in c2_alerts[k] :
        a.id < b.id =>
          \E c \in InWindow(k, a.ts) : c.id <= a.id /\ c.ts + Window < b.ts

(* "Alert fires once per (pid, ip, port) pair ... to avoid flooding -      *)
(* resets automatically when window expires" (c2_beacon_detector.py:51):   *)
(* two alerts of a pair are more than a window apart.                      *)
OncePerWindow ==
    \A k \in Pairs : \A a, b \in c2_alerts[k] :
        a.id < b.id => b.ts > a.ts + Window
=============================================================================
