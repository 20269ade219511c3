-------------------------- MODULE ProcessHollowing --------------------------
(***************************************************************************)
(* detectors/process_hollow_detector.py, class ProcessHollowingDetector:   *)
(* the writes into other processes' memory and the remote threads of the   *)
(* last seconds, per attacker, and the alert when a thread starts in a     *)
(* process that was written to.                                            *)
(*                                                                         *)
(* A target is the key the detector correlates by: the victim's pid, or    *)
(* the handle's value where the pid could not be resolved.                 *)
(***************************************************************************)
EXTENDS Naturals, FiniteSets

CONSTANTS
    SourcePids,    \* the processes that write and start threads
    Targets,       \* target_key values
    HollowWindow   \* window_sec

ASSUME HollowAssumption == HollowWindow \in Nat

Call == [target : Targets, ts : Nat, id : Nat]

VARIABLES
    wpm_events,  \* self._wpm_events; no entry is an empty list
    crt_events,  \* self._crt_events
    ph_now,      \* history: the time of the latest call of process()
    ph_log,      \* history: every write process() was given, per attacker
    ph_threads,  \* history: every remote thread, likewise
    ph_alerts    \* history: the ids of the events that raised an alert

phVars == <<wpm_events, crt_events, ph_now, ph_log, ph_threads, ph_alerts>>

PHTypeOK ==
    /\ wpm_events \in [SourcePids -> SUBSET Call]
    /\ crt_events \in [SourcePids -> SUBSET Call]
    /\ ph_now \in Nat
    /\ ph_log \in [SourcePids -> SUBSET Call]
    /\ ph_threads \in [SourcePids -> SUBSET Call]
    /\ ph_alerts \in SUBSET Nat

PHInit ==
    /\ wpm_events = [p \in SourcePids |-> {}]
    /\ crt_events = [p \in SourcePids |-> {}]
    /\ ph_now = 0
    /\ ph_log = [p \in SourcePids |-> {}]
    /\ ph_threads = [p \in SourcePids |-> {}]
    /\ ph_alerts = {}

-----------------------------------------------------------------------------
(* Mutant: the cutoff is exclusive.                                        *)
prune_strict(store, now) ==
    [p \in SourcePids |-> {c \in store[p] : c.ts + HollowWindow > now}]

(* _prune of one store, for every attacker.                                *)
prune(store, now) ==
    [p \in SourcePids |-> {c \in store[p] : c.ts + HollowWindow >= now}]

(* INJECTION events that are neither a write nor a thread.                 *)
ph_other(now) ==
    /\ wpm_events' = prune(wpm_events, now)
    /\ crt_events' = prune(crt_events, now)
    /\ ph_now' = now
    /\ UNCHANGED <<ph_log, ph_threads, ph_alerts>>

(* WRITE_PROCESS_MEMORY.                                                   *)
ph_write(p, target, now, id) ==
    LET this == [target |-> target, ts |-> now, id |-> id] IN
    /\ wpm_events' = [prune(wpm_events, now) EXCEPT ![p] = @ \union {this}]
    /\ crt_events' = prune(crt_events, now)
    /\ ph_now' = now
    /\ ph_log' = [ph_log EXCEPT ![p] = @ \union {this}]
    /\ UNCHANGED <<ph_threads, ph_alerts>>

(* Mutant: any write of the attacker matches, whatever its target.         *)
matching_any(p, target, now) ==
    {w \in prune(wpm_events, now)[p] : now <= w.ts + HollowWindow}

matching_wpm(p, target, now) ==
    {w \in prune(wpm_events, now)[p] :
        w.target = target /\ now <= w.ts + HollowWindow}

(* CREATE_REMOTE_THREAD.                                                   *)
ph_thread(p, target, now, id) ==
    LET this == [target |-> target, ts |-> now, id |-> id] IN
    /\ wpm_events' = prune(wpm_events, now)
    /\ crt_events' = [prune(crt_events, now) EXCEPT ![p] = @ \union {this}]
    /\ ph_now' = now
    /\ ph_threads' = [ph_threads EXCEPT ![p] = @ \union {this}]
    /\ ph_alerts' = IF matching_wpm(p, target, now) # {}
                      THEN ph_alerts \union {id} ELSE ph_alerts
    /\ UNCHANGED ph_log

(* A new instance of the detector.                                         *)
ph_new ==
    /\ wpm_events' = [p \in SourcePids |-> {}]
    /\ crt_events' = [p \in SourcePids |-> {}]
    /\ ph_log' = [p \in SourcePids |-> {}]
    /\ ph_threads' = [p \in SourcePids |-> {}]
    /\ ph_alerts' = {}
    /\ UNCHANGED ph_now

PHFresh(id) ==
    \A p \in SourcePids : \A c \in ph_log[p] \union ph_threads[p] : c.id < id

PHNext ==
    \/ \E p \in SourcePids : \E target \in Targets : \E now, id \in Nat :
         /\ now >= ph_now /\ PHFresh(id)
         /\ \/ ph_write(p, target, now, id)
            \/ ph_thread(p, target, now, id)
    \/ \E now \in Nat : now >= ph_now /\ ph_other(now)
    \/ ph_new

PHSpec == PHInit /\ [][PHNext]_phVars

-----------------------------------------------------------------------------
(* Every remote thread is judged by the writes that came before it: it     *)
(* raises an alert exactly when the same attacker wrote into the same      *)
(* target within the window, however the two stores were pruned for other  *)
(* events meanwhile (process_hollow_detector.py:71-130).                   *)
InjectionsAreFound ==
    \A p \in SourcePids : \A c \in ph_threads[p] :
        c.id \in ph_alerts
          <=> \E w \in ph_log[p] : /\ w.target = c.target /\ w.id < c.id
                                   /\ c.ts <= w.ts + HollowWindow

(* The stores keep exactly the events of the window, of every attacker:    *)
(* nothing that could still match is lost, nothing older is kept           *)
(* (process_hollow_detector.py:132-139).                                   *)
StoresHoldTheWindow ==
    \A p \in SourcePids :
        /\ wpm_events[p] = {w \in ph_log[p] : w.ts + HollowWindow >= ph_now}
        /\ crt_events[p] = {c \in ph_threads[p] : c.ts + HollowWindow >= ph_now}
=============================================================================
