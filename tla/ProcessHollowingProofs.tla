----------------------- MODULE ProcessHollowingProofs -----------------------
(***************************************************************************)
(* Proofs about ProcessHollowing: for any processes, targets and window,   *)
(* and any calls of process() at times that do not run backwards.          *)
(***************************************************************************)
EXTENDS ProcessHollowing, TLAPS

(* Only logged threads have raised alerts, so the id of a new event has    *)
(* raised none.                                                            *)
AlertsOK ==
    \A id \in ph_alerts : \E p \in SourcePids : \E c \in ph_threads[p] : c.id = id

PHInv ==
    PHTypeOK /\ AlertsOK /\ StoresHoldTheWindow /\ InjectionsAreFound

LEMMA PHInitInv == PHInit => PHInv
BY DEF PHInit, PHInv, PHTypeOK, AlertsOK, StoresHoldTheWindow,
       InjectionsAreFound

(* Pruning a store that holds the window up to one time leaves the window  *)
(* up to a later time.                                                     *)
LEMMA PruneWindow ==
    ASSUME NEW log \in [SourcePids -> SUBSET Call],
           NEW old \in Nat, NEW now \in Nat, old <= now
    PROVE  prune([p \in SourcePids |-> {c \in log[p] : c.ts + HollowWindow >= old}], now)
             = [p \in SourcePids |-> {c \in log[p] : c.ts + HollowWindow >= now}]
<1> DEFINE Kept(t) == [p \in SourcePids |-> {c \in log[p] : c.ts + HollowWindow >= t}]
<1>1. ASSUME NEW p \in SourcePids
      PROVE  {c \in Kept(old)[p] : c.ts + HollowWindow >= now} = Kept(now)[p]
  <2>1. \A c \in log[p] : c.ts \in Nat
    BY DEF Call
  <2>2. \A c \in log[p] : c.ts + HollowWindow >= now => c.ts + HollowWindow >= old
    BY <2>1, HollowAssumption DEF HollowAssumption
  <2> QED BY <2>2
<1> QED BY <1>1 DEF prune

(* The same for the two stores of a state of the detector.                 *)
LEMMA StoresPruned ==
    ASSUME PHTypeOK, StoresHoldTheWindow, NEW now \in Nat, now >= ph_now
    PROVE  /\ prune(wpm_events, now)
                = [p \in SourcePids |-> {w \in ph_log[p] : w.ts + HollowWindow >= now}]
           /\ prune(crt_events, now)
                = [p \in SourcePids |-> {c \in ph_threads[p] : c.ts + HollowWindow >= now}]
<1>1. wpm_events = [p \in SourcePids |-> {w \in ph_log[p] : w.ts + HollowWindow >= ph_now}]
  BY DEF PHTypeOK, StoresHoldTheWindow
<1>2. crt_events = [p \in SourcePids |-> {c \in ph_threads[p] : c.ts + HollowWindow >= ph_now}]
  BY DEF PHTypeOK, StoresHoldTheWindow
<1>3. /\ ph_now \in Nat /\ ph_now <= now
      /\ ph_log \in [SourcePids -> SUBSET Call]
      /\ ph_threads \in [SourcePids -> SUBSET Call]
  BY DEF PHTypeOK
<1> QED BY <1>1, <1>2, <1>3, PruneWindow

(* process() of an event that is neither a write nor a thread.             *)
LEMMA OtherInv ==
    ASSUME PHInv, NEW now \in Nat, now >= ph_now, ph_other(now)
    PROVE  PHInv'
<1> USE DEF PHInv, ph_other
<1>1. /\ wpm_events' = [p \in SourcePids |-> {w \in ph_log[p] : w.ts + HollowWindow >= now}]
      /\ crt_events' = [p \in SourcePids |-> {c \in ph_threads[p] : c.ts + HollowWindow >= now}]
  BY StoresPruned
<1>2. PHTypeOK'
  BY <1>1 DEF PHTypeOK
<1>4. AlertsOK' /\ InjectionsAreFound'
  BY DEF AlertsOK, InjectionsAreFound
<1>5. StoresHoldTheWindow'
  BY <1>1 DEF StoresHoldTheWindow
<1> QED BY <1>2, <1>4, <1>5

(* process() of a write: it matches no thread that came before it.         *)
LEMMA WriteInv ==
    ASSUME PHInv, NEW now \in Nat, NEW id \in Nat, now >= ph_now, PHFresh(id),
           NEW q \in SourcePids, NEW target \in Targets,
           ph_write(q, target, now, id)
    PROVE  PHInv'
<1> DEFINE this == [target |-> target, ts |-> now, id |-> id]
<1> USE DEF PHInv
<1>1. /\ prune(wpm_events, now)
           = [p \in SourcePids |-> {w \in ph_log[p] : w.ts + HollowWindow >= now}]
      /\ prune(crt_events, now)
           = [p \in SourcePids |-> {c \in ph_threads[p] : c.ts + HollowWindow >= now}]
  BY StoresPruned
<1>2. /\ this \in Call /\ this.ts = now /\ this.id = id
      /\ this.ts + HollowWindow >= now
  BY HollowAssumption DEF Call, HollowAssumption
<1>3. /\ ph_log' = [ph_log EXCEPT ![q] = @ \union {this}]
      /\ ph_threads' = ph_threads /\ ph_alerts' = ph_alerts /\ ph_now' = now
      /\ wpm_events' = [prune(wpm_events, now) EXCEPT ![q] = @ \union {this}]
      /\ crt_events' = prune(crt_events, now)
  BY DEF ph_write
<1>4. PHTypeOK'
  BY <1>1, <1>2, <1>3 DEF PHTypeOK
<1>6. AlertsOK'
  BY <1>3 DEF AlertsOK
<1>7. StoresHoldTheWindow'
  <2>1. \A p \in SourcePids :
          wpm_events'[p] = {w \in ph_log'[p] : w.ts + HollowWindow >= now}
    BY <1>1, <1>2, <1>3 DEF PHTypeOK
  <2> QED BY <1>1, <1>3, <2>1 DEF StoresHoldTheWindow
<1>8. InjectionsAreFound'
  <2> SUFFICES ASSUME NEW p \in SourcePids, NEW c \in ph_threads[p]
               PROVE  (\E w \in ph_log'[p] : /\ w.target = c.target /\ w.id < c.id
                                             /\ c.ts <= w.ts + HollowWindow)
                      <=> (\E w \in ph_log[p] : /\ w.target = c.target /\ w.id < c.id
                                                /\ c.ts <= w.ts + HollowWindow)
    BY <1>3 DEF InjectionsAreFound
  <2>1. c.id < id /\ c.id \in Nat
    BY DEF PHFresh, PHTypeOK, Call
  <2>2. ~ (this.id < c.id)
    BY <1>2, <2>1
  <2>3. ph_log'[p] = ph_log[p] \/ ph_log'[p] = ph_log[p] \union {this}
    BY <1>3 DEF PHTypeOK
  <2> QED BY <2>2, <2>3
<1> QED BY <1>4, <1>6, <1>7, <1>8

(* process() of a remote thread: judged by the writes of the window, which *)
(* the store holds.                                                        *)
LEMMA ThreadInv ==
    ASSUME PHInv, NEW now \in Nat, NEW id \in Nat, now >= ph_now, PHFresh(id),
           NEW q \in SourcePids, NEW target \in Targets,
           ph_thread(q, target, now, id)
    PROVE  PHInv'
<1> DEFINE this == [target |-> target, ts |-> now, id |-> id]
           Fires == matching_wpm(q, target, now) # {}
<1> USE DEF PHInv
<1>1. /\ prune(wpm_events, now)
           = [p \in SourcePids |-> {w \in ph_log[p] : w.ts + HollowWindow >= now}]
      /\ prune(crt_events, now)
           = [p \in SourcePids |-> {c \in ph_threads[p] : c.ts + HollowWindow >= now}]
  BY StoresPruned
<1>2. /\ this \in Call /\ this.ts = now /\ this.id = id /\ this.target = target
      /\ this.ts + HollowWindow >= now
  BY HollowAssumption DEF Call, HollowAssumption
<1>3. /\ ph_log' = ph_log /\ ph_now' = now
      /\ ph_threads' = [ph_threads EXCEPT ![q] = @ \union {this}]
      /\ wpm_events' = prune(wpm_events, now)
      /\ crt_events' = [prune(crt_events, now) EXCEPT ![q] = @ \union {this}]
      /\ ph_alerts' = IF Fires THEN ph_alerts \union {id} ELSE ph_alerts
  BY DEF ph_thread
<1>4. PHTypeOK'
  BY <1>1, <1>2, <1>3 DEF PHTypeOK
<1>6. AlertsOK'
  BY <1>2, <1>3 DEF AlertsOK, PHTypeOK
<1>7. StoresHoldTheWindow'
  <2>1. \A p \in SourcePids :
          crt_events'[p] = {c \in ph_threads'[p] : c.ts + HollowWindow >= now}
    BY <1>1, <1>2, <1>3 DEF PHTypeOK
  <2> QED BY <1>1, <1>3, <2>1 DEF StoresHoldTheWindow
<1>8. id \notin ph_alerts
  <2>1. \A x \in ph_alerts : x < id /\ x \in Nat
    BY DEF AlertsOK, PHFresh, PHTypeOK, Call
  <2> QED BY <2>1
<1>9. Fires <=> \E w \in ph_log[q] : /\ w.target = target /\ w.id < id
                                     /\ now <= w.ts + HollowWindow
  <2>1. \A w \in ph_log[q] : w.id < id /\ w.ts \in Nat
    BY DEF PHFresh, PHTypeOK, Call
  <2>2. \A w \in ph_log[q] : w.ts + HollowWindow >= now <=> now <= w.ts + HollowWindow
    BY <2>1, HollowAssumption DEF HollowAssumption
  <2> QED BY <1>1, <2>1, <2>2 DEF matching_wpm
<1>10. InjectionsAreFound'
  <2> SUFFICES ASSUME NEW p \in SourcePids, NEW c \in ph_threads'[p]
               PROVE  c.id \in ph_alerts'
                        <=> \E w \in ph_log[p] : /\ w.target = c.target /\ w.id < c.id
                                                 /\ c.ts <= w.ts + HollowWindow
    BY <1>3 DEF InjectionsAreFound
  <2>1. CASE c \in ph_threads[p]
    <3>1. c.id # id
      BY <2>1 DEF PHFresh, PHTypeOK, Call
    <3> QED BY <1>3, <2>1, <3>1 DEF InjectionsAreFound
  <2>2. CASE c \notin ph_threads[p]
    <3>1. p = q /\ c = this
      BY <1>3, <2>2 DEF PHTypeOK
    <3>2. c.id \in ph_alerts' <=> Fires
      BY <1>2, <1>3, <1>8, <3>1
    <3> QED BY <1>2, <1>9, <3>1, <3>2
  <2> QED BY <2>1, <2>2
<1> QED BY <1>4, <1>6, <1>7, <1>10

LEMMA PHNextInv == ASSUME PHInv, [PHNext]_phVars PROVE PHInv'
<1>1. CASE \E now \in Nat : now >= ph_now /\ ph_other(now)
  BY <1>1, OtherInv
<1>2. CASE \E p \in SourcePids : \E target \in Targets : \E now, id \in Nat :
             /\ now >= ph_now /\ PHFresh(id)
             /\ ph_write(p, target, now, id) \/ ph_thread(p, target, now, id)
  BY <1>2, WriteInv, ThreadInv
<1>3. CASE ph_new
  BY <1>3 DEF ph_new, PHInv, PHTypeOK, AlertsOK, StoresHoldTheWindow,
              InjectionsAreFound
<1>4. CASE UNCHANGED phVars
  BY <1>4 DEF phVars, PHInv, PHTypeOK, AlertsOK, StoresHoldTheWindow,
              InjectionsAreFound
<1> QED BY <1>1, <1>2, <1>3, <1>4 DEF PHNext

(* An alert is raised for exactly the remote threads that follow a write   *)
(* of the same attacker into the same target within the window.            *)
THEOREM InjectionsAreFoundHolds == PHSpec => []InjectionsAreFound
<1>1. PHInv => InjectionsAreFound
  BY DEF PHInv
<1> QED BY <1>1, PHInitInv, PHNextInv, PTL DEF PHSpec

(* The stores hold exactly the events of the window.                       *)
THEOREM StoresHoldTheWindowHolds == PHSpec => []StoresHoldTheWindow
<1>1. PHInv => StoresHoldTheWindow
  BY DEF PHInv
<1> QED BY <1>1, PHInitInv, PHNextInv, PTL DEF PHSpec
=============================================================================
