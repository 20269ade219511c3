--------------------------- MODULE C2BeaconProofs ---------------------------
(***************************************************************************)
(* Proofs about C2Beacon: for any processes, addresses, window and         *)
(* threshold, and any calls of process() at times that do not run          *)
(* backwards.                                                              *)
(***************************************************************************)
EXTENDS C2Beacon, FiniteSetTheorems, TLAPS

LogFinite == \A k \in Pairs : IsFiniteSet(c2_log[k])

(* A list holds nothing the detector was not given, and all of it that is  *)
(* still in the window.                                                    *)
ListsHoldTheWindow ==
    \A k \in Pairs : /\ connections[k] \subseteq c2_log[k]
                     /\ InWindow(k, c2_now) \subseteq connections[k]

C2Inv ==
    /\ C2TypeOK /\ LogFinite /\ ListsHoldTheWindow
    /\ AlertedIsExact /\ AlertsOnCrossing

Count(S) == Cardinality(S)

LEMMA CountFacts ==
    ASSUME NEW S, IsFiniteSet(S)
    PROVE  /\ Count(S) \in Nat
           /\ \A T \in SUBSET S : IsFiniteSet(T) /\ Count(T) \in Nat /\ Count(T) <= Count(S)
           /\ \A x : /\ IsFiniteSet(S \union {x})
                     /\ x \notin S => Count(S \union {x}) = Count(S) + 1
BY FS_CardinalityType, FS_Subset, FS_AddElement DEF Count

LEMMA C2InitInv == C2Init => C2Inv
<1> SUFFICES ASSUME C2Init PROVE C2Inv
  OBVIOUS
<1>1. Cardinality({}) = 0 /\ IsFiniteSet({})
  BY FS_EmptySet
<1>2. \A k \in Pairs : c2_log[k] = {} /\ InWindow(k, c2_now) = {}
  BY DEF C2Init, InWindow
<1>3. AlertedIsExact
  BY <1>1, <1>2, C2Assumption DEF C2Init, AlertedIsExact, C2Assumption
<1> QED BY <1>1, <1>2, <1>3 DEF C2Init, C2Inv, C2TypeOK, LogFinite,
                                ListsHoldTheWindow, AlertsOnCrossing

(* What is active of a list at a later call is what is in the window.      *)
LEMMA ActiveIsWindow ==
    ASSUME C2TypeOK, ListsHoldTheWindow, NEW now \in Nat, now >= c2_now,
           NEW k \in Pairs
    PROVE  /\ Active(connections[k], now) = InWindow(k, now)
           /\ InWindow(k, now) \subseteq InWindow(k, c2_now)
<1>1. /\ \A c \in c2_log[k] : c.ts \in Nat
      /\ c2_now \in Nat /\ Window \in Nat
  BY C2Assumption DEF C2TypeOK, Connection, C2Assumption
<1>2. /\ connections[k] \subseteq c2_log[k]
      /\ {c \in c2_log[k] : c.ts + Window >= c2_now} \subseteq connections[k]
  BY DEF ListsHoldTheWindow, InWindow
<1>3. \A c \in c2_log[k] :
        /\ c.ts + Window >= now <=> now <= c.ts + Window
        /\ c.ts + Window >= now => c.ts + Window >= c2_now
  BY <1>1
<1> QED BY <1>2, <1>3 DEF Active, InWindow

(* _prune_alerted leaves exactly the pairs that are still beaconing.       *)
LEMMA PruneIsExact ==
    ASSUME C2Inv, NEW now \in Nat, now >= c2_now
    PROVE  prune_alerted(now)
             = {k \in Pairs : Cardinality(InWindow(k, now)) >= Threshold}
<1>1. alerted = {k \in Pairs : Cardinality(InWindow(k, c2_now)) >= Threshold}
  BY DEF C2Inv, AlertedIsExact
<1>2. ASSUME NEW k \in Pairs
      PROVE  /\ Cardinality(Active(connections[k], now)) = Cardinality(InWindow(k, now))
             /\ Cardinality(InWindow(k, now)) >= Threshold
                  => Cardinality(InWindow(k, c2_now)) >= Threshold
  <2>1. /\ Active(connections[k], now) = InWindow(k, now)
        /\ InWindow(k, now) \subseteq InWindow(k, c2_now)
    BY ActiveIsWindow DEF C2Inv
  <2>2. IsFiniteSet(InWindow(k, c2_now))
    <3>1. InWindow(k, c2_now) \in SUBSET c2_log[k]
      BY DEF InWindow
    <3> QED BY <3>1, CountFacts DEF C2Inv, LogFinite
  <2>3. /\ Count(InWindow(k, now)) \in Nat /\ Count(InWindow(k, c2_now)) \in Nat
        /\ Count(InWindow(k, now)) <= Count(InWindow(k, c2_now))
    BY <2>1, <2>2, CountFacts
  <2> QED BY <2>1, <2>3, C2Assumption DEF Count, C2Assumption
<1> QED BY <1>1, <1>2 DEF prune_alerted

(* process() of a connection without a parsed address.                     *)
LEMMA UnparsedInv ==
    ASSUME C2Inv, NEW now \in Nat, now >= c2_now, c2_unparsed(now)
    PROVE  C2Inv'
<1>1. /\ alerted' = {k \in Pairs : Cardinality(InWindow(k, now)) >= Threshold}
      /\ c2_now' = now /\ UNCHANGED <<connections, c2_log, c2_alerts>>
  BY PruneIsExact DEF c2_unparsed
<1>2. \A k \in Pairs : \A time : InWindow(k, time)' = InWindow(k, time')
  BY <1>1 DEF InWindow
<1>3. C2TypeOK' /\ LogFinite'
  BY <1>1 DEF C2Inv, C2TypeOK, LogFinite
<1>4. ListsHoldTheWindow'
  BY <1>1, ActiveIsWindow DEF C2Inv, ListsHoldTheWindow, InWindow
<1>5. AlertedIsExact'
  BY <1>1 DEF AlertedIsExact, InWindow
<1>6. AlertsOnCrossing'
  BY <1>1 DEF C2Inv, AlertsOnCrossing, InWindow
<1> QED BY <1>3, <1>4, <1>5, <1>6 DEF C2Inv

(* process() of a connection: its pair's list becomes its window.          *)
LEMMA ConnectInv ==
    ASSUME C2Inv, NEW k \in Pairs, NEW now \in Nat, NEW id \in Nat,
           now >= c2_now, Fresh(id), c2_process(k, now, id)
    PROVE  C2Inv'
<1> DEFINE this == [ts |-> now, id |-> id]
           kept == {j \in Pairs : Cardinality(InWindow(j, now)) >= Threshold}
           conn_list == InWindow(k, now) \union {this}
           Fires == Cardinality(conn_list) >= Threshold /\ k \notin kept
<1>1. /\ connections' = [connections EXCEPT ![k] = conn_list]
      /\ alerted' = IF Fires THEN kept \union {k} ELSE kept
      /\ c2_now' = now
      /\ c2_log' = [c2_log EXCEPT ![k] = @ \union {this}]
      /\ c2_alerts' = IF Fires THEN [c2_alerts EXCEPT ![k] = @ \union {this}]
                       ELSE c2_alerts
  <2>1. prune_alerted(now) = kept /\ Active(connections[k], now) = InWindow(k, now)
    BY PruneIsExact, ActiveIsWindow DEF C2Inv
  <2> QED BY <2>1 DEF c2_process
<1>2. /\ this \in Connection /\ this.ts = now /\ this.id = id
      /\ this.ts + Window >= now
  BY C2Assumption DEF Connection, C2Assumption
<1>3. \A j \in Pairs : \A c \in c2_log[j] :
        c.id \in Nat /\ c.ts \in Nat /\ c.id < id /\ c # this
  BY <1>2 DEF C2Inv, C2TypeOK, Connection, Fresh
<1> HIDE DEF this
<1>4. /\ c2_log'[k] = c2_log[k] \union {this}
      /\ \A j \in Pairs \ {k} : c2_log'[j] = c2_log[j]
  BY <1>1 DEF C2Inv, C2TypeOK
<1>5. /\ InWindow(k, now)' = conn_list
      /\ \A j \in Pairs \ {k} : InWindow(j, now)' = InWindow(j, now)
  BY <1>2, <1>4 DEF InWindow
<1>6. /\ InWindow(k, now) \subseteq c2_log[k]
      /\ this \notin InWindow(k, now)
      /\ IsFiniteSet(c2_log[k]) /\ IsFiniteSet(InWindow(k, now))
  BY <1>3, CountFacts DEF InWindow, C2Inv, LogFinite
<1>7. /\ Cardinality(InWindow(k, now)) \in Nat
      /\ Cardinality(conn_list) = Cardinality(InWindow(k, now)) + 1
  BY <1>6, CountFacts DEF Count
<1>8. C2TypeOK' /\ LogFinite'
  <2>1. \A j \in Pairs : c2_log'[j] \in SUBSET Connection /\ IsFiniteSet(c2_log'[j])
    BY <1>2, <1>4, <1>6, CountFacts DEF C2Inv, C2TypeOK, LogFinite
  <2>2. conn_list \in SUBSET Connection
    BY <1>2, <1>6 DEF C2Inv, C2TypeOK
  <2>3. kept \in SUBSET Pairs /\ alerted' \in SUBSET Pairs
    BY <1>1
  <2> QED BY <1>1, <1>2, <2>1, <2>2, <2>3 DEF C2Inv, C2TypeOK, LogFinite
<1>9. ListsHoldTheWindow'
  <2> SUFFICES ASSUME NEW j \in Pairs
               PROVE  /\ connections'[j] \subseteq c2_log'[j]
                      /\ InWindow(j, now)' \subseteq connections'[j]
    BY <1>1 DEF ListsHoldTheWindow, InWindow
  <2>1. CASE j = k
    BY <1>1, <1>4, <1>5, <1>6, <2>1 DEF C2Inv, C2TypeOK
  <2>2. CASE j # k
    <3>1. connections'[j] = connections[j]
      BY <1>1, <2>2 DEF C2Inv, C2TypeOK
    <3>2. /\ connections[j] \subseteq c2_log[j]
          /\ InWindow(j, now) \subseteq connections[j]
      BY ActiveIsWindow DEF C2Inv, ListsHoldTheWindow
    <3> QED BY <1>4, <1>5, <2>2, <3>1, <3>2
  <2> QED BY <2>1, <2>2
<1>10. AlertedIsExact'
  <2> SUFFICES ASSUME NEW j \in Pairs
               PROVE  j \in alerted' <=> Cardinality(InWindow(j, now)') >= Threshold
    BY <1>1, <1>8 DEF AlertedIsExact, InWindow, C2TypeOK
  <2>1. CASE j = k
    BY <1>1, <1>5, <1>7, <2>1, C2Assumption DEF C2Assumption
  <2>2. CASE j # k
    BY <1>1, <1>5, <2>2
  <2> QED BY <2>1, <2>2
<1>11. AlertsOnCrossing'
  <2> DEFINE Up(j, c) == {d \in InWindow(j, c.ts) : d.id <= c.id}
             Later(j, c) == {d \in c2_log'[j] : d.ts + Window >= c.ts /\ d.id <= c.id}
  <2>1. ASSUME NEW j \in Pairs, NEW c \in c2_log[j]
        PROVE  Later(j, c) = Up(j, c)
    <3>1. ~ (this.id <= c.id)
      BY <1>2, <1>3
    <3> QED BY <1>4, <3>1 DEF InWindow
  <2>2. Later(k, this) = conn_list
    <3>1. \A d \in c2_log[k] : d.id <= this.id
      BY <1>2, <1>3
    <3> QED BY <1>2, <1>4, <3>1 DEF InWindow
  <2>3. Fires <=> Cardinality(conn_list) = Threshold
    BY <1>7, C2Assumption DEF C2Assumption
  <2> SUFFICES ASSUME NEW j \in Pairs
               PROVE  c2_alerts'[j]
                        = {c \in c2_log'[j] : Cardinality(Later(j, c)) = Threshold}
    <3>1. \A j \in Pairs : \A c : {d \in InWindow(j, c.ts)' : d.id <= c.id} = Later(j, c)
      BY DEF InWindow
    <3> QED BY <3>1 DEF AlertsOnCrossing, InWindow
  <2>4. c2_alerts[j] = {c \in c2_log[j] : Cardinality(Up(j, c)) = Threshold}
    BY DEF C2Inv, AlertsOnCrossing
  <2> HIDE DEF Up, Later, Fires
  <2>5. CASE j = k
    <3>1. c2_alerts'[k] = IF Fires THEN c2_alerts[k] \union {this} ELSE c2_alerts[k]
      BY <1>1 DEF C2Inv, C2TypeOK
    <3> HIDE DEF conn_list
    <3> QED BY <1>4, <2>1, <2>2, <2>3, <2>4, <2>5, <3>1
  <2>6. CASE j # k
    <3>1. c2_alerts'[j] = c2_alerts[j]
      BY <1>1, <2>6 DEF C2Inv, C2TypeOK
    <3> QED BY <1>4, <2>1, <2>4, <2>6, <3>1
  <2> QED BY <2>5, <2>6
<1> QED BY <1>8, <1>9, <1>10, <1>11 DEF C2Inv

LEMMA C2NextInv == ASSUME C2Inv, [C2Next]_c2Vars PROVE C2Inv'
<1>1. CASE \E k \in Pairs : \E now, id \in Nat :
             now >= c2_now /\ Fresh(id) /\ c2_process(k, now, id)
  BY <1>1, ConnectInv
<1>2. CASE \E now \in Nat : now >= c2_now /\ c2_unparsed(now)
  BY <1>2, UnparsedInv
<1>3. CASE c2_new
  <2>1. Cardinality({}) = 0 /\ IsFiniteSet({})
    BY FS_EmptySet
  <2>2. \A k \in Pairs : c2_log'[k] = {} /\ connections'[k] = {} /\ c2_alerts'[k] = {}
    BY <1>3 DEF c2_new
  <2>3. \A k \in Pairs : {c \in c2_log'[k] : c.ts + Window >= c2_now'} = {}
    BY <2>2
  <2>4. AlertedIsExact'
    BY <1>3, <2>1, <2>3, C2Assumption DEF c2_new, AlertedIsExact, InWindow, C2Assumption
  <2> QED BY <1>3, <2>1, <2>2, <2>3, <2>4
          DEF c2_new, C2Inv, C2TypeOK, LogFinite, ListsHoldTheWindow, InWindow,
              AlertsOnCrossing
<1>4. CASE UNCHANGED c2Vars
  BY <1>4 DEF c2Vars, C2Inv, C2TypeOK, LogFinite, ListsHoldTheWindow, InWindow,
              AlertedIsExact, AlertsOnCrossing
<1> QED BY <1>1, <1>2, <1>3, <1>4 DEF C2Next

(* The set of alerted pairs is exactly the set of pairs that are beaconing *)
(* as of the last call.                                                    *)
THEOREM AlertedIsExactHolds == C2Spec => []AlertedIsExact
<1>1. C2Inv => AlertedIsExact
  BY DEF C2Inv
<1> QED BY <1>1, C2InitInv, C2NextInv, PTL DEF C2Spec

(* Alerts are raised by exactly the connections that bring the count of    *)
(* their window to the threshold.                                          *)
THEOREM AlertsOnCrossingHolds == C2Spec => []AlertsOnCrossing
<1>1. C2Inv => AlertsOnCrossing
  BY DEF C2Inv
<1> QED BY <1>1, C2InitInv, C2NextInv, PTL DEF C2Spec
(* Two alerts of a pair are told apart by what has expired between them:   *)
(* otherwise the window of the later one held one connection too many.     *)
LEMMA CrossingsAreApart ==
    ASSUME C2Inv, NEW k \in Pairs, NEW a \in c2_alerts[k], NEW b \in c2_alerts[k],
           a.id < b.id
    PROVE  /\ \E c \in InWindow(k, a.ts) : c.id <= a.id /\ c.ts + Window < b.ts
           /\ Threshold = 1 => b.ts > a.ts + Window
<1> DEFINE Up(c) == {d \in InWindow(k, c.ts) : d.id <= c.id}
<1>1. /\ a \in c2_log[k] /\ b \in c2_log[k]
      /\ Cardinality(Up(a)) = Threshold /\ Cardinality(Up(b)) = Threshold
  BY DEF C2Inv, AlertsOnCrossing
<1>2. /\ \A c \in c2_log[k] : c.ts \in Nat /\ c.id \in Nat
      /\ Window \in Nat /\ Threshold \in Nat /\ IsFiniteSet(c2_log[k])
  BY C2Assumption DEF C2Inv, C2TypeOK, LogFinite, Connection, C2Assumption
<1>3. /\ Up(a) \in SUBSET c2_log[k] /\ Up(b) \in SUBSET c2_log[k]
      /\ a \in Up(a) /\ b \in Up(b) /\ b \notin Up(a)
  BY <1>1, <1>2 DEF InWindow
<1>4. IsFiniteSet(Up(a)) /\ IsFiniteSet(Up(b))
  BY <1>2, <1>3, CountFacts
<1>5. \E c \in Up(a) : c.ts + Window < b.ts
  <2> SUFFICES ASSUME \A c \in Up(a) : ~(c.ts + Window < b.ts) PROVE FALSE
    OBVIOUS
  <2>1. \A c \in Up(a) : c \in c2_log[k] /\ c.id <= a.id /\ c.ts + Window >= b.ts
    BY <1>2, <1>3
  <2>2. \A c \in Up(a) : c.id <= b.id
    BY <1>1, <1>2, <2>1
  <2>3. Up(a) \union {b} \in SUBSET Up(b)
    BY <1>3, <2>1, <2>2 DEF InWindow
  <2> HIDE DEF Up
  <2>4. Count(Up(a) \union {b}) <= Count(Up(b))
    BY <1>4, <2>3, CountFacts
  <2>5. Count(Up(a) \union {b}) = Count(Up(a)) + 1
    BY <1>3, <1>4, CountFacts
  <2> QED BY <1>1, <1>2, <2>4, <2>5 DEF Count
<1>6. ASSUME Threshold = 1 PROVE b.ts > a.ts + Window
  <2>1. \A c \in Up(a) : c = a
    <3> HIDE DEF Up
    <3> SUFFICES ASSUME NEW c \in Up(a), c # a PROVE FALSE
      OBVIOUS
    <3>1. {a} \in SUBSET Up(a) /\ {a} \union {c} \in SUBSET Up(a) /\ c \notin {a}
      BY <1>3
    <3>2. IsFiniteSet({a}) /\ Count({a}) = 1
      BY FS_Singleton DEF Count
    <3>3. Count({a} \union {c}) = 2
      BY <3>1, <3>2, CountFacts
    <3>4. Count({a} \union {c}) <= Count(Up(a))
      BY <1>4, <3>1, CountFacts
    <3> QED BY <1>1, <1>6, <3>3, <3>4 DEF Count
  <2> QED BY <1>1, <1>2, <1>5, <2>1
<1> QED BY <1>5, <1>6

(* Between two alerts of a pair a connection that the earlier one counted  *)
(* has left the window.                                                    *)
THEOREM AlertsAreApartHolds == C2Spec => []AlertsAreApart
<1>1. C2Inv => AlertsAreApart
  BY CrossingsAreApart DEF AlertsAreApart
<1> QED BY <1>1, C2InitInv, C2NextInv, PTL DEF C2Spec

(* A pair is alerted once per window, as the docstring has it, where one   *)
(* connection makes a beacon; beacon_flood shows that it is not where two  *)
(* do (c2_beacon_detector.py:51).                                          *)
THEOREM OncePerWindowHolds ==
    ASSUME Threshold = 1 PROVE C2Spec => []OncePerWindow
<1>1. C2Inv => OncePerWindow
  BY CrossingsAreApart DEF OncePerWindow
<1> QED BY <1>1, C2InitInv, C2NextInv, PTL DEF C2Spec
=============================================================================
