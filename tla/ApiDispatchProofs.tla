------------------------- MODULE ApiDispatchProofs -------------------------
(***************************************************************************)
(* Proofs about ApiDispatch: for any processes, handle values, keys and    *)
(* known paths, any size of the queue and any window.  The composition     *)
(* drives the hollowing detector only as ProcessHollowing describes it, so *)
(* what is proved there holds here.                                        *)
(***************************************************************************)
EXTENDS ApiDispatch, ProcessHollowingProofs, SequenceTheorems

CallType ==
    [pid : SourcePids, api : HandleApis, handle : HandleValues,
     value : ValueNames \union {None}, object : Objects \union {None},
     shown : Objects \union {None}]

(* What the detectors are told of a call, by the history of the calls.     *)
KeyOf(call) == IF call.shown \in Pids THEN call.shown ELSE call.handle
PathOf(call) == IF call.shown \in Keys THEN call.shown ELSE call.handle

(* The queue holds calls in the order they were made, as they were shown,  *)
(* and none that the detectors have been given.                            *)
QueueOK ==
    /\ \A i \in 1 .. Len(event_queue) :
         /\ event_queue[i].target_key = KeyOf(calls[event_queue[i].id])
         /\ event_queue[i].key_path = PathOf(calls[event_queue[i].id])
    /\ \A i, j \in 1 .. Len(event_queue) :
         i < j => event_queue[i].id < event_queue[j].id
    /\ \A i \in 1 .. Len(event_queue) : \A n \in taken : n < event_queue[i].id

(* The hollowing detector's logs hold calls by the keys they were shown    *)
(* under, and its clock is not ahead.                                      *)
LogOK ==
    /\ \A p \in SourcePids : \A c \in ph_log[p] \union ph_threads[p] :
         c.id \in taken /\ c.target = KeyOf(calls[c.id])
    /\ ph_now <= now

(* A value has a name.                                                     *)
NamesOK ==
    \A i \in 1 .. Len(calls) :
        calls[i].api = "RegSetValueEx" => calls[i].value \in ValueNames

(* Every written value is graded by the path the detector was told.        *)
AsTold(call) == Occurring(PathOf(call), call.value)

AlertsGraded ==
    /\ \A a \in rp_alerts : a.id \in taken
    /\ \A id \in taken :
         calls[id].api = "RegSetValueEx" =>
           Graded(AsTold(calls[id]), {a \in rp_alerts : a.id = id})

IInv == TypeOK /\ QueueOK /\ LogOK /\ NamesOK /\ AlertsGraded

LEMMA ElementOf ==
    ASSUME NEW S, NEW s \in Seq(S), NEW i \in 1 .. Len(s) PROVE s[i] \in S
  OBVIOUS

LEMMA SeqMono ==
    ASSUME NEW S, NEW T, S \subseteq T, NEW s \in Seq(S) PROVE s \in Seq(T)
  <1>1. \A i \in 1 .. Len(s) : s[i] \in T
    OBVIOUS
  <1> QED BY <1>1

LEMMA Told ==
    ASSUME TypeOK, NEW api, NEW p \in SourcePids, NEW h \in HandleValues
    PROVE  LET call == [shown |-> Denotes(Debugger, h), handle |-> h] IN
           /\ Denotes(p, h) \in Objects \union {None}
           /\ Denotes(Debugger, h) \in Objects \union {None}
           /\ target_key(details(api, h)) = KeyOf(call)
           /\ registry_details(h).key_path = PathOf(call)
           /\ KeyOf(call) \in Targets /\ PathOf(call) \in KeyPaths
  <1>1. \A q \in Owners : q \in Objects
    BY DEF Owners, Objects, Pids
  <1>2. \A q \in Owners : Denotes(q, h) \in Objects \union {None}
    BY <1>1 DEF Denotes, TypeOK
  <1>3. p \in Owners /\ Debugger \in Owners
    BY DEF Owners
  <1>4. None \notin Pids
    BY DispatchAssumption DEF DispatchAssumption, Objects
  <1> QED BY <1>2, <1>3, <1>4, DispatchAssumption
          DEF DispatchAssumption, KeyOf, PathOf, details, registry_details, target_key,
              get_pid_from_handle, resolve_registry_key_path, Objects

LEMMA InitInv == Init => IInv
  <1> SUFFICES ASSUME Init PROVE IInv
    OBVIOUS
  <1>1. PHTypeOK
    BY PHInitInv DEF Init, PHInv
  <1>2. TypeOK
    BY <1>1, DispatchAssumption DEF Init, TypeOK, DispatchAssumption
  <1>3. QueueOK /\ LogOK /\ NamesOK /\ AlertsGraded
    BY DEF Init, PHInit, QueueOK, LogOK, NamesOK, AlertsGraded
  <1> QED BY <1>2, <1>3 DEF IInv

(* Steps that report nothing through a handle.                             *)
LEMMA QuietInv ==
    ASSUME IInv,
           \/ Tick
           \/ \E owner \in Owners : \E h \in Handles : Reopen(owner, h)
           \/ \E api \in Apis : Refused(api) \/ handle_api_hook(api)
    PROVE  IInv' /\ UNCHANGED phVars
  <1>1. UNCHANGED <<phVars, event_queue, calls, taken, rp_alerts>>
    BY DEF Tick, Reopen, Refused, handle_api_hook
  <1>2. now' \in Nat /\ now <= now'
    <2>1. now \in Nat
      BY DEF IInv, TypeOK
    <2>2. now' = now + 1 \/ now' = now
      BY DEF Tick, Reopen, Refused, handle_api_hook
    <2> QED BY <2>1, <2>2
  <1>3. table' \in [Owners -> [Handles -> Objects \union {None}]]
    <2>1. CASE \E owner \in Owners : \E h \in Handles : Reopen(owner, h)
      <3>1. PICK owner \in Owners, h \in Handles : Reopen(owner, h)
        BY <2>1
      <3>2. PICK object \in Opened[owner] \union {None} :
              table' = [table EXCEPT ![owner][h] = object]
        BY <3>1 DEF Reopen
      <3>3. object \in Objects \union {None}
        BY <3>2, DispatchAssumption DEF DispatchAssumption
      <3> QED BY <3>2, <3>3 DEF IInv, TypeOK
    <2>2. CASE UNCHANGED table
      BY <2>2 DEF IInv, TypeOK
    <2> QED BY <2>1, <2>2 DEF Tick, Refused, handle_api_hook
  <1>4. TypeOK'
    BY <1>1, <1>2, <1>3 DEF IInv, TypeOK, PHTypeOK, phVars
  <1>5. QueueOK' /\ NamesOK'
    BY <1>1 DEF IInv, QueueOK, NamesOK
  <1>6. LogOK'
    BY <1>1, <1>2 DEF IInv, LogOK, TypeOK, PHTypeOK, phVars
  <1>7. AlertsGraded'
    BY <1>1 DEF IInv, AlertsGraded
  <1> QED BY <1>1, <1>4, <1>5, <1>6, <1>7 DEF IInv

(* A call through a handle: what is known of the earlier ones stands.      *)
LEMMA CallInv ==
    ASSUME IInv, NEW p \in SourcePids, NEW api \in HandleApis,
           NEW h \in HandleValues, NEW v \in ValueNames \union {None},
           api = "RegSetValueEx" => v \in ValueNames,
           handle_call(p, api, h, v)
    PROVE  IInv' /\ UNCHANGED phVars
  <1> DEFINE this == [pid |-> p, api |-> api, handle |-> h, value |-> v,
                      object |-> Denotes(p, h), shown |-> Denotes(Debugger, h)]
             n == Len(calls) + 1
             e == [id |-> n, target_key |-> target_key(details(api, h)),
                   key_path |-> registry_details(h).key_path]
  <1>1. /\ calls' = Append(calls, this) /\ put_event(e)
        /\ UNCHANGED <<phVars, table, now, taken, rp_alerts>>
    BY DEF handle_call
  <1>2. /\ this \in CallType
        /\ e.target_key = KeyOf(this) /\ e.key_path = PathOf(this)
        /\ e.target_key \in Targets /\ e.key_path \in KeyPaths
    BY Told DEF IInv, CallType, KeyOf, PathOf
  <1>3. /\ calls \in Seq(CallType) /\ calls' \in Seq(CallType)
        /\ Len(calls') = n /\ n \in Nat /\ calls'[n] = this
        /\ \A i \in 1 .. Len(calls) : calls'[i] = calls[i]
        /\ 1 .. Len(calls) \subseteq 1 .. n
    <2>1. calls \in Seq(CallType)
      BY DEF IInv, TypeOK, CallType
    <2> QED BY <1>1, <1>2, <2>1
  <1>12. NamesOK'
    <2>1. this.api = "RegSetValueEx" => this.value \in ValueNames
      OBVIOUS
    <2>2. 1 .. n = 1 .. Len(calls) \union {n}
      BY <1>3
    <2> HIDE DEF this, n
    <2> QED BY <1>3, <2>1, <2>2 DEF IInv, NamesOK
  <1> HIDE DEF this
  <1>4. /\ event_queue \in Seq(Queued(n))
        /\ \A i \in 1 .. Len(event_queue) : event_queue[i].id \in 1 .. Len(calls)
    <2>1. event_queue \in Seq(Queued(Len(calls)))
      BY DEF IInv, TypeOK
    <2>2. \A i \in 1 .. Len(event_queue) : event_queue[i] \in Queued(Len(calls))
      BY <2>1, ElementOf
    <2>3. Queued(Len(calls)) \subseteq Queued(n)
      BY <1>3 DEF Queued
    <2>4. \A i \in 1 .. Len(event_queue) : event_queue[i].id \in 1 .. Len(calls)
      BY <2>2 DEF Queued
    <2> QED BY <2>1, <2>3, <2>4, SeqMono
  <1>5. taken \in SUBSET (1 .. Len(calls))
    BY DEF IInv, TypeOK
  <1>6. e \in Queued(n) /\ e.id = n
    BY <1>2, <1>3 DEF Queued
  <1> HIDE DEF e, n
  <1>7. /\ event_queue' \in Seq(Queued(n))
        /\ Len(event_queue') <= QueueSize
        /\ \A i \in 1 .. Len(event_queue') :
             \/ i \in 1 .. Len(event_queue) /\ event_queue'[i] = event_queue[i]
             \/ /\ i = Len(event_queue) + 1 /\ i = Len(event_queue')
                /\ event_queue'[i] = e
    <2>1. CASE Len(event_queue) < QueueSize
      <3>1. event_queue' = Append(event_queue, e)
        BY <1>1, <2>1 DEF put_event
      <3> QED BY <1>4, <1>6, <2>1, <3>1, DispatchAssumption DEF DispatchAssumption
    <2>2. CASE ~ (Len(event_queue) < QueueSize)
      <3>1. event_queue' = event_queue
        BY <1>1, <2>2 DEF put_event
      <3> QED BY <1>4, <3>1 DEF IInv, TypeOK
    <2> QED BY <2>1, <2>2
  <1>8. TypeOK'
    <2>1. rp_alerts' \in SUBSET [id : 1 .. Len(calls'), matched_path : Paths,
                                 severity : {"HIGH", "CRITICAL", "SUSPICIOUS"}]
      BY <1>1, <1>3 DEF IInv, TypeOK
    <2>2. taken' \in SUBSET (1 .. Len(calls'))
      BY <1>1, <1>3, <1>5
    <2> QED BY <1>1, <1>3, <1>7, <2>1, <2>2
            DEF IInv, TypeOK, PHTypeOK, phVars, CallType
  <1>9. QueueOK'
    <2>1. \A i \in 1 .. Len(event_queue') :
            /\ event_queue'[i].target_key = KeyOf(calls'[event_queue'[i].id])
            /\ event_queue'[i].key_path = PathOf(calls'[event_queue'[i].id])
      <3> SUFFICES ASSUME NEW i \in 1 .. Len(event_queue')
                   PROVE  /\ event_queue'[i].target_key = KeyOf(calls'[event_queue'[i].id])
                          /\ event_queue'[i].key_path = PathOf(calls'[event_queue'[i].id])
        OBVIOUS
      <3>1. CASE i \in 1 .. Len(event_queue) /\ event_queue'[i] = event_queue[i]
        BY <1>3, <1>4, <3>1 DEF IInv, QueueOK
      <3>2. CASE event_queue'[i] = e
        BY <1>2, <1>3, <1>6, <3>2
      <3> QED BY <1>7, <3>1, <3>2
    <2>2. \A i, j \in 1 .. Len(event_queue') :
            i < j => event_queue'[i].id < event_queue'[j].id
      BY <1>3, <1>4, <1>6, <1>7 DEF IInv, QueueOK, n
    <2>3. \A i \in 1 .. Len(event_queue') : \A k \in taken' : k < event_queue'[i].id
      BY <1>1, <1>3, <1>5, <1>6, <1>7 DEF IInv, QueueOK, n
    <2> QED BY <2>1, <2>2, <2>3 DEF QueueOK
  <1>10. LogOK'
    BY <1>1, <1>3, <1>5 DEF IInv, LogOK, phVars
  <1>11. AlertsGraded'
    BY <1>1, <1>3, <1>5 DEF IInv, AlertsGraded
  <1> QED BY <1>1, <1>8, <1>9, <1>10, <1>11, <1>12 DEF IInv

(* The head of the queue is a call the detectors have not been given.      *)
LEMMA HeadFacts ==
    ASSUME IInv, event_queue # <<>>
    PROVE  LET e == Head(event_queue) IN
           /\ e.id \in 1 .. Len(calls) /\ e.id \notin taken
           /\ \A n \in taken : n < e.id
           /\ e.target_key = KeyOf(calls[e.id]) /\ e.target_key \in Targets
           /\ e.key_path = PathOf(calls[e.id])
           /\ calls[e.id] \in CallType
           /\ \A i \in 1 .. Len(Tail(event_queue)) :
                /\ i + 1 \in 1 .. Len(event_queue)
                /\ Tail(event_queue)[i] = event_queue[i + 1]
                /\ e.id < event_queue[i + 1].id
           /\ Tail(event_queue) \in Seq(Queued(Len(calls)))
           /\ Len(Tail(event_queue)) <= QueueSize
  <1>1. /\ event_queue \in Seq(Queued(Len(calls)))
        /\ calls \in Seq(CallType) /\ taken \in SUBSET (1 .. Len(calls))
        /\ Len(event_queue) <= QueueSize /\ QueueSize \in Nat
    BY DispatchAssumption DEF IInv, TypeOK, CallType, DispatchAssumption
  <1>2. /\ Head(event_queue) = event_queue[1] /\ 1 \in 1 .. Len(event_queue)
        /\ event_queue[1] \in Queued(Len(calls))
        /\ Len(Tail(event_queue)) = Len(event_queue) - 1
    BY <1>1
  <1>3. ASSUME NEW i \in 1 .. Len(Tail(event_queue))
        PROVE  /\ i + 1 \in 1 .. Len(event_queue)
               /\ Tail(event_queue)[i] = event_queue[i + 1]
               /\ event_queue[1].id < event_queue[i + 1].id
    <2>1. i + 1 \in 1 .. Len(event_queue) /\ 1 < i + 1
      BY <1>1, <1>2
    <2>2. Tail(event_queue)[i] = event_queue[i + 1]
      BY <1>1, <1>2
    <2> QED BY <1>2, <2>1, <2>2 DEF IInv, QueueOK
  <1>4. /\ event_queue[1].id \in 1 .. Len(calls)
        /\ event_queue[1].target_key \in Targets
    BY <1>2 DEF Queued
  <1>5. /\ \A n \in taken : n < event_queue[1].id
        /\ event_queue[1].target_key = KeyOf(calls[event_queue[1].id])
        /\ event_queue[1].key_path = PathOf(calls[event_queue[1].id])
    BY <1>2 DEF IInv, QueueOK
  <1>6. event_queue[1].id \notin taken
    BY <1>4, <1>5
  <1>7. calls[event_queue[1].id] \in CallType
    BY <1>1, <1>4, ElementOf
  <1>8. /\ Tail(event_queue) \in Seq(Queued(Len(calls)))
        /\ Len(Tail(event_queue)) <= QueueSize
    BY <1>1, <1>2
  <1> QED BY <1>2, <1>3, <1>4, <1>5, <1>6, <1>7, <1>8

(* A call the hollowing detector is given is one that ProcessHollowing     *)
(* allows.                                                                 *)
LEMMA ProcessStep ==
    ASSUME IInv, process
    PROVE  [PHNext]_phVars
  <1> DEFINE e == Head(event_queue)
             call == calls[e.id]
  <1>1. /\ e.id \in Nat /\ PHFresh(e.id)
        /\ call.pid \in SourcePids /\ e.target_key \in Targets
        /\ now \in Nat /\ now >= ph_now
    BY HeadFacts DEF process, IInv, LogOK, TypeOK, PHTypeOK, PHFresh, CallType
  <1> HIDE DEF e, call
  <1>2. CASE ph_write(call.pid, e.target_key, now, e.id)
    BY <1>1, <1>2 DEF PHNext
  <1>3. CASE ph_thread(call.pid, e.target_key, now, e.id)
    BY <1>1, <1>3 DEF PHNext
  <1>4. CASE ph_other(now)
    BY <1>1, <1>4 DEF PHNext
  <1>5. CASE UNCHANGED phVars
    BY <1>5
  <1> QED BY <1>2, <1>3, <1>4, <1>5 DEF process, e, call

(* Known paths are what a text is searched for.                            *)
LEMMA Known ==
    ASSUME NEW call \in CallType, call.value \in ValueNames
    PROVE  AsTold(call) \subseteq Paths
  <1>1. PathOf(call) \in KeyPaths
    BY DispatchAssumption DEF CallType, PathOf, DispatchAssumption
  <1>2. /\ InKey[PathOf(call)] \subseteq Paths
        /\ InContext[<<PathOf(call), call.value>>] \subseteq Paths
    BY <1>1, PathsAssumption DEF PathsAssumption
  <1> QED BY <1>2 DEF AsTold, Occurring

(* An answer of the persistence detector is for a path of the gravest tier *)
(* found.                                                                  *)
LEMMA GradedByTier ==
    ASSUME NEW call \in CallType, call.value \in ValueNames, NEW id,
           NEW a \in rp_process(PathOf(call), call.value)
    PROVE  /\ Graded(AsTold(call), {[id |-> id, matched_path |-> a.matched_path,
                                     severity |-> a.severity]})
           /\ a.matched_path \in Paths
           /\ a.severity \in {"HIGH", "CRITICAL", "SUSPICIOUS"}
  <1> DEFINE found == AsTold(call)
             alert == [id |-> id, matched_path |-> a.matched_path,
                       severity |-> a.severity]
  <1>1. found \subseteq CriticalPaths \union HighPaths \union PersistenceKeys
    BY Known DEF Paths
  <1>2. /\ a.matched_path \in found
        /\ a.severity \in {"HIGH", "CRITICAL", "SUSPICIOUS"}
        /\ a.severity = "CRITICAL" => a.matched_path \in CriticalPaths
        /\ a.severity # "CRITICAL" => found \intersect CriticalPaths = {}
        /\ a.severity = "HIGH" => a.matched_path \in HighPaths
        /\ a.severity = "SUSPICIOUS" => found \intersect HighPaths = {}
    BY DEF rp_process, Alerts, AsTold
  <1> HIDE DEF found
  <1>3. a.matched_path \in found \intersect Tier[a.severity]
    <2>1. a.severity = "SUSPICIOUS" => a.matched_path \in PersistenceKeys
      BY <1>1, <1>2
    <2> QED BY <1>2, <2>1 DEF Tier
  <1>4. \A graver \in DOMAIN Tier :
          Rank[a.severity] < Rank[graver] => found \intersect Tier[graver] = {}
    BY <1>2 DEF Tier, Rank
  <1>5. Graded(found, {alert})
    BY <1>2, <1>3, <1>4 DEF Graded
  <1>6. a.matched_path \in Paths
    BY <1>1, <1>2 DEF Paths
  <1> QED BY <1>2, <1>5, <1>6 DEF found

LEMMA NothingFound ==
    ASSUME NEW call \in CallType, rp_process(PathOf(call), call.value) = {}
    PROVE  Graded(AsTold(call), {})
  <1>1. AsTold(call) = {}
    <2> SUFFICES ASSUME NEW x \in AsTold(call) PROVE FALSE
      OBVIOUS
    <2>1. \E s \in {"HIGH", "CRITICAL", "SUSPICIOUS"} : \E path \in AsTold(call) :
            [matched_path |-> path, severity |-> s]
              \in rp_process(PathOf(call), call.value)
      BY DEF rp_process, Alerts, AsTold
    <2> QED BY <2>1
  <1> QED BY <1>1 DEF Graded

(* The detectors take the head of the queue.                               *)
LEMMA ProcessInv == ASSUME IInv, process PROVE IInv'
  <1> DEFINE e == Head(event_queue)
             call == calls[e.id]
  <1>1. /\ e.id \in 1 .. Len(calls) /\ e.id \notin taken
        /\ \A n \in taken : n < e.id
        /\ e.target_key = KeyOf(call) /\ e.target_key \in Targets
        /\ e.key_path = PathOf(call) /\ call \in CallType
    BY HeadFacts DEF process
  <1>2. /\ event_queue' = Tail(event_queue) /\ taken' = taken \union {e.id}
        /\ UNCHANGED <<table, now, calls>>
    BY DEF process
  <1>3. /\ \/ ph_write(call.pid, e.target_key, now, e.id)
           \/ ph_thread(call.pid, e.target_key, now, e.id)
           \/ ph_other(now)
           \/ UNCHANGED phVars
        /\ LET alerts == rp_process(e.key_path, call.value) IN
           IF call.api = "RegSetValueEx" /\ alerts # {}
             THEN \E a \in alerts :
                    rp_alerts' = rp_alerts \union
                      {[id |-> e.id, matched_path |-> a.matched_path,
                        severity |-> a.severity]}
             ELSE UNCHANGED rp_alerts
    BY DEF process
  <1>4. /\ taken \in SUBSET (1 .. Len(calls)) /\ taken' \in SUBSET (1 .. Len(calls))
        /\ now \in Nat /\ ph_now \in Nat /\ ph_now <= now
    BY <1>1, <1>2 DEF IInv, TypeOK, PHTypeOK, LogOK
  <1>5. QueueOK' /\ event_queue' \in Seq(Queued(Len(calls')))
                 /\ Len(event_queue') <= QueueSize
    <2>1. /\ \A i \in 1 .. Len(event_queue') :
               /\ i + 1 \in 1 .. Len(event_queue) /\ i \in Nat
               /\ event_queue'[i] = event_queue[i + 1]
               /\ e.id < event_queue'[i].id
          /\ event_queue' \in Seq(Queued(Len(calls')))
          /\ Len(event_queue') <= QueueSize
      BY <1>2, HeadFacts DEF process
    <2>2. \A i \in 1 .. Len(event_queue') :
            /\ event_queue'[i].target_key = KeyOf(calls'[event_queue'[i].id])
            /\ event_queue'[i].key_path = PathOf(calls'[event_queue'[i].id])
            /\ \A n \in taken' : n < event_queue'[i].id
      BY <1>2, <2>1 DEF IInv, QueueOK
    <2>3. \A i, j \in 1 .. Len(event_queue') :
            i < j => event_queue'[i].id < event_queue'[j].id
      <3> SUFFICES ASSUME NEW i \in 1 .. Len(event_queue'),
                          NEW j \in 1 .. Len(event_queue'), i < j
                   PROVE  event_queue'[i].id < event_queue'[j].id
        OBVIOUS
      <3>1. i + 1 < j + 1
        OBVIOUS
      <3> QED BY <2>1, <3>1 DEF IInv, QueueOK
    <2> QED BY <2>1, <2>2, <2>3 DEF QueueOK
  <1> HIDE DEF e
  <1>6. PHTypeOK' /\ LogOK'
    <2>1. /\ \A p \in SourcePids : \A c \in ph_log[p] \union ph_threads[p] :
               c.id \in taken' /\ c.target = KeyOf(calls'[c.id])
      BY <1>2 DEF IInv, LogOK
    <2>2. PHTypeOK /\ call.pid \in SourcePids /\ e.id \in Nat /\ e.id \in taken'
          /\ calls'[e.id] = call
      BY <1>1, <1>2 DEF IInv, TypeOK, CallType
    <2> DEFINE this == [target |-> e.target_key, ts |-> now, id |-> e.id]
    <2>3. /\ this \in Call /\ this.id = e.id /\ this.id \in taken'
          /\ this.target = KeyOf(calls'[this.id])
      BY <1>1, <1>4, <2>2 DEF Call
    <2> HIDE DEF call
    <2>4. /\ prune(wpm_events, now) \in [SourcePids -> SUBSET Call]
          /\ prune(crt_events, now) \in [SourcePids -> SUBSET Call]
      BY <2>2 DEF prune, PHTypeOK
    <2>5. CASE ph_write(call.pid, e.target_key, now, e.id)
      <3>1. /\ ph_log' = [ph_log EXCEPT ![call.pid] = @ \union {this}]
            /\ ph_threads' = ph_threads /\ ph_alerts' = ph_alerts /\ ph_now' = now
            /\ wpm_events' = [prune(wpm_events, now) EXCEPT ![call.pid] = @ \union {this}]
            /\ crt_events' = prune(crt_events, now)
        BY <2>5 DEF ph_write
      <3> HIDE DEF this
      <3>2. PHTypeOK'
        BY <1>4, <2>2, <2>3, <2>4, <3>1 DEF PHTypeOK
      <3>3. \A p \in SourcePids : ph_log'[p] \subseteq ph_log[p] \union {this}
        BY <2>2, <3>1 DEF PHTypeOK
      <3> QED BY <1>2, <1>4, <2>1, <2>3, <3>1, <3>2, <3>3 DEF LogOK
    <2>6. CASE ph_thread(call.pid, e.target_key, now, e.id)
      <3>1. /\ ph_log' = ph_log /\ ph_now' = now
            /\ ph_threads' = [ph_threads EXCEPT ![call.pid] = @ \union {this}]
            /\ wpm_events' = prune(wpm_events, now)
            /\ crt_events' = [prune(crt_events, now) EXCEPT ![call.pid] = @ \union {this}]
            /\ ph_alerts' \in {ph_alerts, ph_alerts \union {e.id}}
        BY <2>6 DEF ph_thread
      <3> HIDE DEF this
      <3>2. PHTypeOK'
        BY <1>4, <2>2, <2>3, <2>4, <3>1 DEF PHTypeOK
      <3>3. \A p \in SourcePids : ph_threads'[p] \subseteq ph_threads[p] \union {this}
        BY <2>2, <3>1 DEF PHTypeOK
      <3> QED BY <1>2, <1>4, <2>1, <2>3, <3>1, <3>2, <3>3 DEF LogOK
    <2>7. CASE ph_other(now)
      BY <1>2, <1>4, <2>1, <2>2, <2>4, <2>7 DEF ph_other, PHTypeOK, LogOK
    <2>8. CASE UNCHANGED phVars
      BY <1>2, <1>4, <2>1, <2>2, <2>8 DEF phVars, PHTypeOK, LogOK
    <2> QED BY <1>3, <2>5, <2>6, <2>7, <2>8
  <1>7. /\ rp_alerts' \in SUBSET [id : 1 .. Len(calls'), matched_path : Paths,
                                  severity : {"HIGH", "CRITICAL", "SUSPICIOUS"}]
        /\ AlertsGraded'
    <2>1. /\ rp_alerts \in SUBSET [id : 1 .. Len(calls), matched_path : Paths,
                                   severity : {"HIGH", "CRITICAL", "SUSPICIOUS"}]
          /\ \A a \in rp_alerts : a.id \in taken
          /\ \A id \in taken : calls[id].api = "RegSetValueEx"
                => Graded(AsTold(calls[id]), {a \in rp_alerts : a.id = id})
      BY DEF IInv, TypeOK, AlertsGraded
    <2>2. {a \in rp_alerts : a.id = e.id} = {}
      BY <1>1, <2>1
    <2>3. CASE call.api = "RegSetValueEx" /\ rp_process(e.key_path, call.value) # {}
      <3>1. PICK a \in rp_process(PathOf(call), call.value) :
              rp_alerts' = rp_alerts \union
                {[id |-> e.id, matched_path |-> a.matched_path, severity |-> a.severity]}
        BY <1>1, <1>3, <2>3
      <3> DEFINE new == [id |-> e.id, matched_path |-> a.matched_path,
                         severity |-> a.severity]
      <3>2. /\ Graded(AsTold(call), {new}) /\ new.id = e.id
            /\ a.matched_path \in Paths
            /\ a.severity \in {"HIGH", "CRITICAL", "SUSPICIOUS"}
        <4>1. call.value \in ValueNames
          BY <1>1, <2>3 DEF IInv, NamesOK
        <4> QED BY <1>1, <2>3, <4>1, GradedByTier
      <3>4. new \in [id : 1 .. Len(calls), matched_path : Paths,
                      severity : {"HIGH", "CRITICAL", "SUSPICIOUS"}]
        BY <1>1, <3>2
      <3> HIDE DEF new, call
      <3>5. \A id \in taken : {x \in rp_alerts' : x.id = id} = {x \in rp_alerts : x.id = id}
        BY <1>1, <3>1, <3>2 DEF new
      <3>6. {x \in rp_alerts' : x.id = e.id} = {new}
        BY <2>2, <3>1, <3>2 DEF new
      <3>7. \A id \in taken' : calls'[id].api = "RegSetValueEx" =>
              Graded(AsTold(calls'[id]), {x \in rp_alerts' : x.id = id})
        BY <1>2, <2>1, <3>2, <3>5, <3>6 DEF call
      <3>8. AlertsGraded'
        <4>1. \A x \in rp_alerts' : x.id \in taken'
          BY <1>2, <2>1, <3>1, <3>2 DEF new
        <4>2. \A id : AsTold(calls[id])' = AsTold(calls'[id])
          BY DEF AsTold, PathOf
        <4> QED BY <3>7, <4>1, <4>2 DEF AlertsGraded
      <3> QED BY <1>2, <2>1, <3>1, <3>4, <3>8 DEF new
    <2>4. CASE ~ (call.api = "RegSetValueEx" /\ rp_process(e.key_path, call.value) # {})
      <3>1. rp_alerts' = rp_alerts
        BY <1>3, <2>4
      <3>2. call.api = "RegSetValueEx" => Graded(AsTold(call), {})
        BY <1>1, <2>4, NothingFound
      <3> HIDE DEF call
      <3>3. \A id \in taken' : calls'[id].api = "RegSetValueEx" =>
              Graded(AsTold(calls'[id]), {x \in rp_alerts' : x.id = id})
        BY <1>2, <2>1, <2>2, <3>1, <3>2 DEF call
      <3> QED BY <1>2, <2>1, <3>1, <3>3 DEF AlertsGraded
    <2> QED BY <2>3, <2>4
  <1>8. TypeOK'
    BY <1>2, <1>4, <1>5, <1>6, <1>7 DEF IInv, TypeOK
  <1>9. NamesOK'
    BY <1>2 DEF IInv, NamesOK
  <1> QED BY <1>5, <1>6, <1>7, <1>8, <1>9 DEF IInv

LEMMA NextInv == ASSUME IInv, [Next]_vars PROVE IInv' /\ [PHNext]_phVars
  <1>1. CASE \/ Tick
             \/ \E owner \in Owners : \E h \in Handles : Reopen(owner, h)
             \/ \E api \in Apis : Refused(api) \/ handle_api_hook(api)
    BY <1>1, QuietInv
  <1>2. CASE \E p \in SourcePids : \E h \in HandleValues :
               \/ \E api \in Injections : handle_call(p, api, h, None)
               \/ \E v \in ValueNames : handle_call(p, "RegSetValueEx", h, v)
    <2>1. \A api \in Injections : api \in HandleApis /\ api # "RegSetValueEx"
      BY DEF HandleApis, Injections
    <2>2. "RegSetValueEx" \in HandleApis
      BY DEF HandleApis
    <2> QED BY <1>2, <2>1, <2>2, CallInv
  <1>3. CASE process
    BY <1>3, ProcessInv, ProcessStep
  <1>4. CASE UNCHANGED vars
    BY <1>4 DEF vars, dispatchVars, phVars, IInv, TypeOK, PHTypeOK, QueueOK, LogOK,
                NamesOK, AlertsGraded
  <1> QED BY <1>1, <1>2, <1>3, <1>4 DEF Next

-----------------------------------------------------------------------------
(* The table of the branches.                                              *)

(* The severities of one table of events are not above those of another.   *)
Rises(f, g) ==
    /\ DOMAIN f = DOMAIN g
    /\ \A x \in DOMAIN f : /\ f[x].severity \in DOMAIN Rank
                          /\ g[x].severity \in DOMAIN Rank
                          /\ Rank[f[x].severity] <= Rank[g[x].severity]

LEMMA Joined ==
    ASSUME NEW f1, NEW g1, NEW f2, NEW g2, Rises(f1, g1), Rises(f2, g2)
    PROVE  Rises(f1 ++ f2, g1 ++ g2)
  <1>1. /\ DOMAIN (f1 ++ f2) = DOMAIN f1 \union DOMAIN f2
        /\ DOMAIN (g1 ++ g2) = DOMAIN g1 \union DOMAIN g2
        /\ DOMAIN f1 = DOMAIN g1 /\ DOMAIN f2 = DOMAIN g2
    BY DEF ++, Rises
  <1> QED BY <1>1 DEF ++, Rises

LEMMA Ranks ==
    /\ DOMAIN Rank = {"INFO", "SUSPICIOUS", "HIGH", "CRITICAL"}
    /\ Rank["INFO"] = 0 /\ Rank["SUSPICIOUS"] = 1
    /\ Rank["HIGH"] = 2 /\ Rank["CRITICAL"] = 3
  BY DEF Rank

(* No branch but the one of connect lowers a severity for a sign more.     *)
Rest(seen) ==
    registry ++ winsock ++ http ++ file(seen) ++ injection ++ script(seen)
      ++ surveillance(seen) ++ privilege(seen) ++ crypto ++ service(seen)
      ++ pipe_and_com(seen)

LEMMA RestRises ==
    ASSUME NEW seen, NEW fewer \in SUBSET seen PROVE Rises(Rest(fewer), Rest(seen))
  <1>1. Rises(registry, registry)
    BY Ranks DEF Rises, registry, Event
  <1>2. Rises(winsock, winsock)
    BY Ranks DEF Rises, winsock, Event
  <1>3. Rises(http, http)
    BY Ranks DEF Rises, http, Event
  <1>4. Rises(file(fewer), file(seen))
    BY Ranks DEF Rises, file, Event
  <1>5. Rises(injection, injection)
    BY Ranks DEF Rises, injection, Event
  <1>6. Rises(script(fewer), script(seen))
    BY Ranks DEF Rises, script, Event
  <1>7. Rises(surveillance(fewer), surveillance(seen))
    BY Ranks DEF Rises, surveillance, Event
  <1>8. Rises(privilege(fewer), privilege(seen))
    BY Ranks DEF Rises, privilege, Event
  <1>9. Rises(crypto, crypto)
    BY Ranks DEF Rises, crypto, Event
  <1>10. Rises(service(fewer), service(seen))
    BY Ranks DEF Rises, service, Event
  <1>11. Rises(pipe_and_com(fewer), pipe_and_com(seen))
    BY Ranks DEF Rises, pipe_and_com, Event
  <1>12. Rises(registry ++ winsock ++ http ++ file(fewer),
               registry ++ winsock ++ http ++ file(seen))
    BY <1>1, <1>2, <1>3, <1>4, Joined
  <1>13. Rises(registry ++ winsock ++ http ++ file(fewer) ++ injection
                 ++ script(fewer) ++ surveillance(fewer),
               registry ++ winsock ++ http ++ file(seen) ++ injection
                 ++ script(seen) ++ surveillance(seen))
    BY <1>5, <1>6, <1>7, <1>12, Joined
  <1>14. Rises(registry ++ winsock ++ http ++ file(fewer) ++ injection
                 ++ script(fewer) ++ surveillance(fewer) ++ privilege(fewer) ++ crypto,
               registry ++ winsock ++ http ++ file(seen) ++ injection
                 ++ script(seen) ++ surveillance(seen) ++ privilege(seen) ++ crypto)
    BY <1>8, <1>9, <1>13, Joined
  <1> QED BY <1>10, <1>11, <1>14, Joined DEF Rest

(* The one event of a call: its branch's, or the generic one.              *)
Judged(api, seen) ==
    IF api \in DOMAIN Branches(seen) /\ (api = "connect" => seen # {})
      THEN Branches(seen)[api] ELSE Generic

LEMMA OneEvent ==
    ASSUME NEW api, NEW seen PROVE Emitted(api, seen) = <<Judged(api, seen)>>
  <1>1. ASSUME NEW x PROVE <<x>> \o <<>> = <<x>> /\ <<>> \o <<x>> = <<x>>
    <2>1. <<x>> \in Seq({x})
      OBVIOUS
    <2> QED BY <2>1, ConcatEmptySeq
  <1>2. CASE returns(api, seen)
    <2>1. Emitted(api, seen) = <<Branches(seen)[api]>> \o <<>>
      BY <1>2 DEF Emitted, emits, returns
    <2> QED BY <1>1, <1>2, <2>1 DEF Judged, returns
  <1>3. CASE ~ returns(api, seen)
    <2>1. Emitted(api, seen) = <<>> \o <<Generic>>
      BY <1>3 DEF Emitted, emits, returns
    <2> QED BY <1>1, <1>3, <2>1 DEF Judged, returns
  <1> QED BY <1>2, <1>3

(* No other table has a branch for connect.                                *)
LEMMA ConnectApart == ASSUME NEW seen PROVE "connect" \notin DOMAIN Rest(seen)
  <1>1. \A f, g : DOMAIN (f ++ g) = DOMAIN f \union DOMAIN g
    BY DEF ++
  <1>2. /\ "connect" \notin DOMAIN registry /\ "connect" \notin DOMAIN winsock
        /\ "connect" \notin DOMAIN http
    BY DEF registry, winsock, http
  <1>3. "connect" \notin DOMAIN file(seen) /\ "connect" \notin DOMAIN injection
    BY DEF file, injection
  <1>4. "connect" \notin DOMAIN script(seen) /\ "connect" \notin DOMAIN surveillance(seen)
    BY DEF script, surveillance
  <1>5. "connect" \notin DOMAIN privilege(seen) /\ "connect" \notin DOMAIN crypto
    BY DEF privilege, crypto
  <1>6. "connect" \notin DOMAIN service(seen) /\ "connect" \notin DOMAIN pipe_and_com(seen)
    BY DEF service, pipe_and_com
  <1> DEFINE no(f) == "connect" \notin DOMAIN f
  <1>7. \A f, g : no(f) /\ no(g) => no(f ++ g)
    BY <1>1
  <1>8. /\ no(registry) /\ no(winsock) /\ no(http) /\ no(file(seen)) /\ no(injection)
        /\ no(script(seen)) /\ no(surveillance(seen)) /\ no(privilege(seen))
        /\ no(crypto) /\ no(service(seen)) /\ no(pipe_and_com(seen))
    BY <1>2, <1>3, <1>4, <1>5, <1>6
  <1> HIDE DEF no
  <1>9. no(registry ++ winsock ++ http ++ file(seen) ++ injection)
    BY <1>7, <1>8
  <1>10. no(registry ++ winsock ++ http ++ file(seen) ++ injection ++ script(seen)
              ++ surveillance(seen) ++ privilege(seen))
    BY <1>7, <1>8, <1>9
  <1>11. no(Rest(seen))
    BY <1>7, <1>8, <1>10 DEF Rest
  <1> QED BY <1>11 DEF no

LEMMA JudgedRises ==
    ASSUME NEW api, NEW seen, NEW fewer \in SUBSET seen,
           api = "connect" => \E x : seen \subseteq {x}
    PROVE  Rank[Judged(api, fewer).severity] <= Rank[Judged(api, seen).severity]
  <1>1. /\ Branches(seen) = Rest(seen) ++ connect(seen)
        /\ Branches(fewer) = Rest(fewer) ++ connect(fewer)
    BY DEF Branches, Rest
  <1>2. /\ DOMAIN connect(seen) = {"connect"}
        /\ DOMAIN connect(fewer) = {"connect"}
    BY DEF connect
  <1>3. Rises(Rest(fewer), Rest(seen))
    BY RestRises
  <1>4. Generic.severity = "INFO"
    BY DEF Generic, Event
  <1>5. CASE api \in DOMAIN Rest(seen) /\ api # "connect"
    <2>1. /\ Judged(api, seen) = Rest(seen)[api]
          /\ Judged(api, fewer) = Rest(fewer)[api]
      BY <1>1, <1>3, <1>5 DEF Judged, ++, Rises
    <2> QED BY <1>3, <1>5, <2>1 DEF Rises
  <1>6. CASE api \notin DOMAIN Rest(seen) /\ api # "connect"
    <2>1. Judged(api, seen) = Generic /\ Judged(api, fewer) = Generic
      BY <1>1, <1>2, <1>3, <1>6 DEF Judged, ++, Rises
    <2> QED BY <1>4, <2>1, Ranks
  <1>7. CASE api = "connect"
    <2>1. fewer = {} \/ fewer = seen
      BY <1>7
    <2>2. "connect" \notin DOMAIN Rest(seen)
      BY ConnectApart
    <2>3. /\ "connect" \in DOMAIN Branches(seen)
          /\ Branches(seen)["connect"] = connect(seen)["connect"]
      BY <1>1, <1>2, <2>2 DEF ++
    <2>4. Judged(api, seen).severity \in DOMAIN Rank
      BY <1>4, <1>7, <2>3, Ranks DEF Judged, connect, Event
    <2>5. CASE fewer = {}
      <3>1. Judged(api, fewer) = Generic
        BY <1>7, <2>5 DEF Judged
      <3> QED BY <1>4, <2>4, <3>1, Ranks
    <2>6. CASE fewer = seen
      BY <2>4, <2>6, Ranks
    <2> QED BY <2>1, <2>5, <2>6
  <1> QED BY <1>5, <1>6, <1>7

(* A call is reported by what was seen of it, or not at all; an address    *)
(* shows one family at most.                                               *)
HandledOK ==
    \/ ~handled.context /\ handled.events = <<>>
    \/ /\ handled.context
       /\ handled.events = Emitted(handled.api, handled.seen)
       /\ handled.seen \subseteq handled.shows \union SignsOf(Presumed, handled.api)
       /\ handled.api = "connect" => \E x : handled.shows \subseteq {x}

LEMMA SeenIsShown ==
    ASSUME NEW api, NEW shows \in Shows(api), NEW seen \in Views(api, shows)
    PROVE  /\ seen \subseteq shows \union SignsOf(Presumed, api)
           /\ api = "connect" => \E x : shows \subseteq {x}
  <1>1. seen \subseteq shows \union SignsOf(Presumed, api)
    BY DEF Views
  <1>2. api = "connect" => shows \in {{}, {"ipv4"}, {"ipv6"}, {"garbled"}}
    BY DEF Shows
  <1> QED BY <1>1, <1>2

(* Nothing is presumed of an address.                                      *)
LEMMA NothingPresumed == SignsOf(Presumed, "connect") = {}
  BY DEF SignsOf, Presumed

LEMMA HandledInv ==
    ASSUME HandledOK, [Next]_vars PROVE HandledOK'
  <1>1. ASSUME handled' = Nothing PROVE HandledOK'
    BY <1>1 DEF Nothing, Handled, HandledOK
  <1>2. ASSUME NEW api, Refused(api) PROVE HandledOK'
    BY <1>2 DEF Refused, Handled, HandledOK
  <1>3. ASSUME NEW api, handle_api_hook(api) PROVE HandledOK'
    <2>1. PICK shows \in Shows(api) : \E seen \in Views(api, shows) :
            handled' = Handled(api, shows, seen, TRUE, Emitted(api, seen))
      BY <1>3 DEF handle_api_hook
    <2>2. PICK seen \in Views(api, shows) :
            handled' = Handled(api, shows, seen, TRUE, Emitted(api, seen))
      BY <2>1
    <2>3. /\ seen \subseteq shows \union SignsOf(Presumed, api)
          /\ api = "connect" => \E x : shows \subseteq {x}
      BY SeenIsShown
    <2>4. /\ handled'.api = api /\ handled'.seen = seen /\ handled'.context = TRUE
          /\ handled'.shows = shows /\ handled'.events = Emitted(api, seen)
      BY <2>2 DEF Handled
    <2> QED BY <2>3, <2>4 DEF HandledOK
  <1>4. ASSUME NEW p, NEW api, NEW h, NEW v, handle_call(p, api, h, v) PROVE HandledOK'
    <2>1. handled' = Handled(api, {}, {}, TRUE, Emitted(api, {}))
      BY <1>4 DEF handle_call
    <2>2. /\ handled'.api = api /\ handled'.seen = {} /\ handled'.context = TRUE
          /\ handled'.shows = {} /\ handled'.events = Emitted(api, {})
      BY <2>1 DEF Handled
    <2> QED BY <2>2 DEF HandledOK
  <1>5. CASE UNCHANGED vars
    BY <1>5 DEF vars, dispatchVars, HandledOK
  <1> QED BY <1>1, <1>2, <1>3, <1>4, <1>5 DEF Next, Tick, Reopen, process

LEMMA HandledInit == Init => HandledOK
  BY DEF Init, Nothing, Handled, HandledOK

(* A call is reported, and resumed, once or not at all: no branch falls    *)
(* through into the generic event after its own, and none returns without  *)
(* one (debug_thread.py:526-1580).                                         *)
THEOREM ReportedOnceHolds == Spec => []ReportedOnce
<1>1. HandledOK => ReportedOnce
  <2> SUFFICES ASSUME HandledOK PROVE ReportedOnce
    OBVIOUS
  <2>1. handled.context => Len(handled.events) = 1
    BY OneEvent DEF HandledOK
  <2>2. ~handled.context => Len(handled.events) = 0
    BY DEF HandledOK
  <2> QED BY <2>1, <2>2 DEF ReportedOnce
<1> QED BY <1>1, HandledInit, HandledInv, PTL DEF Spec

(* A call is graded no milder than any of the signs that were read of it   *)
(* warrant, whatever else could be read or not, and no graver than what it *)
(* shows, together with what a branch presumes of an argument it cannot    *)
(* read, would warrant (debug_thread.py:864-1562).                         *)
THEOREM GradedByEvidenceHolds == Spec => []GradedByEvidence
<1>1. HandledOK => GradedByEvidence
  <2> DEFINE api == handled.api
             feared == handled.shows \union SignsOf(Presumed, api)
  <2> SUFFICES ASSUME HandledOK, NEW i \in 1 .. Len(handled.events)
               PROVE  /\ \A read \in SUBSET (handled.shows \intersect handled.seen) :
                            RankOf(Emitted(api, read)[1]) <= RankOf(handled.events[i])
                      /\ RankOf(handled.events[i]) <= RankOf(Emitted(api, feared)[1])
    BY DEF GradedByEvidence
  <2>1. /\ handled.events = Emitted(api, handled.seen)
        /\ handled.seen \subseteq feared
        /\ api = "connect" => \E x : handled.shows \subseteq {x}
    BY DEF HandledOK
  <2>2. api = "connect" => \E x : feared \subseteq {x} /\ handled.seen \subseteq {x}
    BY <2>1, NothingPresumed
  <2>3. handled.events[i] = Judged(api, handled.seen)
    BY <2>1, OneEvent
  <2>4. ASSUME NEW read \in SUBSET (handled.shows \intersect handled.seen)
        PROVE  RankOf(Emitted(api, read)[1]) <= RankOf(handled.events[i])
    <3>1. Emitted(api, read)[1] = Judged(api, read)
      BY OneEvent
    <3>2. Rank[Judged(api, read).severity] <= Rank[Judged(api, handled.seen).severity]
      BY <2>2, JudgedRises
    <3> QED BY <2>3, <3>1, <3>2 DEF RankOf
  <2>5. RankOf(handled.events[i]) <= RankOf(Emitted(api, feared)[1])
    <3>1. Emitted(api, feared)[1] = Judged(api, feared)
      BY OneEvent
    <3>2. Rank[Judged(api, handled.seen).severity] <= Rank[Judged(api, feared).severity]
      BY <2>1, <2>2, JudgedRises
    <3> QED BY <2>3, <3>1, <3>2 DEF RankOf
  <2> QED BY <2>4, <2>5
<1> QED BY <1>1, HandledInit, HandledInv, PTL DEF Spec

-----------------------------------------------------------------------------
(* Type correctness, the bound of the queue included.                      *)
THEOREM TypeCorrect == Spec => []TypeOK
<1>1. IInv => TypeOK
  BY DEF IInv
<1> QED BY <1>1, InitInv, NextInv, PTL DEF Spec

(* The composition drives the hollowing detector as ProcessHollowing       *)
(* says: fresh ids in their order, times that do not run backwards         *)
(* (detector_engine.py:87, process_hollow_detector.py:71).                 *)
THEOREM ImplementsHollowing == Spec => PHSpec
<1>1. Init => PHInit
  BY DEF Init
<1> QED BY <1>1, InitInv, NextInv, PTL DEF Spec, PHSpec

(* Where NtQueryKey is shown the caller's key, a value written under known *)
(* paths raises one alert, for a path of their gravest tier and with that  *)
(* tier's severity, and any other value raises none                        *)
(* (registry_persistence_detector.py:79-134).                              *)
THEOREM PersistenceIsGradedHolds == Spec => []PersistenceIsGraded
<1>1. IInv => PersistenceIsGraded
  <2> SUFFICES ASSUME IInv, NEW id \in taken, calls[id].api = "RegSetValueEx",
                      TrulyShown(calls[id])
               PROVE  Graded(Occurring(Written(calls[id]), calls[id].value),
                             {a \in rp_alerts : a.id = id})
    BY DEF PersistenceIsGraded
  <2>1. Written(calls[id]) = PathOf(calls[id])
    BY DEF TrulyShown, Written, PathOf
  <2> QED BY <2>1 DEF IInv, AlertsGraded, AsTold
<1> QED BY <1>1, InitInv, NextInv, PTL DEF Spec

(* A thread through the handle value of an earlier write raises an alert   *)
(* as long as the value is the same to BX2TRACE at both calls.             *)
THEOREM SameHandleCorrelatesHolds == Spec => []SameHandleCorrelates
<1>1. IInv /\ InjectionsAreFound => SameHandleCorrelates
  <2> SUFFICES ASSUME IInv, InjectionsAreFound, NEW p \in SourcePids,
                      NEW t \in ph_threads[p], NEW w \in WritesBefore(p, t),
                      calls[w.id].handle = calls[t.id].handle,
                      calls[w.id].shown = calls[t.id].shown
               PROVE  t.id \in ph_alerts
    BY DEF SameHandleCorrelates
  <2>1. w \in ph_log[p] /\ w.id < t.id /\ t.ts <= w.ts + HollowWindow
    BY DEF WritesBefore
  <2>2. w.target = t.target
    BY <2>1 DEF IInv, LogOK, KeyOf
  <2> QED BY <2>1, <2>2 DEF InjectionsAreFound
<1> QED BY <1>1, InitInv, NextInv, ImplementsHollowing, InjectionsAreFoundHolds,
           PTL DEF Spec

(* VictimsCorrelate of the threads for which BX2TRACE is told the truth.   *)
TrueHandlesCorrelate ==
    \A p \in SourcePids : \A t \in ph_threads[p] :
        /\ calls[t.id].object \in Pids
        /\ \A c \in WritesBefore(p, t) \union {t} : TrulyShown(calls[c.id])
        => (t.id \in ph_alerts
              <=> \E w \in WritesBefore(p, t) :
                    calls[w.id].object = calls[t.id].object)

(* foreign_handles shows that threads and writes of one victim are missed; *)
(* that the handles are looked up in the wrong process is the whole of the *)
(* reason (debug_thread.py:939-992, process_hollow_detector.py:18): where  *)
(* the lookup answers what the caller means, a thread raises an alert if,  *)
(* and only if, its victim was written to within the window, through       *)
(* whatever handles.                                                       *)
THEOREM TrueHandlesCorrelateHolds == Spec => []TrueHandlesCorrelate
<1>1. IInv /\ InjectionsAreFound => TrueHandlesCorrelate
  <2> SUFFICES ASSUME IInv, InjectionsAreFound, NEW p \in SourcePids,
                      NEW t \in ph_threads[p], calls[t.id].object \in Pids,
                      \A c \in WritesBefore(p, t) \union {t} : TrulyShown(calls[c.id])
               PROVE  t.id \in ph_alerts
                        <=> \E w \in WritesBefore(p, t) :
                              calls[w.id].object = calls[t.id].object
    BY DEF TrueHandlesCorrelate
  <2>1. /\ t.id \in taken /\ t.target = KeyOf(calls[t.id])
        /\ \A w \in ph_log[p] : w.id \in taken /\ w.target = KeyOf(calls[w.id])
    BY DEF IInv, LogOK
  <2>2. t.target = calls[t.id].object
    BY <2>1 DEF TrulyShown, KeyOf
  <2>3. t.id \in ph_alerts <=> \E w \in WritesBefore(p, t) : w.target = t.target
    BY DEF InjectionsAreFound, WritesBefore
  <2>4. ASSUME NEW w \in WritesBefore(p, t)
        PROVE  w.target = t.target <=> calls[w.id].object = calls[t.id].object
    <3>1. w \in ph_log[p]
      BY DEF WritesBefore
    <3>2. calls[w.id] \in CallType
      <4>1. calls \in Seq(CallType) /\ w.id \in 1 .. Len(calls)
        BY <2>1, <3>1 DEF IInv, TypeOK, CallType
      <4> QED BY <4>1, ElementOf
    <3>3. calls[w.id].handle \notin Pids
      BY <3>2, DispatchAssumption DEF CallType, DispatchAssumption, Objects
    <3> QED BY <2>1, <2>2, <3>1, <3>3 DEF TrulyShown, KeyOf
  <2> QED BY <2>3, <2>4
<1> QED BY <1>1, InitInv, NextInv, ImplementsHollowing, InjectionsAreFoundHolds,
           PTL DEF Spec
=============================================================================
