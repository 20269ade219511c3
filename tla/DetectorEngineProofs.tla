------------------------ MODULE DetectorEngineProofs ------------------------
(***************************************************************************)
(* Proofs about DetectorEngine: for any processes, addresses, targets,     *)
(* windows and queue, however detectors are registered and removed.  The   *)
(* engine drives each detector only as the detector's own module allows,   *)
(* so what is proved of the detectors holds of them in the engine.         *)
(***************************************************************************)
EXTENDS DetectorEngine, C2BeaconProofs, ProcessHollowingProofs, SequenceTheorems

Queued == [id : Nat, what : EventKinds]

(* Events are dated by a clock the detectors are not ahead of, and wait in *)
(* the order they happened.                                                *)
QueueOK ==
    /\ event_queue \in Seq(Queued)
    /\ now \in Nat /\ happened \in Nat /\ c2_now <= now /\ ph_now <= now
    /\ \A i \in 1 .. Len(event_queue) : event_queue[i].id <= happened
    /\ \A i, j \in 1 .. Len(event_queue) :
         i < j => event_queue[i].id < event_queue[j].id

(* What the detectors were given is older than what waits.                 *)
Older(n) ==
    /\ \A k \in Pairs : \A c \in c2_log[k] : c.id < n
    /\ \A p \in SourcePids : \A c \in ph_log[p] \union ph_threads[p] : c.id < n

Past == Older(happened + 1) /\ \A i \in 1 .. Len(event_queue) : Older(event_queue[i].id)

IInv == C2TypeOK /\ PHTypeOK /\ QueueOK /\ Past /\ NoEventSkipped

LEMMA InitInv == Init => IInv
  <1> SUFFICES ASSUME Init PROVE IInv
    OBVIOUS
  <1>1. C2TypeOK /\ PHTypeOK
    BY C2InitInv, PHInitInv DEF Init, C2Inv, PHInv
  <1>2. QueueOK
    BY DEF Init, C2Init, PHInit, QueueOK
  <1>3. Past
    BY DEF Init, C2Init, PHInit, Past, Older
  <1>4. NoEventSkipped
    BY DEF Init, C2Init, PHInit, NoEventSkipped
  <1> QED BY <1>1, <1>2, <1>3, <1>4 DEF IInv

(* Steps the detectors have no part in: the clock and a removal.           *)
LEMMA QuietInv ==
    ASSUME IInv, Tick \/ \E d \in Names : unregister(d)
    PROVE  IInv'
  <1>1. /\ UNCHANGED <<c2Vars, phVars, happened, event_queue, given>>
        /\ now' \in Nat /\ now <= now'
    <2>1. now \in Nat
      BY DEF IInv, QueueOK
    <2>2. CASE Tick
      BY <2>1, <2>2 DEF Tick
    <2>3. CASE \E d \in Names : unregister(d)
      <3>1. UNCHANGED <<c2Vars, phVars, now, happened, event_queue, given>>
        BY <2>3 DEF unregister
      <3> QED BY <2>1, <3>1
    <2> QED BY <2>2, <2>3
  <1>2. C2TypeOK' /\ PHTypeOK'
    BY <1>1 DEF IInv, C2TypeOK, PHTypeOK, c2Vars, phVars
  <1>3. QueueOK'
    BY <1>1 DEF IInv, QueueOK, C2TypeOK, PHTypeOK, c2Vars, phVars
  <1>4. Past' /\ NoEventSkipped'
    BY <1>1 DEF IInv, Past, Older, NoEventSkipped, c2Vars, phVars
  <1> QED BY <1>2, <1>3, <1>4 DEF IInv

(* An event happens, and waits unless the queue is full.                   *)
LEMMA PutInv ==
    ASSUME IInv, NEW what \in EventKinds, put_event(what)
    PROVE  IInv'
  <1> DEFINE e == [id |-> happened + 1, what |-> what]
  <1>1. /\ happened' = happened + 1 /\ happened \in Nat
        /\ event_queue' = event_queue \/ event_queue' = Append(event_queue, e)
        /\ UNCHANGED <<c2Vars, phVars, now, detectors, given>>
    BY DEF put_event, IInv, QueueOK
  <1>2. e \in Queued /\ e.id = happened + 1
    BY <1>1 DEF Queued
  <1> HIDE DEF e
  <1>3. /\ event_queue \in Seq(Queued)
        /\ \A i \in 1 .. Len(event_queue) :
             event_queue[i].id \in Nat /\ event_queue[i].id <= happened
    <2>1. event_queue \in Seq(Queued)
      BY DEF IInv, QueueOK
    <2>2. \A i \in 1 .. Len(event_queue) : event_queue[i] \in Queued
      BY <2>1
    <2> QED BY <2>1, <2>2 DEF IInv, QueueOK, Queued
  <1>4. /\ event_queue' \in Seq(Queued)
        /\ \A i \in 1 .. Len(event_queue') :
             \/ i \in 1 .. Len(event_queue) /\ event_queue'[i] = event_queue[i]
             \/ i = Len(event_queue) + 1 /\ event_queue'[i] = e
    <2>1. CASE event_queue' = event_queue
      BY <1>3, <2>1
    <2>2. CASE event_queue' = Append(event_queue, e)
      <3>1. event_queue \in Seq(Queued) /\ e \in Queued
        BY <1>2, <1>3
      <3>2. /\ Append(event_queue, e) \in Seq(Queued)
            /\ Len(event_queue) \in Nat
            /\ Len(Append(event_queue, e)) = Len(event_queue) + 1
            /\ Append(event_queue, e)[Len(event_queue) + 1] = e
            /\ \A i \in 1 .. Len(event_queue) :
                 Append(event_queue, e)[i] = event_queue[i]
        BY <3>1
      <3> QED BY <2>2, <3>2
    <2> QED BY <1>1, <2>1, <2>2
  <1>5. QueueOK'
    <2>1. \A i \in 1 .. Len(event_queue') : event_queue'[i].id <= happened'
      BY <1>1, <1>2, <1>3, <1>4
    <2>2. \A i, j \in 1 .. Len(event_queue') :
            i < j => event_queue'[i].id < event_queue'[j].id
      BY <1>1, <1>2, <1>3, <1>4 DEF IInv, QueueOK
    <2> QED BY <1>1, <1>4, <2>1, <2>2 DEF IInv, QueueOK, c2Vars, phVars
  <1>6. Older(happened' + 1)
    BY <1>1 DEF IInv, Past, Older, C2TypeOK, PHTypeOK, Connection, Call
  <1>7. \A i \in 1 .. Len(event_queue') : Older(event_queue'[i].id)
    BY <1>2, <1>4 DEF IInv, Past
  <1>8. Past'
    BY <1>1, <1>6, <1>7 DEF Past, Older, c2Vars, phVars
  <1>9. C2TypeOK' /\ PHTypeOK' /\ NoEventSkipped'
    BY <1>1 DEF IInv, C2TypeOK, PHTypeOK, NoEventSkipped, c2Vars, phVars
  <1> QED BY <1>5, <1>8, <1>9 DEF IInv

(* Nothing has been given to new instances.                                *)
LEMMA NewInv ==
    ASSUME IInv, load_defaults \/ \E d \in Names : register(d)
    PROVE  IInv' /\ [C2Next]_c2Vars /\ [PHNext]_phVars
  <1>1. /\ \/ c2_new /\ given'["c2"] = {}
           \/ UNCHANGED c2Vars /\ given'["c2"] = given["c2"]
        /\ \/ ph_new /\ given'["hollow"] = {}
           \/ UNCHANGED phVars /\ given'["hollow"] = given["hollow"]
        /\ UNCHANGED <<now, happened, event_queue>>
    BY DEF load_defaults, register
  <1>2. C2TypeOK' /\ PHTypeOK' /\ c2_now' = c2_now /\ ph_now' = ph_now
    BY <1>1 DEF IInv, C2TypeOK, PHTypeOK, c2_new, ph_new, c2Vars, phVars
  <1>3. QueueOK'
    BY <1>1, <1>2 DEF IInv, QueueOK
  <1>4. /\ \A k \in Pairs : c2_log'[k] \subseteq c2_log[k]
        /\ \A p \in SourcePids : /\ ph_log'[p] \subseteq ph_log[p]
                                 /\ ph_threads'[p] \subseteq ph_threads[p]
    BY <1>1 DEF c2_new, ph_new, c2Vars, phVars
  <1>5. Past'
    BY <1>1, <1>4 DEF IInv, Past, Older
  <1>6. given'["c2"] = {c.id : c \in UNION {c2_log'[k] : k \in Pairs}}
    <2>1. CASE c2_new /\ given'["c2"] = {}
      BY <2>1 DEF c2_new
    <2>2. CASE UNCHANGED c2Vars /\ given'["c2"] = given["c2"]
      BY <2>2 DEF IInv, NoEventSkipped, c2Vars
    <2> QED BY <1>1, <2>1, <2>2
  <1>7. given'["hollow"]
          = {c.id : c \in UNION {ph_log'[p] \union ph_threads'[p] : p \in SourcePids}}
    <2>1. CASE ph_new /\ given'["hollow"] = {}
      BY <2>1 DEF ph_new
    <2>2. CASE UNCHANGED phVars /\ given'["hollow"] = given["hollow"]
      BY <2>2 DEF IInv, NoEventSkipped, phVars
    <2> QED BY <1>1, <2>1, <2>2
  <1> QED BY <1>1, <1>2, <1>3, <1>5, <1>6, <1>7
          DEF IInv, NoEventSkipped, C2Next, PHNext

(* The loop takes the head of the queue, and what stays is younger.        *)
LEMMA HeadFacts ==
    ASSUME IInv, event_queue # <<>>
    PROVE  LET e == Head(event_queue) IN
           /\ e.id \in Nat /\ e.what \in EventKinds /\ e.id <= happened
           /\ Older(e.id)
           /\ Tail(event_queue) \in Seq(Queued)
           /\ \A i \in 1 .. Len(Tail(event_queue)) :
                /\ i + 1 \in 1 .. Len(event_queue)
                /\ Tail(event_queue)[i] = event_queue[i + 1]
                /\ Tail(event_queue)[i].id \in Nat
                /\ e.id < Tail(event_queue)[i].id
  <1>1. /\ event_queue \in Seq(Queued) /\ Tail(event_queue) \in Seq(Queued)
        /\ Head(event_queue) = event_queue[1] /\ 1 \in 1 .. Len(event_queue)
        /\ event_queue[1] \in Queued
        /\ Len(Tail(event_queue)) = Len(event_queue) - 1
    BY DEF IInv, QueueOK
  <1>2. ASSUME NEW i \in 1 .. Len(Tail(event_queue))
        PROVE  /\ i + 1 \in 1 .. Len(event_queue)
               /\ Tail(event_queue)[i] = event_queue[i + 1]
               /\ Tail(event_queue)[i].id \in Nat
               /\ event_queue[1].id < Tail(event_queue)[i].id
    <2>1. i + 1 \in 1 .. Len(event_queue) /\ 1 < i + 1
      BY <1>1
    <2>2. /\ Tail(event_queue)[i] = event_queue[i + 1]
          /\ event_queue[i + 1] \in Queued
      BY <1>1, <2>1
    <2> QED BY <1>1, <2>1, <2>2 DEF IInv, QueueOK, Queued
  <1>3. /\ event_queue[1].id \in Nat /\ event_queue[1].what \in EventKinds
        /\ event_queue[1].id <= happened /\ Older(event_queue[1].id)
    BY <1>1 DEF IInv, QueueOK, Past, Queued
  <1> QED BY <1>1, <1>2, <1>3

(* The engine calls a detector only in ways its own module allows.         *)
LEMMA ProcessStep ==
    ASSUME IInv, process
    PROVE  LET e == Head(event_queue).what
               id == Head(event_queue).id
           IN  /\ [C2Next]_c2Vars /\ [PHNext]_phVars
               /\ \/ Registered("c2") /\ run_c2(e, id)
                  \/ ~Registered("c2") /\ UNCHANGED c2Vars
               /\ \/ Registered("hollow") /\ run_hollow(e, id)
                  \/ ~Registered("hollow") /\ UNCHANGED phVars
  <1> DEFINE e == Head(event_queue).what
             id == Head(event_queue).id
  <1>1. /\ \/ Registered("c2") /\ run_c2(e, id)
           \/ ~Registered("c2") /\ UNCHANGED c2Vars
        /\ \/ Registered("hollow") /\ run_hollow(e, id)
           \/ ~Registered("hollow") /\ UNCHANGED phVars
    BY DEF process, Called
  <1>2. /\ id \in Nat /\ e \in EventKinds /\ Older(id)
        /\ now \in Nat /\ now >= c2_now /\ now >= ph_now
    BY HeadFacts DEF process, IInv, QueueOK, C2TypeOK, PHTypeOK
  <1>3. Fresh(id) /\ PHFresh(id)
    BY <1>2 DEF Fresh, PHFresh, Older
  <1> HIDE DEF e, id
  <1>4. [C2Next]_c2Vars
    <2>1. e.kind = "CONNECTED" => e.pair \in Pairs
      BY <1>2 DEF EventKinds
    <2>2. CASE run_c2(e, id)
      BY <1>2, <1>3, <2>1, <2>2 DEF run_c2, C2Next
    <2> QED BY <1>1, <2>2
  <1>5. [PHNext]_phVars
    <2>1. e.kind \in {"WRITE_PROCESS_MEMORY", "CREATE_REMOTE_THREAD"}
            => e.pid \in SourcePids /\ e.target \in Targets
      BY <1>2 DEF EventKinds
    <2>2. CASE run_hollow(e, id)
      BY <1>2, <1>3, <2>1, <2>2 DEF run_hollow, PHNext
    <2> QED BY <1>1, <2>2
  <1> QED BY <1>1, <1>4, <1>5 DEF e, id

(* The C2 detector has taken in the event at the head, if it is one of its *)
(* own and the detector is there.                                          *)
LEMMA C2Given ==
    ASSUME IInv, process
    PROVE  /\ C2TypeOK' /\ c2_now' <= now
           /\ \A k \in Pairs : \A c \in c2_log'[k] :
                c \in c2_log[k] \/ c.id = Head(event_queue).id
           /\ given'["c2"] = {c.id : c \in UNION {c2_log'[k] : k \in Pairs}}
  <1> DEFINE e == Head(event_queue).what
             id == Head(event_queue).id
             All(log) == UNION {log[k] : k \in Pairs}
             Ids(log) == {c.id : c \in All(log)}
  <1>1. /\ given'["c2"] = IF Registered("c2") /\ e.kind = "CONNECTED"
                           THEN given["c2"] \union {id} ELSE given["c2"]
    BY DEF process, Kept
  <1>2. /\ given["c2"] = Ids(c2_log) /\ C2TypeOK /\ now \in Nat /\ c2_now <= now
        /\ id \in Nat /\ e \in EventKinds
    BY HeadFacts DEF process, IInv, NoEventSkipped, QueueOK
  <1>3. \/ Registered("c2") /\ run_c2(e, id)
        \/ ~Registered("c2") /\ UNCHANGED c2Vars
    BY ProcessStep
  <1> HIDE DEF e, id
  <1>4. CASE UNCHANGED c2Vars
             /\ ~ (Registered("c2") /\ e.kind = "CONNECTED")
    BY <1>1, <1>2, <1>4 DEF C2TypeOK, c2Vars, id
  <1>5. CASE c2_unparsed(now) /\ e.kind # "CONNECTED"
    <2>1. C2TypeOK'
      BY <1>2, <1>5 DEF c2_unparsed, C2TypeOK, prune_alerted
    <2> QED BY <1>1, <1>2, <1>5, <2>1 DEF c2_unparsed, id
  <1>6. CASE c2_process(e.pair, now, id) /\ Registered("c2") /\ e.kind = "CONNECTED"
    <2> DEFINE this == [ts |-> now, id |-> id]
    <2>1. e.pair \in Pairs
      BY <1>2, <1>6 DEF EventKinds
    <2>2. /\ c2_log' = [c2_log EXCEPT ![e.pair] = @ \union {this}]
          /\ c2_now' = now
      BY <1>6 DEF c2_process
    <2>3. this \in Connection /\ this.id = id
      BY <1>2 DEF Connection
    <2>4. C2TypeOK'
      <3>1. /\ connections' = [connections EXCEPT ![e.pair] =
                                 Active(connections[e.pair], now) \union {this}]
            /\ \/ alerted' = prune_alerted(now) \union {e.pair}
               \/ alerted' = prune_alerted(now)
            /\ \/ c2_alerts' = [c2_alerts EXCEPT ![e.pair] = @ \union {this}]
               \/ c2_alerts' = c2_alerts
        BY <1>6 DEF c2_process
      <3> HIDE DEF this
      <3>2. Active(connections[e.pair], now) \in SUBSET Connection
        BY <1>2, <2>1 DEF Active, C2TypeOK
      <3>3. prune_alerted(now) \in SUBSET Pairs
        BY <1>2 DEF prune_alerted, C2TypeOK
      <3> QED BY <1>2, <2>1, <2>2, <2>3, <3>1, <3>2, <3>3 DEF C2TypeOK
    <2> HIDE DEF this
    <2>5. \A k \in Pairs : c2_log'[k] = IF k = e.pair THEN c2_log[k] \union {this}
                                                       ELSE c2_log[k]
      BY <1>2, <2>1, <2>2 DEF C2TypeOK
    <2>6. Ids(c2_log') = Ids(c2_log) \union {id}
      <3>1. All(c2_log') = All(c2_log) \union {this}
        <4>1. \A c : c \in All(c2_log') <=> \E k \in Pairs : c \in c2_log'[k]
          OBVIOUS
        <4>2. \A c : c \in All(c2_log) <=> \E k \in Pairs : c \in c2_log[k]
          OBVIOUS
        <4> QED BY <2>1, <2>5, <4>1, <4>2
      <3> HIDE DEF All
      <3> QED BY <2>3, <3>1
    <2> QED BY <1>1, <1>2, <1>6, <2>2, <2>3, <2>4, <2>5, <2>6 DEF id
  <1> QED BY <1>3, <1>4, <1>5, <1>6 DEF run_c2

(* The same for the hollowing detector.                                    *)
LEMMA HollowGiven ==
    ASSUME IInv, process
    PROVE  /\ PHTypeOK' /\ ph_now' <= now
           /\ \A p \in SourcePids : \A c \in ph_log'[p] \union ph_threads'[p] :
                c \in ph_log[p] \union ph_threads[p] \/ c.id = Head(event_queue).id
           /\ given'["hollow"]
                = {c.id : c \in UNION {ph_log'[p] \union ph_threads'[p] : p \in SourcePids}}
  <1> DEFINE e == Head(event_queue).what
             id == Head(event_queue).id
             All(log, threads) == UNION {log[p] \union threads[p] : p \in SourcePids}
             Mine == e.kind \in {"WRITE_PROCESS_MEMORY", "CREATE_REMOTE_THREAD"}
             this == [target |-> e.target, ts |-> now, id |-> id]
  <1>1. given'["hollow"] = IF Registered("hollow") /\ Mine
                             THEN given["hollow"] \union {id} ELSE given["hollow"]
    BY DEF process, Kept
  <1>2. /\ given["hollow"] = {c.id : c \in All(ph_log, ph_threads)}
        /\ PHTypeOK /\ now \in Nat /\ ph_now <= now
        /\ id \in Nat /\ e \in EventKinds
    BY HeadFacts DEF process, IInv, NoEventSkipped, QueueOK
  <1>3. \/ Registered("hollow") /\ run_hollow(e, id)
        \/ ~Registered("hollow") /\ UNCHANGED phVars
    BY ProcessStep
  <1>4. /\ prune(wpm_events, now) \in [SourcePids -> SUBSET Call]
        /\ prune(crt_events, now) \in [SourcePids -> SUBSET Call]
    BY <1>2 DEF prune, PHTypeOK
  <1> HIDE DEF e, id
  <1>5. CASE UNCHANGED phVars /\ ~ (Registered("hollow") /\ Mine)
    BY <1>1, <1>2, <1>5 DEF PHTypeOK, phVars, id
  <1>6. CASE ph_other(now) /\ ~Mine
    <2>1. PHTypeOK'
      BY <1>2, <1>4, <1>6 DEF ph_other, PHTypeOK
    <2> QED BY <1>1, <1>2, <1>6, <2>1 DEF ph_other, id
  <1>7. CASE /\ ph_write(e.pid, e.target, now, id) \/ ph_thread(e.pid, e.target, now, id)
             /\ Registered("hollow") /\ Mine
    <2>1. e.pid \in SourcePids /\ e.target \in Targets
      BY <1>2, <1>7 DEF EventKinds
    <2>2. this \in Call /\ this.id = id
      BY <1>2, <2>1 DEF Call
    <2>3. /\ ph_now' = now /\ ph_alerts' \in {ph_alerts, ph_alerts \union {id}}
          /\ \/ /\ ph_log' = [ph_log EXCEPT ![e.pid] = @ \union {this}]
                /\ ph_threads' = ph_threads
                /\ wpm_events' = [prune(wpm_events, now) EXCEPT ![e.pid] = @ \union {this}]
                /\ crt_events' = prune(crt_events, now)
             \/ /\ ph_threads' = [ph_threads EXCEPT ![e.pid] = @ \union {this}]
                /\ ph_log' = ph_log
                /\ crt_events' = [prune(crt_events, now) EXCEPT ![e.pid] = @ \union {this}]
                /\ wpm_events' = prune(wpm_events, now)
      BY <1>7 DEF ph_write, ph_thread
    <2> HIDE DEF this
    <2>4. PHTypeOK'
      BY <1>2, <1>4, <2>1, <2>2, <2>3 DEF PHTypeOK
    <2>5. \A p \in SourcePids :
            ph_log'[p] \union ph_threads'[p]
              = IF p = e.pid THEN (ph_log[p] \union ph_threads[p]) \union {this}
                             ELSE ph_log[p] \union ph_threads[p]
      BY <1>2, <2>1, <2>3 DEF PHTypeOK
    <2>6. All(ph_log', ph_threads') = All(ph_log, ph_threads) \union {this}
      BY <2>1, <2>5
    <2>7. given'["hollow"] = {c.id : c \in All(ph_log', ph_threads')}
      <3> HIDE DEF All
      <3> QED BY <1>1, <1>2, <1>7, <2>2, <2>6
    <2> QED BY <1>2, <2>2, <2>3, <2>4, <2>5, <2>7 DEF id
  <1> QED BY <1>3, <1>5, <1>6, <1>7 DEF run_hollow

LEMMA ProcessInv == ASSUME IInv, process PROVE IInv'
  <1> DEFINE id == Head(event_queue).id
  <1>1. /\ event_queue' = Tail(event_queue) /\ UNCHANGED <<now, happened, detectors>>
    BY DEF process
  <1>2. /\ id \in Nat /\ id <= happened /\ event_queue' \in Seq(Queued)
        /\ \A i \in 1 .. Len(event_queue') :
             /\ i + 1 \in 1 .. Len(event_queue) /\ i \in Nat
             /\ event_queue'[i] = event_queue[i + 1] /\ event_queue'[i].id \in Nat
             /\ id < event_queue'[i].id
    BY <1>1, HeadFacts DEF process
  <1>3. QueueOK'
    <2>1. \A i \in 1 .. Len(event_queue') : event_queue'[i].id <= happened'
      BY <1>1, <1>2 DEF IInv, QueueOK
    <2>2. ASSUME NEW i \in 1 .. Len(event_queue'), NEW j \in 1 .. Len(event_queue'), i < j
          PROVE  event_queue'[i].id < event_queue'[j].id
      <3>1. i + 1 < j + 1
        BY <2>2
      <3> QED BY <1>2, <3>1 DEF IInv, QueueOK
    <2> QED BY <1>1, <1>2, <2>1, <2>2, C2Given, HollowGiven DEF IInv, QueueOK
  <1>4. \A n \in Nat : Older(n) /\ id < n => Older(n)'
    BY C2Given, HollowGiven DEF Older
  <1>5. Past'
    <2>1. happened + 1 \in Nat /\ id < happened + 1
      BY <1>2 DEF IInv, QueueOK
    <2> QED BY <1>1, <1>2, <1>4, <2>1 DEF IInv, Past, Older
  <1>6. NoEventSkipped'
    BY C2Given, HollowGiven DEF NoEventSkipped
  <1> QED BY <1>3, <1>5, <1>6, C2Given, HollowGiven DEF IInv

LEMMA NextInv ==
    ASSUME IInv, [Next]_vars PROVE IInv' /\ [C2Next]_c2Vars /\ [PHNext]_phVars
  <1>1. CASE Tick
    BY <1>1, QuietInv DEF Tick
  <1>2. CASE \E d \in Names : unregister(d)
    <2>1. UNCHANGED <<c2Vars, phVars>>
      BY <1>2 DEF unregister
    <2> QED BY <1>2, <2>1, QuietInv
  <1>3. CASE \E e \in EventKinds : put_event(e)
    <2>1. UNCHANGED <<c2Vars, phVars>>
      BY <1>3 DEF put_event
    <2> QED BY <1>3, <2>1, PutInv
  <1>4. CASE load_defaults \/ \E d \in Names : register(d)
    BY <1>4, NewInv
  <1>5. CASE process
    BY <1>5, ProcessInv, ProcessStep
  <1>6. CASE UNCHANGED vars
    BY <1>6 DEF vars, engVars, c2Vars, phVars, IInv, C2TypeOK, PHTypeOK, QueueOK, Past,
                Older, NoEventSkipped
  <1> QED BY <1>1, <1>2, <1>3, <1>4, <1>5, <1>6 DEF Next

-----------------------------------------------------------------------------
(* Types.  The clock and the ids stay in their bounds, the queue in its    *)
(* size, and the list of detectors names each one once.                    *)

(* A list of distinct names without one of its entries is one, too.        *)
LEMMA WithoutOne ==
    ASSUME NEW s \in Seq(Names), IsInjective(s), NEW i \in 1 .. Len(s)
    PROVE  LET r == SubSeq(s, 1, i - 1) \o SubSeq(s, i + 1, Len(s)) IN
           r \in Seq(Names) /\ IsInjective(r)
  <1> DEFINE a == SubSeq(s, 1, i - 1)
             b == SubSeq(s, i + 1, Len(s))
             r == a \o b
  <1>1. /\ a \in Seq(Names) /\ Len(a) = i - 1
        /\ \A j \in 1 .. i - 1 : a[j] = s[j]
    OBVIOUS
  <1>2. /\ b \in Seq(Names) /\ Len(b) = Len(s) - i
        /\ \A j \in 1 .. Len(s) - i : b[j] = s[i + j]
    OBVIOUS
  <1> HIDE DEF a, b
  <1>3. /\ r \in Seq(Names) /\ Len(r) = Len(s) - 1
        /\ \A j \in 1 .. Len(r) :
             r[j] = IF j <= i - 1 THEN a[j] ELSE b[j - (i - 1)]
    <2>1. i - 1 \in Nat /\ Len(s) - i \in Nat /\ Len(s) \in Nat /\ i \in Nat
      OBVIOUS
    <2>2. /\ r \in Seq(Names) /\ Len(r) = Len(a) + Len(b)
          /\ \A j \in 1 .. Len(a) + Len(b) :
               r[j] = IF j <= Len(a) THEN a[j] ELSE b[j - Len(a)]
      BY <1>1, <1>2, ConcatProperties
    <2> HIDE DEF r
    <2>3. Len(r) = Len(s) - 1
      BY <1>1, <1>2, <2>1, <2>2
    <2> QED BY <1>1, <1>2, <2>1, <2>2, <2>3
  <1>4. \A j \in 1 .. Len(r) : r[j] = s[IF j < i THEN j ELSE j + 1]
    <2> TAKE j \in 1 .. Len(r)
    <2>1. CASE j < i
      BY <1>1, <1>3, <2>1
    <2>2. CASE ~(j < i)
      <3>1. j - (i - 1) \in 1 .. Len(s) - i /\ i + (j - (i - 1)) = j + 1
        BY <1>3, <2>2
      <3> QED BY <1>2, <1>3, <2>2, <3>1
    <2> QED BY <2>1, <2>2
  <1>5. DOMAIN r = 1 .. Len(r) /\ DOMAIN s = 1 .. Len(s)
    BY <1>3
  <1> HIDE DEF r
  <1>6. IsInjective(r)
    <2> SUFFICES ASSUME NEW j \in 1 .. Len(r), NEW k \in 1 .. Len(r), r[j] = r[k]
                 PROVE  j = k
      BY <1>5 DEF IsInjective
    <2> DEFINE at(n) == IF n < i THEN n ELSE n + 1
    <2>1. at(j) \in DOMAIN s /\ at(k) \in DOMAIN s
      BY <1>3, <1>5
    <2>2. s[at(j)] = s[at(k)]
      BY <1>4
    <2>3. at(j) = at(k)
      BY <2>1, <2>2 DEF IsInjective
    <2> QED BY <2>3
  <1>7. r \in Seq(Names) /\ IsInjective(r)
    BY <1>3, <1>6
  <1> QED BY <1>7 DEF r, a, b

LEMMA AddOne ==
    ASSUME NEW s \in Seq(Names), IsInjective(s), NEW d \in Names, d \notin Range(s)
    PROVE  Append(s, d) \in Seq(Names) /\ IsInjective(Append(s, d))
  <1>1. /\ Append(s, d) \in Seq(Names) /\ Len(Append(s, d)) = Len(s) + 1
        /\ \A j \in 1 .. Len(s) : Append(s, d)[j] = s[j]
        /\ Append(s, d)[Len(s) + 1] = d
        /\ DOMAIN Append(s, d) = 1 .. Len(s) + 1 /\ DOMAIN s = 1 .. Len(s)
    OBVIOUS
  <1>2. \A j \in 1 .. Len(s) : s[j] # d
    BY <1>1 DEF Range
  <1> QED BY <1>1, <1>2 DEF IsInjective

LEMMA ListTypes ==
    ASSUME detectors \in Seq(Names), IsInjective(detectors), [Next]_vars
    PROVE  detectors' \in Seq(Names) /\ IsInjective(detectors')
  <1>1. CASE UNCHANGED detectors
    BY <1>1
  <1>2. ASSUME NEW d \in Names, register(d)
        PROVE  detectors' \in Seq(Names) /\ IsInjective(detectors')
    BY <1>2, AddOne DEF register, Registered
  <1>3. CASE load_defaults
    <2> DEFINE s == Append(detectors, "hollow")
    <2>1. s \in Seq(Names) /\ IsInjective(s)
      BY <1>3, AddOne DEF load_defaults, Registered, Names
    <2>2. "c2" \notin Range(s)
      <3>1. /\ DOMAIN s = 1 .. Len(detectors) + 1
            /\ DOMAIN detectors = 1 .. Len(detectors)
            /\ \A j \in 1 .. Len(detectors) : s[j] = detectors[j]
            /\ s[Len(detectors) + 1] = "hollow"
        OBVIOUS
      <3>2. \A j \in 1 .. Len(detectors) : detectors[j] # "c2"
        BY <1>3, <3>1 DEF load_defaults, Registered, Range
      <3> QED BY <3>1, <3>2 DEF Range
    <2>3. Append(s, "c2") \in Seq(Names) /\ IsInjective(Append(s, "c2"))
      BY <2>1, <2>2, AddOne DEF Names
    <2>4. detectors' = Append(s, "c2")
      BY <1>3 DEF load_defaults
    <2> QED BY <2>3, <2>4
  <1>4. ASSUME NEW d \in Names, unregister(d)
        PROVE  detectors' \in Seq(Names) /\ IsInjective(detectors')
    BY <1>4, WithoutOne DEF unregister
  <1> QED BY <1>1, <1>2, <1>3, <1>4
      DEF Next, Tick, put_event, process, vars, engVars

EngTypeInv == IInv /\ TypeOK

(* What waits was put there by an event that happened, and fits.           *)
LEMMA QueueTypes ==
    ASSUME EngTypeInv, [Next]_vars
    PROVE  /\ now' \in 0 .. Horizon /\ happened' \in 0 .. MaxEvents
           /\ \A i \in 1 .. Len(event_queue') :
                /\ event_queue'[i].id \in 1 .. happened'
                /\ event_queue'[i].what \in EventKinds
           /\ Len(event_queue') <= QueueSize
  <1> DEFINE Goal == /\ now' \in 0 .. Horizon /\ happened' \in 0 .. MaxEvents
                     /\ \A i \in 1 .. Len(event_queue') :
                          /\ event_queue'[i].id \in 1 .. happened'
                          /\ event_queue'[i].what \in EventKinds
                     /\ Len(event_queue') <= QueueSize
  <1>1. /\ QueueSize \in Nat /\ Horizon \in Nat /\ MaxEvents \in Nat
        /\ now \in 0 .. Horizon /\ happened \in 0 .. MaxEvents
        /\ \A i \in 1 .. Len(event_queue) :
             /\ event_queue[i].id \in 1 .. happened
             /\ event_queue[i].what \in EventKinds
        /\ Len(event_queue) <= QueueSize /\ event_queue \in Seq(Queued)
    BY EngineAssumption DEF EngTypeInv, IInv, QueueOK, TypeOK
  <1>2. ASSUME UNCHANGED <<happened, event_queue>>, now' = now \/ Tick
        PROVE  Goal
    BY <1>1, <1>2 DEF Tick
  <1>3. ASSUME NEW e \in EventKinds, put_event(e) PROVE Goal
    <2>1. now' = now /\ happened' = happened + 1 /\ happened' \in 0 .. MaxEvents
      BY <1>1, <1>3 DEF put_event
    <2>2. CASE Len(event_queue) < QueueSize
      <3> DEFINE new == [id |-> happened + 1, what |-> e]
      <3>1. event_queue' = Append(event_queue, new)
        BY <1>3, <2>2 DEF put_event
      <3>2. new \in Queued /\ new.id = happened + 1 /\ new.what = e
        BY <1>1, <1>3 DEF Queued
      <3> HIDE DEF new
      <3>3. /\ Len(event_queue') = Len(event_queue) + 1
            /\ \A i \in 1 .. Len(event_queue) : event_queue'[i] = event_queue[i]
            /\ event_queue'[Len(event_queue) + 1] = new
        BY <1>1, <3>1, <3>2
      <3>4. Len(event_queue) \in Nat
        BY <1>1
      <3>5. ASSUME NEW i \in 1 .. Len(event_queue')
            PROVE  /\ event_queue'[i].id \in 1 .. happened'
                   /\ event_queue'[i].what \in EventKinds
        <4>1. CASE i = Len(event_queue) + 1
          BY <1>1, <1>3, <2>1, <3>2, <3>3, <4>1
        <4>2. CASE i \in 1 .. Len(event_queue)
          BY <1>1, <2>1, <3>3, <4>2
        <4> QED BY <3>3, <3>4, <3>5, <4>1, <4>2
      <3> QED BY <1>1, <2>1, <2>2, <3>3, <3>4, <3>5
    <2>3. CASE ~(Len(event_queue) < QueueSize)
      <3>1. event_queue' = event_queue
        BY <1>3, <2>3 DEF put_event
      <3> QED BY <1>1, <2>1, <3>1
    <2> QED BY <2>2, <2>3
  <1>4. ASSUME process PROVE Goal
    <2>1. UNCHANGED <<now, happened>> /\ event_queue # <<>>
          /\ event_queue' = Tail(event_queue)
      BY <1>4 DEF process
    <2>2. /\ Len(event_queue') = Len(event_queue) - 1 /\ Len(event_queue) \in Nat
          /\ \A i \in 1 .. Len(event_queue') : event_queue'[i] = event_queue[i + 1]
      BY <1>1, <2>1
    <2> QED BY <1>1, <2>1, <2>2
  <1>5. ASSUME NEW d \in Names, register(d) \/ unregister(d) PROVE Goal
    <2>1. UNCHANGED <<happened, event_queue>> /\ now' = now
      BY <1>5 DEF register, unregister
    <2> QED BY <1>2, <2>1
  <1>6. CASE load_defaults
    BY <1>2, <1>6 DEF load_defaults
  <1>7. CASE UNCHANGED vars
    BY <1>2, <1>7 DEF vars, engVars
  <1>8. CASE Tick
    BY <1>2, <1>8 DEF Tick
  <1> QED BY <1>3, <1>4, <1>5, <1>6, <1>7, <1>8 DEF Next

LEMMA GivenTypes ==
    ASSUME EngTypeInv, [Next]_vars
    PROVE  given' \in [{"c2", "hollow"} -> SUBSET Nat]
  <1>1. given \in [{"c2", "hollow"} -> SUBSET Nat]
    BY DEF EngTypeInv, TypeOK
  <1>2. CASE UNCHANGED given
    BY <1>1, <1>2
  <1>3. CASE load_defaults \/ \E d \in Names : register(d)
    BY <1>1, <1>3 DEF load_defaults, register
  <1>4. CASE process
    <2>1. event_queue \in Seq(Queued) /\ event_queue # <<>>
      BY <1>4 DEF EngTypeInv, IInv, QueueOK, process
    <2>2. Head(event_queue) \in Queued
      BY <2>1
    <2>3. Head(event_queue).id \in Nat
      BY <2>2 DEF Queued
    <2> QED BY <1>1, <1>4, <2>3 DEF process
  <1> QED BY <1>2, <1>3, <1>4 DEF Next, Tick, put_event, unregister, vars, engVars

(* The records of the engine stay well-formed: no event waits that did not *)
(* happen, no more wait than the queue holds, and a detector is in the     *)
(* list once.                                                              *)
THEOREM EngineTypeCorrect == Spec => []TypeOK
<1>1. Init => EngTypeInv
  <2> SUFFICES ASSUME Init PROVE EngTypeInv
    OBVIOUS
  <2>1. IInv
    BY InitInv
  <2>2. /\ now \in 0 .. Horizon /\ happened \in 0 .. MaxEvents
        /\ given \in [{"c2", "hollow"} -> SUBSET Nat]
    BY EngineAssumption DEF Init
  <2>3. event_queue = <<>> /\ Len(event_queue) <= QueueSize
    BY EngineAssumption DEF Init
  <2>4. detectors \in Seq(Names) /\ IsInjective(detectors)
    BY DEF Init, IsInjective
  <2> QED BY <2>1, <2>2, <2>3, <2>4 DEF EngTypeInv, IInv, TypeOK
<1>2. EngTypeInv /\ [Next]_vars => EngTypeInv'
  <2> SUFFICES ASSUME EngTypeInv, [Next]_vars PROVE EngTypeInv'
    OBVIOUS
  <2>1. IInv'
    BY NextInv DEF EngTypeInv
  <2>2. detectors' \in Seq(Names) /\ IsInjective(detectors')
    BY ListTypes DEF EngTypeInv, TypeOK
  <2> QED BY <2>1, <2>2, QueueTypes, GivenTypes DEF EngTypeInv, IInv, TypeOK
<1>3. EngTypeInv => TypeOK
  BY DEF EngTypeInv
<1> QED BY <1>1, <1>2, <1>3, PTL DEF Spec

(* A registered detector has taken in every event of its kind that the     *)
(* engine was given, whoever raised meanwhile.                             *)
THEOREM NoEventSkippedHolds == Spec => []NoEventSkipped
<1>1. IInv => NoEventSkipped
  BY DEF IInv
<1> QED BY <1>1, InitInv, NextInv, PTL DEF Spec

(* The engine implements the environment of the C2 detector: fresh ids,    *)
(* times that do not run backwards, new instances (detector_engine.py:59,  *)
(* 87; c2_beacon_detector.py:89).                                          *)
THEOREM ImplementsC2 == Spec => C2Spec
<1>1. Init => C2Init
  BY DEF Init
<1> QED BY <1>1, InitInv, NextInv, PTL DEF Spec, C2Spec

(* And the one of the hollowing detector.                                  *)
THEOREM ImplementsHollowing == Spec => PHSpec
<1>1. Init => PHInit
  BY DEF Init
<1> QED BY <1>1, InitInv, NextInv, PTL DEF Spec, PHSpec

(* Hence, in the engine, exactly the beaconing pairs are alerted.          *)
THEOREM EngineAlertedIsExact == Spec => []AlertedIsExact
BY ImplementsC2, AlertedIsExactHolds, PTL

(* Hence, in the engine, alerts are raised on crossing the threshold only. *)
THEOREM EngineAlertsOnCrossing == Spec => []AlertsOnCrossing
BY ImplementsC2, AlertsOnCrossingHolds, PTL

(* Hence, in the engine, an alert is raised for exactly the threads that   *)
(* follow a write into the same target within the window.                  *)
THEOREM EngineInjectionsAreFound == Spec => []InjectionsAreFound
BY ImplementsHollowing, InjectionsAreFoundHolds, PTL
(* Hence, in the engine, an alert of a pair is not repeated within a       *)
(* window that still holds all the earlier one counted.                    *)
THEOREM EngineAlertsAreApart == Spec => []AlertsAreApart
BY ImplementsC2, AlertsAreApartHolds, PTL

(* Hence, in the engine, the hollowing detector's stores hold the window.  *)
THEOREM EngineStoresHoldTheWindow == Spec => []StoresHoldTheWindow
BY ImplementsHollowing, StoresHoldTheWindowHolds, PTL
=============================================================================
