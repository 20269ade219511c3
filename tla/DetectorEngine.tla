--------------------------- MODULE DetectorEngine ---------------------------
(***************************************************************************)
(* core/detector_engine.py, class DetectorEngine, between the event queue  *)
(* of TraceSession and the two detectors that keep state.  The hooks put   *)
(* events into the queue as they happen; the consumer loop takes one when  *)
(* it comes to it and runs it through the registered detectors, in order.  *)
(* "custom" is a detector of the caller's, which may raise (external).     *)
(*                                                                         *)
(* Time is counted in steps of the detectors' windows; the bounds Horizon  *)
(* and MaxEvents end the model, not the program.                           *)
(***************************************************************************)
EXTENDS C2Beacon, ProcessHollowing, Sequences, Functions

CONSTANTS
    QueueSize,   \* event_queue_maxsize
    Horizon,     \* bound on the clock
    MaxEvents    \* bound on the events that happen

ASSUME EngineAssumption == {QueueSize, Horizon, MaxEvents} \subseteq Nat

VARIABLES
    now,         \* external: time.monotonic()
    happened,    \* history: how many events have happened; they are the ids
    event_queue, \* TraceSession._event_queue
    detectors,   \* self._detectors, by name
    given        \* history: ids handed to process() per detector instance

engVars == <<now, happened, event_queue, detectors, given>>
vars == <<c2Vars, phVars, engVars>>

Names == {"c2", "hollow", "custom"}

(* What a hook reports.  A connection may come without a parsed address.   *)
EventKinds ==
    [kind : {"CONNECTED"}, pair : Pairs]
      \union [kind : {"UNPARSED", "VIRTUAL_ALLOC_EX"}]
      \union [kind : {"WRITE_PROCESS_MEMORY", "CREATE_REMOTE_THREAD"},
              pid : SourcePids, target : Targets]

TypeOK ==
    /\ C2TypeOK /\ PHTypeOK
    /\ now \in 0 .. Horizon
    /\ happened \in 0 .. MaxEvents
    /\ \A i \in 1 .. Len(event_queue) :
         event_queue[i].id \in 1 .. happened /\ event_queue[i].what \in EventKinds
    /\ Len(event_queue) <= QueueSize
    /\ detectors \in Seq(Names) /\ IsInjective(detectors)
    /\ given \in [{"c2", "hollow"} -> SUBSET Nat]

Init ==
    /\ C2Init /\ PHInit
    /\ now = 0
    /\ happened = 0
    /\ event_queue = <<>>
    /\ detectors = <<>>
    /\ given = [d \in {"c2", "hollow"} |-> {}]

-----------------------------------------------------------------------------
Tick ==
    /\ now < Horizon
    /\ now' = now + 1
    /\ UNCHANGED <<c2Vars, phVars, happened, event_queue, detectors, given>>

(* Mutant: the queue grows beyond its size.                                *)
put_event_unbounded(e) ==
    /\ happened < MaxEvents
    /\ happened' = happened + 1
    /\ event_queue' = Append(event_queue, [id |-> happened + 1, what |-> e])
    /\ UNCHANGED <<c2Vars, phVars, now, detectors, given>>

(* An event happens; put_nowait loses it when the queue is full.           *)
put_event(e) ==
    /\ happened < MaxEvents
    /\ happened' = happened + 1
    /\ event_queue' = IF Len(event_queue) < QueueSize
                        THEN Append(event_queue, [id |-> happened + 1, what |-> e])
                        ELSE event_queue
    /\ UNCHANGED <<c2Vars, phVars, now, detectors, given>>

Registered(d) == d \in Range(detectors)

(* register() of a new instance.                                           *)
register(d) ==
    /\ ~Registered(d)
    /\ detectors' = Append(detectors, d)
    /\ IF d = "c2" THEN c2_new ELSE UNCHANGED c2Vars
    /\ IF d = "hollow" THEN ph_new ELSE UNCHANGED phVars
    /\ given' = [x \in {"c2", "hollow"} |-> IF x = d THEN {} ELSE given[x]]
    /\ UNCHANGED <<now, happened, event_queue>>

(* load_defaults(), as far as detectors with a state go.                   *)
load_defaults ==
    /\ ~Registered("c2") /\ ~Registered("hollow")
    /\ detectors' = detectors \o <<"hollow", "c2">>
    /\ c2_new /\ ph_new
    /\ given' = [x \in {"c2", "hollow"} |-> {}]
    /\ UNCHANGED <<now, happened, event_queue>>

(* unregister(): the instance is gone.  A name is there once, so what the  *)
(* filter (detector_engine.py:81) leaves is the list without one entry.    *)
unregister(d) ==
    /\ \E i \in 1 .. Len(detectors) :
         /\ detectors[i] = d
         /\ detectors' = SubSeq(detectors, 1, i - 1)
                            \o SubSeq(detectors, i + 1, Len(detectors))
    /\ UNCHANGED <<c2Vars, phVars, now, happened, event_queue, given>>

(* Mutant: the exception of a detector ends the loop over the detectors.   *)
Called_until(d, raised) ==
    \E i \in 1 .. Len(detectors) :
        detectors[i] = d /\ \A j \in 1 .. i - 1 : detectors[j] \notin raised

(* Which detectors the loop reaches: every one, whoever raised before.     *)
Called(d, raised) == Registered(d)

(* handles() and process() of each detector.                               *)
run_c2(e, id) ==
    CASE e.kind = "CONNECTED" -> c2_process(e.pair, now, id)
      [] e.kind = "UNPARSED" -> c2_unparsed(now)
      [] OTHER -> UNCHANGED c2Vars

run_hollow(e, id) ==
    CASE e.kind = "WRITE_PROCESS_MEMORY" -> ph_write(e.pid, e.target, now, id)
      [] e.kind = "CREATE_REMOTE_THREAD" -> ph_thread(e.pid, e.target, now, id)
      [] e.kind = "VIRTUAL_ALLOC_EX" -> ph_other(now)
      [] OTHER -> UNCHANGED phVars

(* The events a detector has to remember.                                  *)
Kept == [c2 |-> {"CONNECTED"},
         hollow |-> {"WRITE_PROCESS_MEMORY", "CREATE_REMOTE_THREAD"}]

(* One round of the consumer loop: get_event(), engine.process(event).     *)
process ==
    /\ event_queue # <<>>
    /\ event_queue' = Tail(event_queue)
    /\ LET e == Head(event_queue).what
           id == Head(event_queue).id IN
       /\ \E raised \in SUBSET (Range(detectors) \intersect {"custom"}) :
            /\ IF Called("c2", raised) THEN run_c2(e, id) ELSE UNCHANGED c2Vars
            /\ IF Called("hollow", raised) THEN run_hollow(e, id)
                                           ELSE UNCHANGED phVars
       /\ given' = [d \in {"c2", "hollow"} |->
                      IF Registered(d) /\ e.kind \in Kept[d]
                        THEN given[d] \union {id} ELSE given[d]]
    /\ UNCHANGED <<now, happened, detectors>>

Next ==
    \/ Tick
    \/ \E e \in EventKinds : put_event(e)
    \/ \E d \in Names : register(d)
    \/ load_defaults
    \/ \E d \in Names : unregister(d)
    \/ process

Spec == Init /\ [][Next]_vars
-----------------------------------------------------------------------------
(* "A crash in one does NOT kill the others" (detector_engine.py:10): a    *)
(* registered detector has taken in every event of its kind that the       *)
(* engine was given, although another detector raised on some of them.     *)
NoEventSkipped ==
    /\ given["c2"] = {c.id : c \in UNION {c2_log[k] : k \in Pairs}}
    /\ given["hollow"] =
         {c.id : c \in UNION {ph_log[p] \union ph_threads[p] : p \in SourcePids}}
=============================================================================
