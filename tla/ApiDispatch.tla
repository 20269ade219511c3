----------------------------- MODULE ApiDispatch -----------------------------
(***************************************************************************)
(* core/debug_thread.py, _handle_api_hook from the thread's context to     *)
(* _resume_from_hook, and the way of an event on to the two detectors that *)
(* judge calls through handles: ProcessHollowing, which correlates writes  *)
(* and threads by their target, and RegistryPersistence.                   *)
(*                                                                         *)
(* A handle value means something only in the table of the process that    *)
(* owns it.  The hooks see the values of the debugged process and ask the  *)
(* kernel what they are from the process of BX2TRACE, so the model has one *)
(* table per process, BX2TRACE's own included, over the same values.       *)
(*                                                                         *)
(* Horizon, MaxCalls and Opened bound the model, not the program.          *)
(***************************************************************************)
EXTENDS ApiBranches, ProcessHollowing, RegistryPersistence

CONSTANTS
    Others,     \* processes that are opened by the debugged ones
    Debugger,   \* the process BX2TRACE runs in
    Handles,    \* handle values
    Self,       \* the pseudo-handle GetCurrentProcess returns
    Roots,      \* predefined keys, constants._HKEY_NAMES
    Keys,       \* other registry keys, by path
    None,
    Opened,     \* the objects each process opens
    QueueSize, Horizon, MaxCalls

Pids == SourcePids \union Others \union {Debugger}
Owners == SourcePids \union {Debugger}
HandleValues == Handles \union {Self} \union Roots
Objects == Pids \union Keys

ASSUME DispatchAssumption ==
    /\ Targets = Pids \union HandleValues
    /\ KeyPaths = Keys \union HandleValues
    /\ Objects \intersect HandleValues = {} /\ Pids \intersect Keys = {}
    /\ Handles \intersect ({Self} \union Roots) = {} /\ Self \notin Roots
    /\ None \notin Objects \union HandleValues
    /\ Opened \in [Owners -> SUBSET Objects]
    /\ QueueSize \in Nat \ {0}

VARIABLES
    table,       \* external: the handle table of each process
    now,         \* external: time.monotonic()
    event_queue, \* TraceSession._event_queue
    calls,       \* history: the calls through handles, in order
    taken,       \* history: ids of the events the detectors have been given
    rp_alerts,   \* history: the alerts of RegistryPersistence
    handled      \* history: the call the loop has just handled

dispatchVars == <<table, now, event_queue, calls, taken, rp_alerts, handled>>
vars == <<phVars, dispatchVars>>

Injections == {"VirtualAllocEx", "WriteProcessMemory", "CreateRemoteThread"}
HandleApis == Injections \union {"RegSetValueEx"}

(* What a handle value is to a process.                                    *)
Denotes(owner, h) ==
    CASE h = Self -> owner
      [] h \in Handles -> table[owner][h]
      [] OTHER -> None

-----------------------------------------------------------------------------
(* GetProcessId and NtQueryKey are called in BX2TRACE's process.           *)
get_pid_from_handle(h) ==
    LET object == Denotes(Debugger, h) IN
    IF object \in Pids THEN object ELSE None

(* A predefined root by its name; hex(hkey) where the query fails, which   *)
(* is a text of its own for each value.                                    *)
resolve_registry_key_path(h) ==
    LET object == Denotes(Debugger, h) IN
    IF object \in Keys THEN object ELSE h

(* Mutant: the thread's branch does not look up the target's pid.          *)
details_unresolved(api, h) ==
    [target_handle |-> h,
     target_pid |-> IF api = "CreateRemoteThread" THEN None
                      ELSE get_pid_from_handle(h)]

(* The payloads of a call through a handle, as far as detectors read them: *)
(* of a call into a process, and of a value written into a key.            *)
details(api, h) ==
    [target_handle |-> h, target_pid |-> get_pid_from_handle(h)]

registry_details(h) == [key_path |-> resolve_registry_key_path(h)]

(* The detector's key: "target_pid or target_handle".                      *)
target_key(d) == IF d.target_pid # None THEN d.target_pid ELSE d.target_handle

(* An event of one of n calls, as far as it is read.                       *)
Queued(n) == [id : 1 .. n, target_key : Targets, key_path : KeyPaths]

TypeOK ==
    /\ PHTypeOK
    /\ table \in [Owners -> [Handles -> Objects \union {None}]]
    /\ now \in Nat
    /\ calls \in Seq([pid : SourcePids, api : HandleApis, handle : HandleValues,
                      value : ValueNames \union {None}, object : Objects \union {None},
                      shown : Objects \union {None}])
    /\ event_queue \in Seq(Queued(Len(calls)))
    /\ Len(event_queue) <= QueueSize
    /\ taken \in SUBSET (1 .. Len(calls))
    /\ rp_alerts \in SUBSET [id : 1 .. Len(calls), matched_path : Paths,
                             severity : {"HIGH", "CRITICAL", "SUSPICIOUS"}]

(* A call: what its arguments show, what the branch sees of that, whether  *)
(* the thread's context could be had, and what is reported.                *)
Handled(api, shows, seen, context, events) ==
    [api |-> api, shows |-> shows, seen |-> seen, context |-> context,
     events |-> events]

(* The step was not one of the loop.                                       *)
Nothing == Handled("CreateMutex", {}, {}, FALSE, <<>>)

Init ==
    /\ PHInit
    /\ table = [p \in Owners |-> [h \in Handles |-> None]]
    /\ now = 0
    /\ event_queue = <<>> /\ calls = <<>> /\ taken = {} /\ rp_alerts = {}
    /\ handled = Nothing

-----------------------------------------------------------------------------
Tick ==
    /\ now < Horizon
    /\ now' = now + 1
    /\ handled' = Nothing
    /\ UNCHANGED <<phVars, table, event_queue, calls, taken, rp_alerts>>

(* OpenProcess, RegOpenKeyEx, CloseHandle, in any process.                 *)
Reopen(owner, h) ==
    /\ \E object \in Opened[owner] \union {None} :
         table' = [table EXCEPT ![owner][h] = object]
    /\ handled' = Nothing
    /\ UNCHANGED <<phVars, now, event_queue, calls, taken, rp_alerts>>

(* OpenThread or GetThreadContext refuses: nothing is read or reported.    *)
(* Bound, here and in handle_api_hook: only before the first call through  *)
(* a handle, which neither can touch.                                      *)
Refused(api) ==
    /\ calls = <<>>
    /\ handled' = Handled(api, {}, {}, FALSE, <<>>)
    /\ UNCHANGED <<phVars, table, now, event_queue, calls, taken, rp_alerts>>

(* A branch that asks nothing of handles: its events have no reader here.  *)
handle_api_hook(api) ==
    /\ calls = <<>>
    /\ \E shows \in Shows(api) : \E seen \in Views(api, shows) :
         handled' = Handled(api, shows, seen, TRUE, Emitted(api, seen))
    /\ UNCHANGED <<phVars, table, now, event_queue, calls, taken, rp_alerts>>

(* Mutant: the queue grows beyond its size.                                *)
put_event_unbounded(e) == event_queue' = Append(event_queue, e)

(* put_nowait: a full queue loses the event.                               *)
put_event(e) ==
    event_queue' = IF Len(event_queue) < QueueSize THEN Append(event_queue, e)
                                                   ELSE event_queue

(* A branch that looks up a handle of the process that called.             *)
handle_call(p, api, h, value) ==
    LET d == details(api, h) IN
    /\ Len(calls) < MaxCalls
    /\ calls' = Append(calls, [pid |-> p, api |-> api, handle |-> h,
                               value |-> value, object |-> Denotes(p, h),
                               shown |-> Denotes(Debugger, h)])
    /\ put_event([id |-> Len(calls) + 1, target_key |-> target_key(d),
                  key_path |-> registry_details(h).key_path])
    /\ handled' = Handled(api, {}, {}, TRUE, Emitted(api, {}))
    /\ UNCHANGED <<phVars, table, now, taken, rp_alerts>>

(* One round of the consumer loop, with the default detectors.             *)
process ==
    LET e == Head(event_queue)
        call == calls[e.id]
    IN
    /\ event_queue # <<>>
    /\ event_queue' = Tail(event_queue)
    /\ taken' = taken \union {e.id}
    /\ CASE call.api = "WriteProcessMemory" ->
              ph_write(call.pid, e.target_key, now, e.id)
         [] call.api = "CreateRemoteThread" ->
              ph_thread(call.pid, e.target_key, now, e.id)
         [] call.api = "VirtualAllocEx" -> ph_other(now)
         [] OTHER -> UNCHANGED phVars
    /\ LET alerts == rp_process(e.key_path, call.value) IN
       IF call.api = "RegSetValueEx" /\ alerts # {}
         THEN \E a \in alerts :
                rp_alerts' = rp_alerts \union
                  {[id |-> e.id, matched_path |-> a.matched_path,
                    severity |-> a.severity]}
         ELSE UNCHANGED rp_alerts
    /\ handled' = Nothing
    /\ UNCHANGED <<table, now, calls>>

Next ==
    \/ Tick
    \/ \E owner \in Owners : \E h \in Handles : Reopen(owner, h)
    \/ \E api \in Apis : Refused(api) \/ handle_api_hook(api)
    \/ \E p \in SourcePids : \E h \in HandleValues :
         \/ \E api \in Injections : handle_call(p, api, h, None)
         \/ \E v \in ValueNames : handle_call(p, "RegSetValueEx", h, v)
    \/ process

Spec == Init /\ [][Next]_vars
-----------------------------------------------------------------------------
(* Every call whose context could be had is reported by one event, and so  *)
(* resumed once, whatever could not be read of it; any other is neither    *)
(* (debug_thread.py:526-1580).  A second resume would mark a step for a    *)
(* byte that is no longer planted.                                         *)
ReportedOnce == Len(handled.events) = IF handled.context THEN 1 ELSE 0

RankOf(event) == Rank[event.severity]

(* A sign that was read counts in full, whatever else was read or not: the *)
(* order in which a branch tests its signs hides none behind a milder one. *)
(* And what was not read is never held against a call for more than the    *)
(* branch presumes (an unread show_cmd is a hidden window, an unread path  *)
(* one outside of system32, so that reading them may well lower a          *)
(* severity; debug_thread.py:864-1562).                                    *)
GradedByEvidence ==
    \A i \in 1 .. Len(handled.events) :
        LET rank == RankOf(handled.events[i])
            api == handled.api
            feared == handled.shows \union SignsOf(Presumed, api)
        IN  /\ \A read \in SUBSET (handled.shows \intersect handled.seen) :
                   RankOf(Emitted(api, read)[1]) <= rank
            /\ rank <= RankOf(Emitted(api, feared)[1])

(* The writes that the detector knows of when it judges a thread.          *)
WritesBefore(p, t) ==
    {w \in ph_log[p] : w.id < t.id /\ t.ts <= w.ts + HollowWindow}

(* A thread that is started through the handle value of an earlier write   *)
(* raises an alert, whether or not GetProcessId knows the value, as long   *)
(* as it is the same to BX2TRACE at both calls (debug_thread.py:939-992,   *)
(* process_hollow_detector.py:80-103).                                     *)
SameHandleCorrelates ==
    \A p \in SourcePids : \A t \in ph_threads[p] : \A w \in WritesBefore(p, t) :
        /\ calls[w.id].handle = calls[t.id].handle
        /\ calls[w.id].shown = calls[t.id].shown
        => t.id \in ph_alerts

(* What BX2TRACE was shown of a call is what its handle is to the caller.  *)
TrulyShown(call) == call.shown = call.object

(* The key the caller writes into.                                         *)
Written(call) == IF call.object \in Keys THEN call.object ELSE call.handle

Tier == [CRITICAL |-> CriticalPaths, HIGH |-> HighPaths,
         SUSPICIOUS |-> PersistenceKeys]

(* One alert of the gravest tier of the known paths found, and none where  *)
(* none is found.                                                          *)
Graded(found, alerts) ==
    IF found = {} THEN alerts = {}
      ELSE \E a \in alerts :
             /\ alerts = {a} /\ a.matched_path \in found \intersect Tier[a.severity]
             /\ \A graver \in DOMAIN Tier :
                  Rank[a.severity] < Rank[graver] => found \intersect Tier[graver] = {}

(* A value written under a known path raises one alert, for a path of the  *)
(* gravest tier that occurs and with the severity of that tier, in         *)
(* whatever order Python iterates over the tables                          *)
(* (registry_persistence_detector.py:79-134), where NtQueryKey is shown    *)
(* the caller's key.  Where the handle names another key or none in        *)
(* BX2TRACE's own table, nothing is claimed: a write under an opened Run   *)
(* key then raises no alert, or one about the other key.                   *)
PersistenceIsGraded ==
    \A id \in taken :
        calls[id].api = "RegSetValueEx" /\ TrulyShown(calls[id]) =>
          Graded(Occurring(Written(calls[id]), calls[id].value),
                 {a \in rp_alerts : a.id = id})

(* "handle-based correlation would miss the match"                         *)
(* (process_hollow_detector.py:18): threads are correlated with writes     *)
(* into the same process, through whatever handles.                        *)
VictimsCorrelate ==
    \A p \in SourcePids : \A t \in ph_threads[p] :
        calls[t.id].object \in Pids =>
          (t.id \in ph_alerts
             <=> \E w \in WritesBefore(p, t) : calls[w.id].object = calls[t.id].object)
=============================================================================
