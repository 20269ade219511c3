---------------------------- MODULE DebugThread ----------------------------
(***************************************************************************)
(* core/debug_thread.py, class DebugThread: the Windows debug-event loop,  *)
(* the set of tracked processes, and the life of an INT3 hook: planted,    *)
(* hit, lifted for one single step, planted again.                         *)
(*                                                                         *)
(* External: the threads of the debugged processes and the Windows debug   *)
(* port, as _handle_event and _resume_from_hook rely on them.  A thread    *)
(* that posts a debug event waits for ContinueDebugEvent, and its process  *)
(* is frozen meanwhile; only a thread that was already executing its own   *)
(* trap may still post it.  A thread has at most one event outstanding, so *)
(* the port is the function "event"; events of different threads may be    *)
(* delivered in any order.  Since the process is frozen, the handling of   *)
(* one event is one step.  Trace events are left out here: _put_event      *)
(* neither blocks nor raises.                                              *)
(***************************************************************************)
EXTENDS HookManager, FiniteSets

CONSTANTS
    Tids,        \* Windows thread ids: global, and reused after an exit
    Dlls,        \* the DLLs that APIS_TO_HOOK names
    DllOf,       \* the DLL of each address
    InitialDlls, \* those mapped when a process is created (ntdll)
    RootPid,     \* the process the session launched
    RootTid,     \* its initial thread
    MaxTracked,  \* max_tracked_processes
    NoPid, NoAddr, NoDll,
    Adversity    \* what may happen: a subset of AllAdversity

AllAdversity ==
    {"OpenThread",    \* OpenThread or GetThreadContext fails
     "SetContext",    \* SetThreadContext fails
     "GetThreadId",   \* GetThreadId fails, on the handle just opened
     "Patch",         \* a call inside apply_hook or remove_hook fails, or
                      \* the path of a DLL is unknown
     "Simultaneous",  \* two threads of a process trap at once
     "OwnStep",       \* single steps the hooks did not ask for
     "KillMidStep",   \* a thread is killed with the trap flag set
     "Unload",        \* FreeLibrary, and a later LoadLibrary
     "PidReuse"}      \* a new process gets the id of one that ended

ASSUME DebugAssumption ==
    /\ DllOf \in [Addrs -> Dlls]
    /\ InitialDlls \subseteq Dlls
    /\ RootPid \in Pids
    /\ RootTid \in Tids
    /\ NoPid \notin Pids /\ NoAddr \notin Addrs /\ NoDll \notin Dlls
    /\ MaxTracked \in Nat
    /\ Adversity \subseteq AllAdversity

Pcs == {"out", "new", "run", "entry", "misaligned", "seh", "seh_bp", "seh_step"}

Events == {"none", "CREATE_PROCESS", "CREATE_THREAD", "EXIT_THREAD",
           "EXIT_PROCESS", "LOAD_DLL", "UNLOAD_DLL", "OUTPUT_DEBUG_STRING",
           "BREAKPOINT", "SINGLE_STEP", "EXCEPTION"}

VARIABLES
    loop,                 \* run(): "wait" in the loop, "ended" after _cleanup
    stop_event,           \* self._stop_event
    tracked,              \* the keys of self.tracked
    pending_single_steps, \* self.pending_single_steps; NoAddr for no entry
    proc,                 \* external: the process of each thread, or NoPid
    pc,                   \* external: where the thread is, one of Pcs
    at,                   \* external: the API it is entering or stepping over
    tf,                   \* external: its trap flag
    event,                \* external: its outstanding debug event
    arg,                  \* external: the DLL a LOAD_DLL event names
    born                  \* external: the process ids used so far

dbgVars == <<loop, stop_event, tracked, pending_single_steps>>
thrVars == <<proc, pc, at, tf>>
extVars == <<proc, pc, at, tf, event, arg, born>>
vars == <<hmVars, dbgVars, extVars>>

TypeOK ==
    /\ HMTypeOK
    /\ loop \in {"wait", "ended"}
    /\ stop_event \in BOOLEAN
    /\ tracked \in SUBSET Pids
    /\ pending_single_steps \in [Tids -> Addrs \union {NoAddr}]
    /\ proc \in [Tids -> Pids \union {NoPid}]
    /\ pc \in [Tids -> Pcs]
    /\ at \in [Tids -> Addrs \union {NoAddr}]
    /\ tf \in [Tids -> BOOLEAN]
    /\ event \in [Tids -> Events]
    /\ arg \in [Tids -> Dlls \union {NoDll}]
    /\ born \in SUBSET Pids

(* run() after create_process_debug: the root is tracked before its first  *)
(* event, CREATE_PROCESS, is delivered.                                    *)
Init ==
    /\ hooks = [k \in Keys |-> NoHook]
    /\ api_names = {}
    /\ code = [k \in Keys |-> IF k[1] = RootPid /\ DllOf[k[2]] \in InitialDlls
                                THEN OwnByte[k[2]] ELSE Unmapped]
    /\ loop = "wait"
    /\ stop_event = FALSE
    /\ tracked = {RootPid}
    /\ pending_single_steps = [t \in Tids |-> NoAddr]
    /\ proc = [t \in Tids |-> IF t = RootTid THEN RootPid ELSE NoPid]
    /\ pc = [t \in Tids |-> IF t = RootTid THEN "run" ELSE "out"]
    /\ at = [t \in Tids |-> NoAddr]
    /\ tf = [t \in Tids |-> FALSE]
    /\ event = [t \in Tids |-> IF t = RootTid THEN "CREATE_PROCESS" ELSE "none"]
    /\ arg = [t \in Tids |-> NoDll]
    /\ born = {RootPid}

-----------------------------------------------------------------------------
(* The debugged processes.                                                 *)

Frozen(p) == \E t \in Tids : proc[t] = p /\ event[t] # "none"

CanRun(t) ==
    /\ loop = "wait" /\ proc[t] # NoPid /\ pc[t] # "new"
    /\ ~Frozen(proc[t])

CanTrap(t) ==
    /\ loop = "wait" /\ proc[t] # NoPid /\ event[t] = "none"
    /\ Frozen(proc[t]) => "Simultaneous" \in Adversity

Working(t) == CanRun(t) /\ pc[t] = "run" /\ ~tf[t]

Here(t) == code[<<proc[t], at[t]>>]

Post(t, e) == event' = [event EXCEPT ![t] = e]

(* A thread calls an API: its next instruction is the one at the entry.    *)
CallApi(t, a) ==
    /\ Working(t) /\ code[<<proc[t], a>>] # Unmapped
    /\ pc' = [pc EXCEPT ![t] = "entry"]
    /\ at' = [at EXCEPT ![t] = a]
    /\ UNCHANGED <<hmVars, dbgVars, proc, tf, event, arg, born>>

(* It meets an INT3 there.                                                 *)
Trap(t) ==
    /\ CanTrap(t) /\ pc[t] = "entry" /\ Here(t) = INT3
    /\ Post(t, "BREAKPOINT")
    /\ UNCHANGED <<hmVars, dbgVars, thrVars, arg, born>>

(* It executes the API's own instruction, and no flag stops it after.      *)
Enter(t) ==
    /\ CanRun(t) /\ pc[t] = "entry" /\ ~tf[t] /\ Here(t) \notin {INT3, Unmapped}
    /\ pc' = [pc EXCEPT ![t] = "run"]
    /\ at' = [at EXCEPT ![t] = NoAddr]
    /\ UNCHANGED <<hmVars, dbgVars, proc, tf, event, arg, born>>

(* It executes one instruction under the trap flag.                        *)
SingleStep(t) ==
    /\ CanTrap(t) /\ tf[t]
    /\ \/ pc[t] = "entry" /\ Here(t) \notin {INT3, Unmapped}
       \/ pc[t] \in {"run", "misaligned"}
    /\ tf' = [tf EXCEPT ![t] = FALSE]
    /\ pc' = [pc EXCEPT ![t] = IF pc[t] = "misaligned" THEN "misaligned" ELSE "run"]
    /\ Post(t, "SINGLE_STEP")
    /\ UNCHANGED <<hmVars, dbgVars, proc, at, arg, born>>

(* A thread resumed one byte past an INT3 runs from inside an instruction: *)
(* it faults or it happens to survive.                                     *)
Stray(t) ==
    /\ CanRun(t) /\ pc[t] = "misaligned" /\ ~tf[t]
    /\ pc' = [pc EXCEPT ![t] = "run"]
    /\ at' = [at EXCEPT ![t] = NoAddr]
    /\ \E e \in {"none", "EXCEPTION"} : Post(t, e)
    /\ UNCHANGED <<hmVars, dbgVars, proc, tf, arg, born>>

(* Exceptions and strings of the program's own, and single steps of its    *)
(* own or of a hardware breakpoint.                                        *)
Raise(t) ==
    /\ Working(t)
    /\ \E e \in {"EXCEPTION", "OUTPUT_DEBUG_STRING"} : Post(t, e)
    /\ UNCHANGED <<hmVars, dbgVars, thrVars, arg, born>>

OwnStep(t) ==
    /\ Working(t) /\ "OwnStep" \in Adversity
    /\ Post(t, "SINGLE_STEP")
    /\ UNCHANGED <<hmVars, dbgVars, thrVars, arg, born>>

(* The program's exception handler ran and the thread goes on; a trap flag *)
(* saved with the exception's context is still set.                        *)
Handler(t) ==
    /\ CanRun(t) /\ pc[t] \in {"seh", "seh_bp", "seh_step"}
    /\ pc' = [pc EXCEPT ![t] = "run"]
    /\ at' = [at EXCEPT ![t] = IF tf[t] THEN at[t] ELSE NoAddr]
    /\ UNCHANGED <<hmVars, dbgVars, proc, tf, event, arg, born>>

CreateThread(t, u) ==
    /\ Working(t) /\ proc[u] = NoPid
    /\ proc' = [proc EXCEPT ![u] = proc[t]]
    /\ pc' = [pc EXCEPT ![u] = "run"]
    /\ Post(u, "CREATE_THREAD")
    /\ UNCHANGED <<hmVars, dbgVars, at, tf, arg, born>>

(* A child process exists from here on, but CREATE_PROCESS is only posted  *)
(* when its first thread runs.                                             *)
CreateProcess(t, u, p) ==
    /\ Working(t) /\ proc[u] = NoPid
    /\ \A v \in Tids : proc[v] # p
    /\ p \in born => "PidReuse" \in Adversity
    /\ proc' = [proc EXCEPT ![u] = p]
    /\ pc' = [pc EXCEPT ![u] = "new"]
    /\ born' = born \union {p}
    /\ MapImage({k \in Keys : k[1] = p /\ DllOf[k[2]] \in InitialDlls})
    /\ UNCHANGED <<dbgVars, at, tf, event, arg>>

StartProcess(u) ==
    /\ loop = "wait" /\ proc[u] # NoPid /\ pc[u] = "new"
    /\ pc' = [pc EXCEPT ![u] = "run"]
    /\ Post(u, "CREATE_PROCESS")
    /\ UNCHANGED <<hmVars, dbgVars, proc, at, tf, arg, born>>

Apis(p, D) == {k \in Keys : k[1] = p /\ DllOf[k[2]] \in D}

LoadDll(t, d) ==
    /\ Working(t) /\ \A k \in Apis(proc[t], {d}) : code[k] = Unmapped
    /\ MapImage(Apis(proc[t], {d}))
    /\ Post(t, "LOAD_DLL")
    /\ arg' = [arg EXCEPT ![t] = d]
    /\ UNCHANGED <<dbgVars, thrVars, born>>

(* Not while a thread is inside it, and never ntdll.                       *)
UnloadDll(t, d) ==
    /\ Working(t) /\ "Unload" \in Adversity /\ d \notin InitialDlls
    /\ \E k \in Apis(proc[t], {d}) : code[k] # Unmapped
    /\ \A u \in Tids : proc[u] = proc[t] /\ at[u] # NoAddr => DllOf[at[u]] # d
    /\ UnmapImage(Apis(proc[t], {d}))
    /\ Post(t, "UNLOAD_DLL")
    /\ UNCHANGED <<dbgVars, thrVars, arg, born>>

(* The last thread of a process posts EXIT_PROCESS and no EXIT_THREAD.     *)
Exit(t) ==
    /\ CanRun(t)
    /\ tf[t] => "KillMidStep" \in Adversity
    /\ Post(t, IF \E u \in Tids \ {t} : proc[u] = proc[t]
                 THEN "EXIT_THREAD" ELSE "EXIT_PROCESS")
    /\ UNCHANGED <<hmVars, dbgVars, thrVars, arg, born>>

-----------------------------------------------------------------------------
(* The debug loop.                                                         *)

Refusals(S) == IF "Patch" \in Adversity THEN SUBSET S ELSE {{}}

Outcomes(call) == IF call \in Adversity THEN {TRUE, FALSE} ELSE {TRUE}

Delivered(t, e) == loop = "wait" /\ event[t] = e

(* Mutant: the stop event is only looked at when WaitForDebugEvent times   *)
(* out.                                                                    *)
Continue_unstoppable(t, trk) ==
    /\ event' = [event EXCEPT ![t] = "none"]
    /\ loop' = IF trk = {} THEN "ended" ELSE "wait"
    /\ tracked' = trk
    /\ arg' = [arg EXCEPT ![t] = NoDll]
    /\ UNCHANGED <<stop_event, born>>

(* Mutants: an empty tracked is not looked for; the loop ends with the     *)
(* root process.                                                           *)
Continue_endless(t, trk) ==
    /\ event' = [event EXCEPT ![t] = "none"]
    /\ loop' = IF stop_event THEN "ended" ELSE "wait"
    /\ tracked' = IF stop_event THEN {} ELSE trk
    /\ arg' = [arg EXCEPT ![t] = NoDll]
    /\ UNCHANGED <<stop_event, born>>

Continue_root(t, trk) ==
    /\ event' = [event EXCEPT ![t] = "none"]
    /\ loop' = IF RootPid \notin trk \/ stop_event THEN "ended" ELSE "wait"
    /\ tracked' = IF RootPid \notin trk \/ stop_event THEN {} ELSE trk
    /\ arg' = [arg EXCEPT ![t] = NoDll]
    /\ UNCHANGED <<stop_event, born>>

(* ContinueDebugEvent, then the two tests that end run(): nothing tracked  *)
(* any more, or a stop requested while the event was handled.  _cleanup    *)
(* empties tracked, and Windows kills what the thread was still debugging. *)
Continue(t, trk) ==
    /\ event' = [event EXCEPT ![t] = "none"]
    /\ loop' = IF trk = {} \/ stop_event THEN "ended" ELSE "wait"
    /\ tracked' = IF trk = {} \/ stop_event THEN {} ELSE trk
    /\ arg' = [arg EXCEPT ![t] = NoDll]
    /\ UNCHANGED <<stop_event, born>>

(* _on_create_process: hooks first, the cap on tracked processes after.    *)
on_create_process(t) ==
    LET p == proc[t] IN
    /\ Delivered(t, "CREATE_PROCESS")
    /\ \E refused \in Refusals(Apis(p, Dlls)) : apply_hook(Apis(p, Dlls), refused)
    /\ Continue(t, IF p = RootPid \/ Cardinality(tracked) >= MaxTracked
                     THEN tracked ELSE tracked \union {p})
    /\ UNCHANGED <<thrVars, pending_single_steps>>

(* Mutant: only the root gets hooks in the DLLs it loads.                  *)
on_load_dll_root(t) ==
    LET new == Apis(proc[t], {arg[t]}) IN
    /\ Delivered(t, "LOAD_DLL")
    /\ IF proc[t] = RootPid
         THEN \E refused \in Refusals(new) : apply_hook(new, refused)
         ELSE UNCHANGED hmVars
    /\ Continue(t, tracked)
    /\ UNCHANGED <<thrVars, pending_single_steps>>

(* _on_load_dll.  Without a path nothing is hooked, as when every call is  *)
(* refused.                                                                *)
on_load_dll(t) ==
    LET new == Apis(proc[t], {arg[t]}) IN
    /\ Delivered(t, "LOAD_DLL")
    /\ IF proc[t] \in tracked
         THEN \E refused \in Refusals(new) : apply_hook(new, refused)
         ELSE UNCHANGED hmVars
    /\ Continue(t, tracked)
    /\ UNCHANGED <<thrVars, pending_single_steps>>

(* Events that only produce a trace event.                                 *)
on_notice(t) ==
    /\ \/ Delivered(t, "CREATE_THREAD")
       \/ Delivered(t, "UNLOAD_DLL")
       \/ Delivered(t, "OUTPUT_DEBUG_STRING")
    /\ Continue(t, tracked)
    /\ UNCHANGED <<hmVars, thrVars, pending_single_steps>>

(* The thread itself is gone once its exit event is continued.             *)
Gone(t) ==
    /\ proc' = [proc EXCEPT ![t] = NoPid]
    /\ pc' = [pc EXCEPT ![t] = "out"]
    /\ at' = [at EXCEPT ![t] = NoAddr]
    /\ tf' = [tf EXCEPT ![t] = FALSE]

(* Mutant: a pending single step of the thread is not popped.              *)
on_exit_thread_kept(t) ==
    /\ Delivered(t, "EXIT_THREAD")
    /\ UNCHANGED pending_single_steps
    /\ Continue(t, tracked)
    /\ Gone(t)
    /\ UNCHANGED hmVars

on_exit_thread(t) ==
    /\ Delivered(t, "EXIT_THREAD")
    /\ pending_single_steps' = [pending_single_steps EXCEPT ![t] = NoAddr]
    /\ Continue(t, tracked)
    /\ Gone(t)
    /\ UNCHANGED hmVars

(* Mutants: a child that exits stays in tracked; the hooks of every        *)
(* process are dropped with the first one that exits.                      *)
on_exit_process_kept(t) ==
    /\ Delivered(t, "EXIT_PROCESS")
    /\ Continue(t, IF proc[t] = RootPid THEN tracked \ {proc[t]} ELSE tracked)
    /\ Gone(t)
    /\ UnmapImage(Apis(proc[t], Dlls))
    /\ UNCHANGED pending_single_steps

on_exit_process_purge(t) ==
    /\ Delivered(t, "EXIT_PROCESS")
    /\ Continue(t, tracked \ {proc[t]})
    /\ Gone(t)
    /\ hooks' = [k \in Keys |-> NoHook]
    /\ code' = [k \in Keys |-> IF k[1] = proc[t] THEN Unmapped ELSE code[k]]
    /\ UNCHANGED <<api_names, pending_single_steps>>

(* Neither the hooks of the process nor a pending step of its last thread  *)
(* are dropped.                                                            *)
on_exit_process(t) ==
    /\ Delivered(t, "EXIT_PROCESS")
    /\ Continue(t, tracked \ {proc[t]})
    /\ Gone(t)
    /\ UnmapImage(Apis(proc[t], Dlls))
    /\ UNCHANGED pending_single_steps

(* Mutant: the step is only remembered when the byte was put back.         *)
resume_from_hook_unmarked(t) ==
    LET k == <<proc[t], at[t]>> IN
    /\ \E refused \in Refusals({k}) : remove_hook(k, refused)
    /\ \E ok \in Outcomes("SetContext") :
         /\ pc' = [pc EXCEPT ![t] = IF ok THEN "entry" ELSE "misaligned"]
         /\ tf' = [tf EXCEPT ![t] = ok \/ tf[t]]
    /\ pending_single_steps' = IF hooks'[k] = NoHook
                                 THEN [pending_single_steps EXCEPT ![t] = at[t]]
                                 ELSE pending_single_steps

(* _resume_from_hook: put the byte back, RIP to the entry, trap flag on,   *)
(* remember the address.  The results of remove_hook and SetThreadContext  *)
(* are not looked at, nor that of GetThreadId: 0 would be the key of the   *)
(* entry, which no thread has.  The handle was opened with                 *)
(* THREAD_QUERY_INFORMATION (:526), so GetThreadId has no reason to fail.  *)
resume_from_hook(t) ==
    LET k == <<proc[t], at[t]>> IN
    /\ \E refused \in Refusals({k}) : remove_hook(k, refused)
    /\ \E ok \in Outcomes("SetContext") :
         /\ pc' = [pc EXCEPT ![t] = IF ok THEN "entry" ELSE "misaligned"]
         /\ tf' = [tf EXCEPT ![t] = ok \/ tf[t]]
    /\ \E known \in Outcomes("GetThreadId") :
         pending_single_steps' = IF known
                                   THEN [pending_single_steps EXCEPT ![t] = at[t]]
                                   ELSE pending_single_steps

(* _handle_api_hook.  Whatever the API, its branch emits its event and     *)
(* ends in _resume_from_hook; the early returns come before: then the      *)
(* thread goes on behind the INT3.                                         *)
handle_api_hook(t) ==
    \E opened \in Outcomes("OpenThread") :
        IF proc[t] \in tracked /\ opened
          THEN resume_from_hook(t)
          ELSE /\ pc' = [pc EXCEPT ![t] = "misaligned"]
               /\ UNCHANGED <<hmVars, tf, pending_single_steps>>

on_breakpoint(t) ==
    /\ Delivered(t, "BREAKPOINT")
    /\ IF is_our_hook(proc[t], at[t])
         THEN handle_api_hook(t)
         ELSE /\ pc' = [pc EXCEPT ![t] = "seh_bp"]
              /\ UNCHANGED <<hmVars, tf, pending_single_steps>>
    /\ Continue(t, tracked)
    /\ UNCHANGED <<proc, at>>

(* Mutant: the hook goes back into the root, whichever process stepped.    *)
handle_rehook_root(t) ==
    LET k == <<RootPid, pending_single_steps[t]>> IN
    /\ pending_single_steps' = [pending_single_steps EXCEPT ![t] = NoAddr]
    /\ IF proc[t] \in tracked
         THEN \E refused \in Refusals({k}) : apply_hook({k}, refused)
         ELSE UNCHANGED hmVars

(* _handle_rehook.                                                         *)
handle_rehook(t) ==
    LET k == <<proc[t], pending_single_steps[t]>> IN
    /\ pending_single_steps' = [pending_single_steps EXCEPT ![t] = NoAddr]
    /\ IF proc[t] \in tracked
         THEN \E refused \in Refusals({k}) : apply_hook({k}, refused)
         ELSE UNCHANGED hmVars

on_single_step(t) ==
    /\ Delivered(t, "SINGLE_STEP")
    /\ IF pending_single_steps[t] # NoAddr
         THEN /\ handle_rehook(t)
              /\ at' = [at EXCEPT ![t] = IF pc[t] = "misaligned" THEN at[t] ELSE NoAddr]
              /\ UNCHANGED pc
         ELSE /\ pc' = [pc EXCEPT ![t] = "seh_step"]
              /\ UNCHANGED <<hmVars, pending_single_steps, at>>
    /\ Continue(t, tracked)
    /\ UNCHANGED <<proc, tf>>

on_exception(t) ==
    /\ Delivered(t, "EXCEPTION")
    /\ pc' = [pc EXCEPT ![t] = "seh"]
    /\ Continue(t, tracked)
    /\ UNCHANGED <<hmVars, proc, at, tf, pending_single_steps>>

(* _handle_event and the rest of one round of run().                       *)
handle_event(t) ==
    \/ on_create_process(t)
    \/ on_load_dll(t)
    \/ on_notice(t)
    \/ on_exit_thread(t)
    \/ on_exit_process(t)
    \/ on_breakpoint(t)
    \/ on_single_step(t)
    \/ on_exception(t)

(* WaitForDebugEvent timed out (200 ms) and the loop sees the stop event.  *)
Timeout ==
    /\ loop = "wait" /\ stop_event
    /\ \A t \in Tids : event[t] = "none"
    /\ loop' = "ended"
    /\ tracked' = {}
    /\ UNCHANGED <<hmVars, stop_event, pending_single_steps, extVars>>

request_stop ==
    /\ ~stop_event
    /\ stop_event' = TRUE
    /\ UNCHANGED <<hmVars, loop, tracked, pending_single_steps, extVars>>

Ended == loop = "ended" /\ UNCHANGED vars

-----------------------------------------------------------------------------
Program(t) ==
    \/ \E a \in Addrs : CallApi(t, a)
    \/ Trap(t)
    \/ Enter(t)
    \/ SingleStep(t)
    \/ Stray(t)
    \/ Raise(t)
    \/ OwnStep(t)
    \/ Handler(t)
    \/ \E u \in Tids : CreateThread(t, u)
    \/ \E u \in Tids : \E p \in Pids : CreateProcess(t, u, p)
    \/ StartProcess(t)
    \/ \E d \in Dlls : LoadDll(t, d)
    \/ \E d \in Dlls : UnloadDll(t, d)
    \/ Exit(t)

Next ==
    \/ \E t \in Tids : Program(t)
    \/ \E t \in Tids : handle_event(t)
    \/ Timeout
    \/ request_stop
    \/ Ended

Spec == Init /\ [][Next]_vars

(* The loop waits again after every event, so it takes each event and each *)
(* timeout in the end.  The Windows scheduler runs a thread that is ready  *)
(* again and again, however often its process is frozen in between: strong *)
(* fairness, up to the thread's next trap.                                 *)
Fairness ==
    /\ \A t \in Tids : WF_vars(handle_event(t))
    /\ WF_vars(Timeout)
    /\ \A t \in Tids : SF_vars(Trap(t) \/ SingleStep(t))

FairSpec == Spec /\ Fairness

-----------------------------------------------------------------------------
(* A single step that the loop asked for is claimed by the loop: a set     *)
(* trap flag always has its entry in pending_single_steps                  *)
(* (debug_thread.py:1640-1644), so the exception is never handed to a      *)
(* program that would not expect it (:311).  GetThreadId must not fail.    *)
OurStepsAreClaimed ==
    \A t \in Tids :
        /\ tf[t] => pending_single_steps[t] # NoAddr
        /\ event[t] = "SINGLE_STEP" /\ at[t] # NoAddr
             => pending_single_steps[t] # NoAddr
        /\ pc[t] = "seh_step" => at[t] = NoAddr

(* And the reverse: a single step that the loop claims, and swallows, is   *)
(* one it asked for, of the instruction it lifted the hook from            *)
(* (debug_thread.py:309-312, 1711-1713).  A step that is never taken, since*)
(* its context could not be set or its process ended with it               *)
(* (:282-295), would leave an entry that claims a later one.               *)
ClaimedStepsAreOurs ==
    \A t \in Tids :
        event[t] = "SINGLE_STEP" /\ pending_single_steps[t] # NoAddr
          => at[t] = pending_single_steps[t]

(* A process in self.tracked still has a thread, so the handle kept for it *)
(* (debug_thread.py:401) is that of a live process whenever an event is    *)
(* handled: its entry goes with its EXIT_PROCESS event (:284), and nothing *)
(* adds it again.                                                          *)
TrackedAreLive == \A p \in tracked : \E t \in Tids : proc[t] = p

(* Coverage of the hooks: in a tracked process an API that is mapped and   *)
(* whose LOAD_DLL or CREATE_PROCESS event has been handled is either armed *)
(* or lifted for a thread of that process that will put it back            *)
(* (debug_thread.py:18-27, 477-487).                                       *)
HookPlacementDue(p, a) ==
    \E t \in Tids : /\ proc[t] = p
                    /\ \/ event[t] = "CREATE_PROCESS"
                       \/ event[t] = "LOAD_DLL" /\ arg[t] = DllOf[a]

ArmedOrStepping ==
    \A p \in tracked : \A a \in Addrs :
        code[<<p, a>>] \notin {INT3, Unmapped} /\ ~HookPlacementDue(p, a)
          => \E t \in Tids : proc[t] = p /\ pending_single_steps[t] = a

(* Only a kill may cost the coverage of an API: while its process is       *)
(* tracked, an API that is armed, or lifted for a thread in the step after *)
(* which it puts it back, or not mapped, or due for placement, stays one   *)
(* of these, over every load, trap, lift and re-plant of every thread,     *)
(* unless the thread that lifted it is killed in that very step (its       *)
(* EXIT_THREAD pops the entry and plants nothing, debug_thread.py:264-271);*)
(* and every API of a process that becomes tracked is covered from then on.*)
Stepping(p, a) ==
    \E t \in Tids : /\ proc[t] = p /\ at[t] = a /\ pending_single_steps[t] = a
                    /\ tf[t] \/ event[t] = "SINGLE_STEP"

Covered(p, a) ==
    \/ code[<<p, a>>] \in {INT3, Unmapped}
    \/ HookPlacementDue(p, a)
    \/ Stepping(p, a)

KilledInStep(p, a) ==
    \E t \in Tids : /\ event[t] = "EXIT_THREAD" /\ event'[t] = "none"
                    /\ proc[t] = p /\ pending_single_steps[t] = a

CoverageIsKept ==
    [][\A p \in tracked' : \A a \in Addrs :
         (p \in tracked => Covered(p, a))
           => Covered(p, a)' \/ KilledInStep(p, a)]_vars

(* An INT3 the loop planted is never handed to the program as an exception *)
(* of its own (debug_thread.py:193-196, 303-330).                          *)
BreakpointsAreOurs ==
    \A t \in Tids : pc[t] = "seh_bp" => OwnByte[at[t]] = INT3

(* A thread that hit a hook goes on at the API's entry, on the API's own   *)
(* instruction (debug_thread.py:513-515, 1634-1635).                       *)
ResumesAligned == \A t \in Tids : pc[t] # "misaligned"

(* The loop ends by itself only when every debugged process has ended      *)
(* (debug_thread.py:205-206).                                              *)
LoopOutlivesTargets ==
    loop = "ended" /\ ~stop_event => \A t \in Tids : proc[t] = NoPid

(* Handling the event of one process leaves the hooks and the code of      *)
(* every other one alone, although the addresses of system DLLs are shared *)
(* (keys of HookManager.hooks, api_hooker.py:36).                          *)
OneProcessAtATime ==
    [][\A t \in Tids :
         event[t] # "none" /\ event'[t] = "none"
           => \A k \in Keys : k[1] # proc[t] => /\ hooks'[k] = hooks[k]
                                               /\ code'[k] = code[k]]_vars

(* A stop request ends the loop, whatever the programs keep doing: at most *)
(* one more event is handled (debug_thread.py:185-208).                    *)
StopEndsLoop == stop_event ~> loop = "ended"

(* Every single step that was asked for is consumed, by its SINGLE_STEP    *)
(* event or by the EXIT_THREAD event of a thread killed in it              *)
(* (debug_thread.py:264-271, 1711-1713), unless the whole process ends:    *)
(* its last thread posts EXIT_PROCESS, whose handler (:282-295) leaves the *)
(* entry behind.                                                           *)
StepsAreFinished ==
    \A t \in Tids, p \in Pids :
        proc[t] = p /\ tf[t] /\ pending_single_steps[t] # NoAddr
          ~> \/ pending_single_steps[t] = NoAddr
             \/ \A u \in Tids : proc[u] # p
             \/ loop = "ended"
-----------------------------------------------------------------------------
(* The loop implements the promised life of a hook: an entry of            *)
(* HookManager.hooks is an armed hook, a pending single step the thread    *)
(* that will plant it again (debug_thread.py:17-27).                       *)
Lifecycle == INSTANCE HookLifecycle WITH
    armed <- {k \in Keys : hooks[k] # NoHook},
    stepper <- pending_single_steps,
    home <- proc,
    traced <- tracked,
    mapped <- {k \in Keys : code[k] # Unmapped},
    MayRefuse <- "Patch" \in Adversity,
    MayStray <- {"SetContext", "KillMidStep"} \intersect Adversity # {}

ImplementsLifecycle == Lifecycle!Spec

(* The loop keeps what TraceSession relies on: it never ends by itself     *)
(* while a process it tracks, root or child, has not posted its            *)
(* EXIT_PROCESS (debug_thread.py:185-208).                                 *)
Exiting(p) == \E t \in Tids : proc[t] = p /\ event[t] = "EXIT_PROCESS"

targets == IF loop = "ended" THEN "gone"
           ELSE IF \A p \in tracked : Exiting(p) THEN "exiting" ELSE "running"

Loop == INSTANCE DebugLoop

ImplementsLoop == Loop!Spec

(* And where every tracked process is exiting the loop ends, unless the    *)
(* event of a new child comes first: nobody has to stop it                 *)
(* (debug_thread.py:205-206; the fairness of TraceSession's                *)
(* handle_last_exit).                                                      *)
LoopEndsWithTargets == targets = "exiting" ~> targets # "exiting"
=============================================================================
