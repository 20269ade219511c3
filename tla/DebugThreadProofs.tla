------------------------- MODULE DebugThreadProofs -------------------------
(***************************************************************************)
(* Proofs about DebugThread, for every set of processes, threads, DLLs and *)
(* APIs, any cap, and any of the adversities.                              *)
(*                                                                         *)
(* The first part shows that the loop is a caller of HookManager like any  *)
(* other, so that what HookManagerProofs proves of the registry holds of   *)
(* the loop.                                                               *)
(***************************************************************************)
EXTENDS DebugThread, HookManagerProofs, FiniteSetTheorems

(***************************************************************************)
(* The inductive invariant.  ThreadOK: where a thread can be, and what its *)
(* event, its trap flag and its pending step then are.  ExitOK: a process  *)
(* that has an exit event outstanding is frozen, so the last thread stays  *)
(* the last, and a thread that was not the last leaves another behind.     *)
(***************************************************************************)
StepsAreNamed == "GetThreadId" \notin Adversity

ThreadOK(t) ==
    /\ proc[t] = NoPid => /\ pc[t] = "out" /\ event[t] = "none"
                          /\ ~tf[t] /\ at[t] = NoAddr
    /\ pc[t] = "out" => proc[t] = NoPid
    /\ pc[t] = "new" => event[t] = "none" /\ ~tf[t] /\ at[t] = NoAddr
    /\ pc[t] = "entry" => at[t] # NoAddr
    /\ event[t] = "BREAKPOINT" => pc[t] = "entry"
    /\ event[t] = "SINGLE_STEP" => ~tf[t] /\ pc[t] \in {"run", "misaligned"}
    /\ pc[t] = "run" /\ ~tf[t] /\ event[t] # "SINGLE_STEP" => at[t] = NoAddr
    /\ StepsAreNamed => /\ tf[t] => pending_single_steps[t] # NoAddr
                        /\ event[t] = "SINGLE_STEP" /\ at[t] # NoAddr
                             => pending_single_steps[t] # NoAddr
                        /\ pc[t] = "seh_step" => at[t] = NoAddr

ExitEvents == {"EXIT_THREAD", "EXIT_PROCESS"}

ExitOK(t) ==
    /\ event[t] = "EXIT_PROCESS" => \A u \in Tids \ {t} : proc[u] # proc[t]
    /\ event[t] = "EXIT_THREAD" =>
         \E u \in Tids \ {t} : proc[u] = proc[t] /\ event[u] \notin ExitEvents

IInv ==
    /\ TypeOK
    /\ \A t \in Tids : ThreadOK(t)
    /\ \A t \in Tids : ExitOK(t)
    /\ TrackedAreLive

-----------------------------------------------------------------------------
LEMMA ApisAreKeys == ASSUME NEW p, NEW D PROVE Apis(p, D) \subseteq Keys
BY DEF Apis

LEMMA RefusalsAreSubsets == ASSUME NEW S PROVE Refusals(S) \subseteq SUBSET S
BY DEF Refusals

(* The program maps and unmaps images, and touches nothing else of the     *)
(* registry and the code.                                                  *)
LEMMA ProgramCallsHookManager ==
    ASSUME TypeOK, NEW t \in Tids, Program(t)
    PROVE  [HMNext]_hmVars
<1>1. ASSUME NEW a \in Addrs, CallApi(t, a) PROVE UNCHANGED hmVars
  BY <1>1 DEF CallApi
<1>2. CASE Trap(t) \/ Enter(t) \/ SingleStep(t) \/ Stray(t)
  BY <1>2 DEF Trap, Enter, SingleStep, Stray
<1>3. CASE Raise(t) \/ OwnStep(t) \/ Handler(t) \/ StartProcess(t) \/ Exit(t)
  BY <1>3 DEF Raise, OwnStep, Handler, StartProcess, Exit
<1>4. ASSUME NEW u \in Tids, CreateThread(t, u) PROVE UNCHANGED hmVars
  BY <1>4 DEF CreateThread
<1>5. ASSUME NEW u \in Tids, NEW p \in Pids, CreateProcess(t, u, p)
      PROVE  HMNext
  <2>1. {k \in Keys : k[1] = p /\ DllOf[k[2]] \in InitialDlls} \in SUBSET Keys
    OBVIOUS
  <2> QED BY <1>5, <2>1 DEF CreateProcess, HMNext
<1>6. ASSUME NEW d \in Dlls, LoadDll(t, d) PROVE HMNext
  BY <1>6, ApisAreKeys DEF LoadDll, HMNext
<1>7. ASSUME NEW d \in Dlls, UnloadDll(t, d) PROVE HMNext
  BY <1>7, ApisAreKeys DEF UnloadDll, HMNext
<1> QED BY <1>1, <1>2, <1>3, <1>4, <1>5, <1>6, <1>7 DEF Program

(* The handler of each debug event makes at most one call per key.         *)
LEMMA HandlerCallsHookManager ==
    ASSUME TypeOK, NEW t \in Tids, ThreadOK(t), handle_event(t)
    PROVE  [HMNext]_hmVars
<1>1. CASE on_create_process(t)
  BY <1>1, ApisAreKeys, RefusalsAreSubsets DEF on_create_process, HMNext
<1>2. CASE on_load_dll(t)
  BY <1>2, ApisAreKeys, RefusalsAreSubsets DEF on_load_dll, HMNext
<1>3. CASE on_notice(t) \/ on_exit_thread(t) \/ on_exception(t)
  BY <1>3 DEF on_notice, on_exit_thread, on_exception
<1>4. CASE on_exit_process(t)
  BY <1>4, ApisAreKeys DEF on_exit_process, HMNext
<1>5. CASE on_breakpoint(t)
  <2>1. CASE UNCHANGED hmVars
    BY <2>1
  <2>2. CASE resume_from_hook(t)
    <3> DEFINE k == <<proc[t], at[t]>>
    <3>1. k \in Keys
      BY <1>5 DEF on_breakpoint, Delivered, ThreadOK, TypeOK, Keys
    <3> QED BY <2>2, <3>1, RefusalsAreSubsets DEF resume_from_hook, HMNext
  <2> QED BY <1>5, <2>1, <2>2 DEF on_breakpoint, handle_api_hook
<1>6. CASE on_single_step(t)
  <2>1. CASE UNCHANGED hmVars
    BY <2>1
  <2>2. CASE pending_single_steps[t] # NoAddr /\ proc[t] \in tracked
    <3> DEFINE k == <<proc[t], pending_single_steps[t]>>
    <3>1. k \in Keys
      BY <2>2 DEF TypeOK, Keys
    <3> QED BY <1>6, <2>2, <3>1, RefusalsAreSubsets
        DEF on_single_step, handle_rehook, HMNext
  <2> QED BY <1>6, <2>1, <2>2 DEF on_single_step, handle_rehook
<1> QED BY <1>1, <1>2, <1>3, <1>4, <1>5, <1>6 DEF handle_event

(* A step of the loop or of the program is a step of HookManager.          *)
LEMMA NextCallsHookManager ==
    ASSUME TypeOK, \A t \in Tids : ThreadOK(t), [Next]_vars
    PROVE  [HMNext]_hmVars
<1>1. CASE \E t \in Tids : Program(t)
  BY <1>1, ProgramCallsHookManager
<1>2. CASE \E t \in Tids : handle_event(t)
  BY <1>2, HandlerCallsHookManager
<1>3. CASE Timeout \/ request_stop \/ Ended \/ UNCHANGED vars
  BY <1>3 DEF Timeout, request_stop, Ended, vars
<1> QED BY <1>1, <1>2, <1>3 DEF Next

-----------------------------------------------------------------------------
(* Types.                                                                  *)

LEMMA ProgramType ==
    ASSUME TypeOK, HMTypeOK', NEW t \in Tids, Program(t)
    PROVE  TypeOK'
<1> USE DEF Working, CanRun, CanTrap, Post, dbgVars, thrVars, extVars, Pcs, Events
<1>1. CASE \E a \in Addrs : CallApi(t, a)
  BY <1>1 DEF CallApi, TypeOK
<1>2. CASE Trap(t)
  BY <1>2 DEF Trap, TypeOK
<1>3. CASE Enter(t)
  BY <1>3 DEF Enter, TypeOK
<1>4. CASE SingleStep(t)
  BY <1>4 DEF SingleStep, TypeOK
<1>5. CASE Stray(t)
  BY <1>5 DEF Stray, TypeOK
<1>6. CASE Raise(t)
  BY <1>6 DEF Raise, TypeOK
<1>7. CASE OwnStep(t)
  BY <1>7 DEF OwnStep, TypeOK
<1>8. CASE Handler(t)
  BY <1>8 DEF Handler, TypeOK
<1>9. CASE \E u \in Tids : CreateThread(t, u)
  BY <1>9 DEF CreateThread, TypeOK
<1>10. CASE \E u \in Tids : \E p \in Pids : CreateProcess(t, u, p)
  BY <1>10 DEF CreateProcess, TypeOK
<1>11. CASE StartProcess(t)
  BY <1>11 DEF StartProcess, TypeOK
<1>12. CASE \E d \in Dlls : LoadDll(t, d)
  BY <1>12 DEF LoadDll, TypeOK
<1>13. CASE \E d \in Dlls : UnloadDll(t, d)
  BY <1>13 DEF UnloadDll, TypeOK
<1>14. CASE Exit(t)
  BY <1>14 DEF Exit, TypeOK
<1> QED BY <1>1, <1>2, <1>3, <1>4, <1>5, <1>6, <1>7, <1>8, <1>9, <1>10,
           <1>11, <1>12, <1>13, <1>14 DEF Program

LEMMA HandlerType ==
    ASSUME TypeOK, HMTypeOK', NEW t \in Tids, ThreadOK(t), handle_event(t)
    PROVE  TypeOK'
<1> USE DEF Delivered, Continue, thrVars, Pcs, Events
<1>1. CASE on_create_process(t)
  BY <1>1 DEF on_create_process, ThreadOK, TypeOK
<1>2. CASE on_load_dll(t)
  BY <1>2 DEF on_load_dll, TypeOK
<1>3. CASE on_notice(t)
  BY <1>3 DEF on_notice, TypeOK
<1>4. CASE on_exit_thread(t)
  BY <1>4 DEF on_exit_thread, Gone, TypeOK
<1>5. CASE on_exit_process(t)
  BY <1>5 DEF on_exit_process, Gone, TypeOK
<1>6. CASE on_breakpoint(t)
  BY <1>6 DEF on_breakpoint, handle_api_hook, resume_from_hook, ThreadOK, TypeOK
<1>7. CASE on_single_step(t)
  BY <1>7 DEF on_single_step, handle_rehook, TypeOK
<1>8. CASE on_exception(t)
  BY <1>8 DEF on_exception, TypeOK
<1> QED BY <1>1, <1>2, <1>3, <1>4, <1>5, <1>6, <1>7, <1>8 DEF handle_event

LEMMA NextType ==
    ASSUME TypeOK, \A t \in Tids : ThreadOK(t), [Next]_vars
    PROVE  TypeOK'
<1>1. HMTypeOK'
  BY NextCallsHookManager, HMTypeStep DEF TypeOK
<1>2. CASE \E t \in Tids : Program(t)
  BY <1>1, <1>2, ProgramType
<1>3. CASE \E t \in Tids : handle_event(t)
  BY <1>1, <1>3, HandlerType
<1>4. CASE Timeout
  BY <1>1, <1>4 DEF Timeout, extVars, TypeOK
<1>5. CASE request_stop
  BY <1>1, <1>5 DEF request_stop, extVars, TypeOK
<1>6. CASE UNCHANGED vars
  BY <1>1, <1>6 DEF vars, dbgVars, extVars, TypeOK
<1> QED BY <1>2, <1>3, <1>4, <1>5, <1>6 DEF Next, Ended

-----------------------------------------------------------------------------
(* Threads.  A step of t disturbs the threads t, the one it creates, and   *)
(* no other.                                                               *)

LEMMA ProgramThreads ==
    ASSUME TypeOK, \A u \in Tids : ThreadOK(u), NEW t \in Tids, Program(t),
           NEW s \in Tids
    PROVE  ThreadOK(s)'
<1> USE DebugAssumption
    DEF Working, CanRun, CanTrap, Frozen, Post, dbgVars, thrVars, TypeOK,
        DebugAssumption
<1>1. CASE \E a \in Addrs : CallApi(t, a)
  BY <1>1 DEF CallApi, ThreadOK
<1>2. CASE Trap(t)
  BY <1>2 DEF Trap, ThreadOK
<1>3. CASE Enter(t)
  BY <1>3 DEF Enter, ThreadOK
<1>4. CASE SingleStep(t)
  BY <1>4 DEF SingleStep, ThreadOK
<1>5. CASE Stray(t)
  BY <1>5 DEF Stray, ThreadOK
<1>6. CASE Raise(t)
  BY <1>6 DEF Raise, ThreadOK
<1>7. CASE OwnStep(t)
  BY <1>7 DEF OwnStep, ThreadOK
<1>8. CASE Handler(t)
  BY <1>8 DEF Handler, ThreadOK
<1>9. CASE \E u \in Tids : CreateThread(t, u)
  BY <1>9 DEF CreateThread, ThreadOK
<1>10. CASE \E u \in Tids : \E p \in Pids : CreateProcess(t, u, p)
  BY <1>10 DEF CreateProcess, ThreadOK
<1>11. CASE StartProcess(t)
  BY <1>11 DEF StartProcess, ThreadOK
<1>12. CASE \E d \in Dlls : LoadDll(t, d)
  BY <1>12 DEF LoadDll, ThreadOK
<1>13. CASE \E d \in Dlls : UnloadDll(t, d)
  BY <1>13 DEF UnloadDll, ThreadOK
<1>14. CASE Exit(t)
  BY <1>14 DEF Exit, ThreadOK
<1> QED BY <1>1, <1>2, <1>3, <1>4, <1>5, <1>6, <1>7, <1>8, <1>9, <1>10,
           <1>11, <1>12, <1>13, <1>14 DEF Program

LEMMA HandlerThreads ==
    ASSUME TypeOK, \A u \in Tids : ThreadOK(u), NEW t \in Tids, handle_event(t),
           NEW s \in Tids
    PROVE  ThreadOK(s)'
<1> USE DebugAssumption
    DEF Delivered, Continue, thrVars, TypeOK, DebugAssumption
<1>1. CASE on_create_process(t)
  BY <1>1 DEF on_create_process, ThreadOK
<1>2. CASE on_load_dll(t)
  BY <1>2 DEF on_load_dll, ThreadOK
<1>3. CASE on_notice(t)
  BY <1>3 DEF on_notice, ThreadOK
<1>4. CASE on_exit_thread(t)
  BY <1>4 DEF on_exit_thread, Gone, ThreadOK
<1>5. CASE on_exit_process(t)
  BY <1>5 DEF on_exit_process, Gone, ThreadOK
<1>6. CASE on_breakpoint(t)
  BY <1>6 DEF on_breakpoint, handle_api_hook, resume_from_hook, ThreadOK, Outcomes,
              StepsAreNamed
<1>7. CASE on_single_step(t)
  BY <1>7 DEF on_single_step, handle_rehook, ThreadOK
<1>8. CASE on_exception(t)
  BY <1>8 DEF on_exception, ThreadOK
<1> QED BY <1>1, <1>2, <1>3, <1>4, <1>5, <1>6, <1>7, <1>8 DEF handle_event

-----------------------------------------------------------------------------
(* Exits.                                                                  *)

LEMMA ProgramExits ==
    ASSUME TypeOK, \A u \in Tids : ThreadOK(u), \A u \in Tids : ExitOK(u),
           NEW t \in Tids, Program(t), NEW s \in Tids
    PROVE  ExitOK(s)'
<1> USE DebugAssumption
    DEF Working, CanRun, CanTrap, Frozen, Post, dbgVars, thrVars, TypeOK,
        DebugAssumption, ExitEvents
<1>1. CASE \E a \in Addrs : CallApi(t, a)
  BY <1>1 DEF CallApi, ExitOK, ThreadOK
<1>2. CASE Trap(t)
  BY <1>2 DEF Trap, ExitOK, ThreadOK
<1>3. CASE Enter(t)
  BY <1>3 DEF Enter, ExitOK, ThreadOK
<1>4. CASE SingleStep(t)
  BY <1>4 DEF SingleStep, ExitOK, ThreadOK
<1>5. CASE Stray(t)
  BY <1>5 DEF Stray, ExitOK, ThreadOK
<1>6. CASE Raise(t)
  BY <1>6 DEF Raise, ExitOK, ThreadOK
<1>7. CASE OwnStep(t)
  BY <1>7 DEF OwnStep, ExitOK, ThreadOK
<1>8. CASE Handler(t)
  BY <1>8 DEF Handler, ExitOK, ThreadOK
<1>9. CASE \E u \in Tids : CreateThread(t, u)
  BY <1>9 DEF CreateThread, ExitOK, ThreadOK
<1>10. CASE \E u \in Tids : \E p \in Pids : CreateProcess(t, u, p)
  BY <1>10 DEF CreateProcess, ExitOK, ThreadOK
<1>11. CASE StartProcess(t)
  BY <1>11 DEF StartProcess, ExitOK, ThreadOK
<1>12. CASE \E d \in Dlls : LoadDll(t, d)
  BY <1>12 DEF LoadDll, ExitOK, ThreadOK
<1>13. CASE \E d \in Dlls : UnloadDll(t, d)
  BY <1>13 DEF UnloadDll, ExitOK, ThreadOK
<1>14. CASE Exit(t)
  BY <1>14 DEF Exit, ExitOK, ThreadOK
<1> QED BY <1>1, <1>2, <1>3, <1>4, <1>5, <1>6, <1>7, <1>8, <1>9, <1>10,
           <1>11, <1>12, <1>13, <1>14 DEF Program

LEMMA HandlerExits ==
    ASSUME TypeOK, \A u \in Tids : ThreadOK(u), \A u \in Tids : ExitOK(u),
           NEW t \in Tids, handle_event(t), NEW s \in Tids
    PROVE  ExitOK(s)'
<1> USE DebugAssumption
    DEF Delivered, Continue, thrVars, TypeOK, DebugAssumption, ExitEvents
<1>1. CASE on_create_process(t)
  BY <1>1 DEF on_create_process, ExitOK, ThreadOK
<1>2. CASE on_load_dll(t)
  BY <1>2 DEF on_load_dll, ExitOK, ThreadOK
<1>3. CASE on_notice(t)
  BY <1>3 DEF on_notice, ExitOK, ThreadOK
<1>4. CASE on_exit_thread(t)
  BY <1>4 DEF on_exit_thread, Gone, ExitOK, ThreadOK
<1>5. CASE on_exit_process(t)
  BY <1>5 DEF on_exit_process, Gone, ExitOK, ThreadOK
<1>6. CASE on_breakpoint(t)
  BY <1>6 DEF on_breakpoint, handle_api_hook, resume_from_hook, ExitOK, ThreadOK
<1>7. CASE on_single_step(t)
  BY <1>7 DEF on_single_step, handle_rehook, ExitOK, ThreadOK
<1>8. CASE on_exception(t)
  BY <1>8 DEF on_exception, ExitOK, ThreadOK
<1> QED BY <1>1, <1>2, <1>3, <1>4, <1>5, <1>6, <1>7, <1>8 DEF handle_event
-----------------------------------------------------------------------------
(* Tracked processes: only the exit of its last thread takes the last      *)
(* thread of a process away, and that step takes it out of tracked.        *)

LEMMA ProgramTracked ==
    ASSUME IInv, NEW t \in Tids, Program(t)
    PROVE  TrackedAreLive'
<1>1. tracked' = tracked
  BY DEF Program, CallApi, Trap, Enter, SingleStep, Stray, Raise, OwnStep,
         Handler, CreateThread, CreateProcess, StartProcess, LoadDll, UnloadDll,
         Exit, dbgVars
<1>2. \A u \in Tids : proc[u] # NoPid => proc'[u] = proc[u]
  BY DEF Program, CallApi, Trap, Enter, SingleStep, Stray, Raise, OwnStep,
         Handler, CreateThread, CreateProcess, StartProcess, LoadDll, UnloadDll,
         Exit, thrVars, IInv, TypeOK
<1> QED BY <1>1, <1>2, DebugAssumption
    DEF IInv, TypeOK, TrackedAreLive, DebugAssumption

LEMMA HandlerTracked ==
    ASSUME IInv, NEW t \in Tids, handle_event(t)
    PROVE  TrackedAreLive'
<1> USE DebugAssumption
    DEF Delivered, Continue, thrVars, IInv, TypeOK, TrackedAreLive, DebugAssumption
<1>1. CASE on_create_process(t)
  BY <1>1 DEF on_create_process
<1>2. CASE on_load_dll(t) \/ on_notice(t) \/ on_exception(t)
  BY <1>2 DEF on_load_dll, on_notice, on_exception
<1>3. CASE on_breakpoint(t) \/ on_single_step(t)
  BY <1>3 DEF on_breakpoint, on_single_step
<1>4. CASE on_exit_thread(t)
  <2>1. PICK u \in Tids \ {t} : proc[u] = proc[t]
    BY <1>4 DEF on_exit_thread, ExitOK
  <2>2. \A v \in Tids \ {t} : proc'[v] = proc[v]
    BY <1>4 DEF on_exit_thread, Gone
  <2>3. tracked' \subseteq tracked
    BY <1>4 DEF on_exit_thread
  <2> QED BY <2>1, <2>2, <2>3
<1>5. CASE on_exit_process(t)
  <2>1. \A v \in Tids \ {t} : proc'[v] = proc[v]
    BY <1>5 DEF on_exit_process, Gone
  <2>2. tracked' \subseteq tracked \ {proc[t]}
    BY <1>5 DEF on_exit_process
  <2> QED BY <2>1, <2>2
<1> QED BY <1>1, <1>2, <1>3, <1>4, <1>5 DEF handle_event

-----------------------------------------------------------------------------
(* The invariant, and what follows from it.                                *)

LEMMA InitInv == Init => IInv
<1> SUFFICES ASSUME Init PROVE IInv
  OBVIOUS
<1> USE DebugAssumption, BytesAssumption
    DEF Init, DebugAssumption, BytesAssumption, Pcs, Events
<1>1. HMTypeOK
  <2>1. \A k \in Keys : OwnByte[k[2]] \in Bytes
    BY DEF Keys
  <2> QED BY <2>1 DEF HMTypeOK
<1>2. TypeOK
  BY <1>1 DEF TypeOK
<1>3. \A t \in Tids : ThreadOK(t) /\ ExitOK(t)
  BY DEF ThreadOK, ExitOK
<1>4. TrackedAreLive
  BY DEF TrackedAreLive
<1> QED BY <1>2, <1>3, <1>4 DEF IInv

LEMMA NextInv ==
    ASSUME IInv, [Next]_vars PROVE IInv'
<1>1. TypeOK'
  BY NextType DEF IInv
<1>2. CASE \E t \in Tids : Program(t)
  BY <1>1, <1>2, ProgramThreads, ProgramExits, ProgramTracked DEF IInv
<1>3. CASE \E t \in Tids : handle_event(t)
  BY <1>1, <1>3, HandlerThreads, HandlerExits, HandlerTracked DEF IInv
<1>4. CASE Timeout
  BY <1>1, <1>4 DEF Timeout, extVars, IInv, ThreadOK, ExitOK, TrackedAreLive
<1>5. CASE request_stop
  BY <1>1, <1>5 DEF request_stop, extVars, IInv, ThreadOK, ExitOK, TrackedAreLive
<1>6. CASE UNCHANGED vars
  BY <1>1, <1>6
  DEF vars, dbgVars, extVars, IInv, ThreadOK, ExitOK, TrackedAreLive
<1> QED BY <1>2, <1>3, <1>4, <1>5, <1>6 DEF Next, Ended

(* Every state of the loop has its type: the type invariant of             *)
(* DebugThread, for any number of processes, threads and APIs.             *)
THEOREM TypeCorrect == Spec => []TypeOK
<1>1. IInv => TypeOK
  BY DEF IInv
<1> QED BY <1>1, InitInv, NextInv, PTL DEF Spec

(* Every single step the loop asked for is claimed by the loop.            *)
THEOREM OurStepsAreClaimedHolds ==
    ASSUME StepsAreNamed PROVE Spec => []OurStepsAreClaimed
<1>1. IInv => OurStepsAreClaimed
  BY DEF IInv, ThreadOK, OurStepsAreClaimed
<1> QED BY <1>1, InitInv, NextInv, PTL DEF Spec

(* Every tracked process is alive.                                         *)
THEOREM TrackedAreLiveHolds == Spec => []TrackedAreLive
<1>1. IInv => TrackedAreLive
  BY DEF IInv
<1> QED BY <1>1, InitInv, NextInv, PTL DEF Spec

(* The loop is a caller of HookManager: each of its steps is one operation *)
(* of the registry, one change of images, or neither.                      *)
THEOREM ImplementsHookManager == Spec => HMSpec
<1>1. Init => HMInit
  <2> SUFFICES ASSUME Init PROVE HMInit
    OBVIOUS
  <2>1. \A k \in Keys : OwnByte[k[2]] \in Bytes
    BY BytesAssumption DEF Keys, BytesAssumption
  <2> QED BY <2>1 DEF Init, HMInit
<1>2. IInv /\ [Next]_vars => [HMNext]_hmVars
  BY NextCallsHookManager DEF IInv
<1> QED BY <1>1, <1>2, InitInv, NextInv, PTL DEF Spec, HMSpec

(* Every byte the loop wrote into a program can be undone.                 *)
THEOREM LoopRestorable == Spec => []Restorable
BY ImplementsHookManager, RestorableHolds, PTL

(* Every hook of the loop has a name.                                      *)
THEOREM LoopHooksAreNamed == Spec => []HooksAreNamed
BY ImplementsHookManager, HooksAreNamedHolds, PTL
-----------------------------------------------------------------------------
(* What a handler may touch.                                               *)

LEMMA ApplyTouches ==
    ASSUME NEW S, NEW refused, apply_hook(S, refused), NEW k \in Keys, k \notin S
    PROVE  hooks'[k] = hooks[k] /\ code'[k] = code[k]
BY DEF apply_hook, Planted

LEMMA HandlerTouches ==
    ASSUME TypeOK, NEW t \in Tids, handle_event(t),
           NEW k \in Keys, k[1] # proc[t]
    PROVE  hooks'[k] = hooks[k] /\ code'[k] = code[k]
<1> USE DEF hmVars
<1>1. CASE on_create_process(t)
  BY <1>1, ApplyTouches DEF on_create_process, Apis
<1>2. CASE on_load_dll(t)
  <2>1. CASE UNCHANGED hmVars
    BY <2>1
  <2>2. ASSUME NEW refused, apply_hook(Apis(proc[t], {arg[t]}), refused)
        PROVE  hooks'[k] = hooks[k] /\ code'[k] = code[k]
    <3>1. k \notin Apis(proc[t], {arg[t]})
      BY DEF Apis
    <3> QED BY <2>2, <3>1, ApplyTouches
  <2> QED BY <1>2, <2>1, <2>2 DEF on_load_dll
<1>3. CASE on_notice(t) \/ on_exit_thread(t) \/ on_exception(t)
  BY <1>3 DEF on_notice, on_exit_thread, on_exception
<1>4. CASE on_exit_process(t)
  BY <1>4 DEF on_exit_process, UnmapImage, Apis
<1>5. CASE on_breakpoint(t)
  BY <1>5 DEF on_breakpoint, handle_api_hook, resume_from_hook, remove_hook,
              TypeOK, HMTypeOK
<1>6. CASE on_single_step(t)
  BY <1>6, ApplyTouches DEF on_single_step, handle_rehook
<1> QED BY <1>1, <1>2, <1>3, <1>4, <1>5, <1>6 DEF handle_event

(* Handling an event of one process leaves every other one alone.          *)
THEOREM OneProcessAtATimeHolds == Spec => OneProcessAtATime
<1> DEFINE Alone ==
      \A t \in Tids : event[t] # "none" /\ event'[t] = "none"
        => \A k \in Keys : k[1] # proc[t] => /\ hooks'[k] = hooks[k]
                                            /\ code'[k] = code[k]
<1>1. IInv /\ [Next]_vars => [Alone]_vars
  <2> SUFFICES ASSUME IInv, [Next]_vars, NEW t \in Tids,
                      event[t] # "none", event'[t] = "none",
                      NEW k \in Keys, k[1] # proc[t]
               PROVE  hooks'[k] = hooks[k] /\ code'[k] = code[k]
    OBVIOUS
  <2>1. CASE \E u \in Tids : handle_event(u)
    <3>1. PICK u \in Tids : handle_event(u)
      BY <2>1
    <3>2. u = t
      BY <3>1 DEF handle_event, on_create_process, on_load_dll, on_notice,
                  on_exit_thread, on_exit_process, on_breakpoint,
                  on_single_step, on_exception, Continue, IInv, TypeOK
    <3> QED BY <3>1, <3>2, HandlerTouches DEF IInv
  <2>2. ASSUME NEW u \in Tids, Program(u) PROVE FALSE
    BY <2>2 DEF Program, CallApi, Trap, Enter, SingleStep, Stray, Raise,
                OwnStep, Handler, CreateThread, CreateProcess, StartProcess,
                LoadDll, UnloadDll, Exit, Post, Working, CanRun, CanTrap,
                Frozen, IInv, TypeOK
  <2>3. CASE Timeout \/ request_stop \/ Ended \/ UNCHANGED vars
    BY <2>3 DEF Timeout, request_stop, Ended, vars, extVars
  <2> QED BY <2>1, <2>2, <2>3 DEF Next
<1> QED BY <1>1, InitInv, NextInv, PTL DEF Spec, OneProcessAtATime

-----------------------------------------------------------------------------
(* Whose breakpoint it is.  NewOK: until CREATE_PROCESS has been handled,  *)
(* the thread it belongs to is alone in its process.  OneEvent: where two  *)
(* threads of a process do not trap at once, a process has one event       *)
(* outstanding, since it is frozen by the first.  HitOK: hence nobody      *)
(* lifts a hook between the trap and the handling of its BREAKPOINT event. *)
NewOK(t) ==
    pc[t] = "new" \/ event[t] = "CREATE_PROCESS"
      => \A u \in Tids \ {t} : proc[u] # proc[t]

OneEvent ==
    \A t, u \in Tids :
        event[t] # "none" /\ event[u] # "none" /\ proc[t] = proc[u] => t = u

HitOK(t) ==
    /\ event[t] = "BREAKPOINT"
         => OwnByte[at[t]] = INT3 \/ is_our_hook(proc[t], at[t])
    /\ pc[t] = "seh_bp" => OwnByte[at[t]] = INT3

AloneInv ==
    /\ \A t \in Tids : NewOK(t)
    /\ OneEvent
    /\ \A t \in Tids : HitOK(t)

LEMMA ProgramNew ==
    ASSUME IInv, \A u \in Tids : NewOK(u), NEW t \in Tids, Program(t),
           NEW s \in Tids
    PROVE  NewOK(s)'
<1> USE DebugAssumption
    DEF Working, CanRun, CanTrap, Frozen, Post, dbgVars, thrVars, IInv, TypeOK,
        ThreadOK, DebugAssumption
<1>1. CASE \E a \in Addrs : CallApi(t, a)
  BY <1>1 DEF CallApi, NewOK
<1>2. CASE Trap(t)
  BY <1>2 DEF Trap, NewOK
<1>3. CASE Enter(t)
  BY <1>3 DEF Enter, NewOK
<1>4. CASE SingleStep(t)
  BY <1>4 DEF SingleStep, NewOK
<1>5. CASE Stray(t)
  BY <1>5 DEF Stray, NewOK
<1>6. CASE Raise(t)
  BY <1>6 DEF Raise, NewOK
<1>7. CASE OwnStep(t)
  BY <1>7 DEF OwnStep, NewOK
<1>8. CASE Handler(t)
  BY <1>8 DEF Handler, NewOK
<1>9. CASE \E u \in Tids : CreateThread(t, u)
  BY <1>9 DEF CreateThread, NewOK
<1>10. CASE \E u \in Tids : \E p \in Pids : CreateProcess(t, u, p)
  BY <1>10 DEF CreateProcess, NewOK
<1>11. CASE StartProcess(t)
  BY <1>11 DEF StartProcess, NewOK
<1>12. CASE \E d \in Dlls : LoadDll(t, d)
  BY <1>12 DEF LoadDll, NewOK
<1>13. CASE \E d \in Dlls : UnloadDll(t, d)
  BY <1>13 DEF UnloadDll, NewOK
<1>14. CASE Exit(t)
  BY <1>14 DEF Exit, NewOK
<1> QED BY <1>1, <1>2, <1>3, <1>4, <1>5, <1>6, <1>7, <1>8, <1>9, <1>10,
           <1>11, <1>12, <1>13, <1>14 DEF Program

LEMMA HandlerNew ==
    ASSUME IInv, \A u \in Tids : NewOK(u), NEW t \in Tids, handle_event(t),
           NEW s \in Tids
    PROVE  NewOK(s)'
<1>1. \A u \in Tids : event'[u] # "none" => event'[u] = event[u]
  BY DEF handle_event, on_create_process, on_load_dll, on_notice,
       on_exit_thread, on_exit_process, on_breakpoint, on_single_step,
       on_exception, Continue, IInv, TypeOK
<1>2. \A u \in Tids : pc'[u] = "new" => pc[u] = "new"
  BY DEF handle_event, on_create_process, on_load_dll, on_notice,
       on_exit_thread, on_exit_process, on_breakpoint, on_single_step,
       on_exception, handle_api_hook, resume_from_hook, Gone, thrVars, IInv, TypeOK
<1>3. \A u \in Tids : proc'[u] = proc[u] \/ proc'[u] = NoPid
  BY DEF handle_event, on_create_process, on_load_dll, on_notice,
       on_exit_thread, on_exit_process, on_breakpoint, on_single_step,
       on_exception, Gone, thrVars, IInv, TypeOK
<1>4. pc'[s] = "new" \/ event'[s] = "CREATE_PROCESS" => proc'[s] # NoPid
  BY HandlerThreads, DebugAssumption DEF IInv, ThreadOK
<1> QED BY <1>1, <1>2, <1>3, <1>4 DEF NewOK

(* A step of the program finds its process not frozen, unless it is a trap *)
(* of a thread beside the one that froze it.                               *)
LEMMA ProgramOneEvent ==
    ASSUME IInv, "Simultaneous" \notin Adversity, \A u \in Tids : NewOK(u),
           OneEvent, NEW t \in Tids, Program(t)
    PROVE  OneEvent'
<1> USE DebugAssumption
    DEF Working, CanRun, CanTrap, Frozen, Post, dbgVars, thrVars, IInv, TypeOK,
        ThreadOK, DebugAssumption
<1>1. CASE \E a \in Addrs : CallApi(t, a)
  BY <1>1 DEF CallApi, OneEvent
<1>2. CASE Trap(t)
  BY <1>2 DEF Trap, OneEvent
<1>3. CASE Enter(t)
  BY <1>3 DEF Enter, OneEvent
<1>4. CASE SingleStep(t)
  BY <1>4 DEF SingleStep, OneEvent
<1>5. CASE Stray(t)
  BY <1>5 DEF Stray, OneEvent
<1>6. CASE Raise(t)
  BY <1>6 DEF Raise, OneEvent
<1>7. CASE OwnStep(t)
  BY <1>7 DEF OwnStep, OneEvent
<1>8. CASE Handler(t)
  BY <1>8 DEF Handler, OneEvent
<1>9. CASE \E u \in Tids : CreateThread(t, u)
  BY <1>9 DEF CreateThread, OneEvent
<1>10. CASE \E u \in Tids : \E p \in Pids : CreateProcess(t, u, p)
  BY <1>10 DEF CreateProcess, OneEvent
<1>11. CASE StartProcess(t)
  BY <1>11 DEF StartProcess, OneEvent, NewOK
<1>12. CASE \E d \in Dlls : LoadDll(t, d)
  BY <1>12 DEF LoadDll, OneEvent
<1>13. CASE \E d \in Dlls : UnloadDll(t, d)
  BY <1>13 DEF UnloadDll, OneEvent
<1>14. CASE Exit(t)
  BY <1>14 DEF Exit, OneEvent
<1> QED BY <1>1, <1>2, <1>3, <1>4, <1>5, <1>6, <1>7, <1>8, <1>9, <1>10,
           <1>11, <1>12, <1>13, <1>14 DEF Program

LEMMA HandlerOneEvent ==
    ASSUME IInv, OneEvent, NEW t \in Tids, handle_event(t)
    PROVE  OneEvent'
<1>1. \A u \in Tids : event'[u] # "none" => event[u] # "none" /\ u # t
  BY DEF handle_event, on_create_process, on_load_dll, on_notice,
       on_exit_thread, on_exit_process, on_breakpoint, on_single_step,
       on_exception, Continue, IInv, TypeOK
<1>2. \A u \in Tids : u # t => proc'[u] = proc[u]
  BY DEF handle_event, on_create_process, on_load_dll, on_notice,
       on_exit_thread, on_exit_process, on_breakpoint, on_single_step,
       on_exception, Gone, thrVars, IInv, TypeOK
<1> QED BY <1>1, <1>2 DEF OneEvent

LEMMA ProgramHits ==
    ASSUME IInv, Restorable, \A u \in Tids : HitOK(u), NEW t \in Tids,
           Program(t), NEW s \in Tids
    PROVE  HitOK(s)'
<1>1. hooks' = hooks
  BY DEF Program, CallApi, Trap, Enter, SingleStep, Stray, Raise, OwnStep,
       Handler, CreateThread, CreateProcess, StartProcess, LoadDll, UnloadDll,
       Exit, MapImage, UnmapImage, hmVars
<1>2. ASSUME pc'[s] = "seh_bp"
      PROVE  pc[s] = "seh_bp" /\ at'[s] = at[s]
  BY <1>2 DEF Program, CallApi, Trap, Enter, SingleStep, Stray, Raise, OwnStep,
       Handler, CreateThread, CreateProcess, StartProcess, LoadDll, UnloadDll,
       Exit, Working, CanRun, thrVars, IInv, TypeOK
<1>3. CASE event[s] = "BREAKPOINT"
  <2>1. event'[s] = "BREAKPOINT" => proc'[s] = proc[s] /\ at'[s] = at[s]
    BY <1>3, DebugAssumption
    DEF Program, CallApi, Trap, Enter, SingleStep, Stray, Raise, OwnStep,
       Handler, CreateThread, CreateProcess, StartProcess, LoadDll, UnloadDll,
       Exit, Working, CanRun, CanTrap, Frozen, thrVars, IInv, TypeOK, ThreadOK,
       DebugAssumption
  <2> QED BY <1>1, <1>2, <1>3, <2>1 DEF HitOK, is_our_hook
<1>4. CASE event[s] # "BREAKPOINT" /\ event'[s] = "BREAKPOINT"
  <2>1. Trap(t) /\ s = t
    BY <1>4 DEF Program, CallApi, Trap, Enter, SingleStep, Stray, Raise, OwnStep,
       Handler, CreateThread, CreateProcess, StartProcess, LoadDll, UnloadDll,
       Exit, Post, IInv, TypeOK
  <2> DEFINE k == <<proc[t], at[t]>>
  <2>2. k \in Keys /\ code[k] = INT3
    BY <2>1 DEF Trap, CanTrap, Here, Keys, IInv, TypeOK, ThreadOK
  <2>3. OwnByte[at[t]] = INT3 \/ hooks[k] # NoHook
    BY <2>2 DEF Restorable
  <2> QED BY <1>1, <1>2, <2>1, <2>3 DEF Trap, thrVars, HitOK, is_our_hook
<1>5. CASE event'[s] # "BREAKPOINT"
  BY <1>2, <1>5 DEF HitOK
<1> QED BY <1>3, <1>4, <1>5

LEMMA HandlerHits ==
    ASSUME IInv, OneEvent, \A u \in Tids : HitOK(u), NEW t \in Tids,
           handle_event(t), NEW s \in Tids
    PROVE  HitOK(s)'
<1>1. event[t] # "none" /\ event'[t] = "none"
  BY DEF handle_event, on_create_process, on_load_dll, on_notice,
       on_exit_thread, on_exit_process, on_breakpoint, on_single_step,
       on_exception, Delivered, Continue, IInv, TypeOK
<1>2. s # t => event'[s] = event[s] /\ proc'[s] = proc[s] /\ at'[s] = at[s]
                /\ pc'[s] = pc[s]
  BY DEF handle_event, on_create_process, on_load_dll, on_notice,
       on_exit_thread, on_exit_process, on_breakpoint, on_single_step,
       on_exception, handle_api_hook, resume_from_hook, Continue, Gone, thrVars,
       IInv, TypeOK
<1>3. CASE s # t
  <2>1. ASSUME event[s] = "BREAKPOINT"
        PROVE  is_our_hook(proc[s], at[s]) => is_our_hook(proc[s], at[s])'
    <3> DEFINE k == <<proc[s], at[s]>>
    <3>1. k \in Keys
      BY <2>1 DEF Keys, IInv, TypeOK, ThreadOK
    <3>2. k[1] # proc[t]
      BY <1>1, <1>3, <2>1 DEF OneEvent
    <3>3. hooks'[k] = hooks[k]
      BY <3>1, <3>2, HandlerTouches DEF IInv
    <3> QED BY <1>2, <1>3, <3>3 DEF is_our_hook
  <2> QED BY <1>2, <1>3, <2>1 DEF HitOK
<1>4. CASE s = t
  <2>1. ASSUME pc'[t] = "seh_bp", pc[t] = "seh_bp"
        PROVE  at'[t] = at[t]
    BY <2>1 DEF handle_event, on_create_process, on_load_dll, on_notice,
       on_exit_thread, on_exit_process, on_breakpoint, on_single_step,
       on_exception, handle_api_hook, resume_from_hook, Gone, thrVars,
       Delivered, IInv, TypeOK, ThreadOK
  <2>2. ASSUME pc'[t] = "seh_bp", pc[t] # "seh_bp"
        PROVE  /\ event[t] = "BREAKPOINT" /\ at'[t] = at[t]
               /\ ~is_our_hook(proc[t], at[t])
    BY <2>2 DEF handle_event, on_create_process, on_load_dll, on_notice,
       on_exit_thread, on_exit_process, on_breakpoint, on_single_step,
       on_exception, handle_api_hook, resume_from_hook, Gone, thrVars,
       Delivered, IInv, TypeOK
  <2> QED BY <1>1, <1>4, <2>1, <2>2 DEF HitOK
<1> QED BY <1>3, <1>4

LEMMA NextAlone ==
    ASSUME IInv, Restorable, "Simultaneous" \notin Adversity, AloneInv,
           [Next]_vars
    PROVE  AloneInv'
<1>1. CASE \E t \in Tids : Program(t)
  BY <1>1, ProgramNew, ProgramOneEvent, ProgramHits DEF AloneInv
<1>2. CASE \E t \in Tids : handle_event(t)
  BY <1>2, HandlerNew, HandlerOneEvent, HandlerHits DEF AloneInv
<1>3. CASE Timeout \/ request_stop \/ UNCHANGED vars
  BY <1>3 DEF Timeout, request_stop, vars, hmVars, dbgVars, extVars, AloneInv,
       NewOK, OneEvent, HitOK, is_our_hook
<1> QED BY <1>1, <1>2, <1>3 DEF Next, Ended

(* A breakpoint that is handed to the program is the program's own, as     *)
(* long as two threads of a process do not trap at once: whatever else may *)
(* fail, be unloaded or be used again.                                     *)
THEOREM BreakpointsAreOursHolds ==
    ASSUME "Simultaneous" \notin Adversity
    PROVE  Spec => []BreakpointsAreOurs
<1>1. Init => AloneInv
  BY DebugAssumption DEF Init, AloneInv, NewOK, OneEvent, HitOK, DebugAssumption
<1>2. IInv /\ Restorable /\ AloneInv /\ [Next]_vars => AloneInv'
  BY NextAlone
<1>3. AloneInv => BreakpointsAreOurs
  BY DEF AloneInv, HitOK, BreakpointsAreOurs
<1> QED BY <1>1, <1>2, <1>3, InitInv, NextInv, LoopRestorable, PTL DEF Spec

-----------------------------------------------------------------------------
(* No API is left unhooked.  The hypothesis is that Windows does what the  *)
(* loop asks it to do to code and contexts, kills no thread with its trap  *)
(* flag set, unloads no DLL and uses no process id twice: after each of    *)
(* those an API can stay without its hook.                                 *)
Steady == Adversity \subseteq {"OpenThread", "OwnStep", "Simultaneous"}

(* What the lemmas about the code need of it.                              *)
Undisturbed == {"Patch", "Unload", "PidReuse"} \intersect Adversity = {}

LEMMA SteadyIsUndisturbed == Steady => Undisturbed /\ StepsAreNamed
BY DEF Steady, Undisturbed, StepsAreNamed

(* A pending step is taken, or its SINGLE_STEP event is outstanding, and   *)
(* meanwhile the key it names is free and mapped.                          *)
StepOK(t) ==
    /\ event[t] \notin {"none", "BREAKPOINT"} => ~tf[t]
    /\ pending_single_steps[t] # NoAddr
         => /\ tf[t] \/ event[t] = "SINGLE_STEP"
            /\ proc[t] # NoPid
            /\ at[t] = pending_single_steps[t]
            /\ hooks[<<proc[t], at[t]>>] = NoHook
            /\ code[<<proc[t], at[t]>>] # Unmapped

(* A key is lifted for one thread at a time.                               *)
OneStepper ==
    \A t, u \in Tids :
        /\ proc[t] = proc[u]
        /\ pending_single_steps[t] # NoAddr
        /\ pending_single_steps[t] = pending_single_steps[u]
        => t = u

(* A thread that does not trap finds its process not frozen.               *)
Traps == {"none", "BREAKPOINT", "SINGLE_STEP"}

OneNotice ==
    \A t, u \in Tids :
        event[t] \notin Traps /\ event[u] \notin Traps /\ proc[t] = proc[u]
          => t = u

(* Nothing of a DLL is hooked or stepped over before its LOAD_DLL event.   *)
LoadOK(t) ==
    event[t] = "LOAD_DLL" =>
      /\ \A u \in Tids : proc[u] = proc[t] /\ pending_single_steps[u] # NoAddr
                           => DllOf[pending_single_steps[u]] # arg[t]
      /\ \A k \in Apis(proc[t], {arg[t]}) : hooks[k] = NoHook

(* A process that has not begun has no hooks, and in one that lives an     *)
(* entry is an INT3.                                                       *)
HooksOK ==
    /\ \A k \in Keys : k[1] \notin born => hooks[k] = NoHook
    /\ \A t \in Tids : proc[t] # NoPid => proc[t] \in born
    /\ \A k \in Keys : \A t \in Tids :
         proc[t] = k[1] /\ hooks[k] # NoHook => code[k] = INT3

CoverInv ==
    /\ \A t \in Tids : NewOK(t) /\ StepOK(t) /\ LoadOK(t)
    /\ OneStepper
    /\ OneNotice
    /\ HooksOK
    /\ ArmedOrStepping

(* The program neither plants nor lifts, and takes no event back.          *)
LEMMA ProgramFrame ==
    ASSUME IInv, NEW t \in Tids, Program(t)
    PROVE  /\ UNCHANGED <<hooks, pending_single_steps, tracked>>
           /\ \A u \in Tids : event[u] # "none" => /\ event'[u] = event[u]
                                                   /\ arg'[u] = arg[u]
           /\ \A u \in Tids : proc[u] # NoPid => proc'[u] = proc[u]
           /\ born \subseteq born'
<1>1. UNCHANGED <<hooks, pending_single_steps, tracked>> /\ born \subseteq born'
  BY DEF Program, CallApi, Trap, Enter, SingleStep, Stray, Raise, OwnStep,
       Handler, CreateThread, CreateProcess, StartProcess, LoadDll, UnloadDll,
       Exit, MapImage, UnmapImage, hmVars, dbgVars
<1>2. \A u \in Tids : event[u] # "none" => event'[u] = event[u] /\ arg'[u] = arg[u]
  BY DebugAssumption DEF Program, CallApi, Trap, Enter, SingleStep, Stray, Raise, OwnStep,
       Handler, CreateThread, CreateProcess, StartProcess, LoadDll, UnloadDll,
       Exit,
       Working, CanRun, CanTrap, Frozen, Post, thrVars, IInv, TypeOK, ThreadOK,
       DebugAssumption
<1>3. \A u \in Tids : proc[u] # NoPid => proc'[u] = proc[u]
  BY DEF Program, CallApi, Trap, Enter, SingleStep, Stray, Raise, OwnStep,
       Handler, CreateThread, CreateProcess, StartProcess, LoadDll, UnloadDll,
       Exit,
       thrVars, IInv, TypeOK
<1> QED BY <1>1, <1>2, <1>3

(* While no image is unloaded, the program unmaps nothing, and what it     *)
(* maps is a DLL whose event is due or a process that has just begun.      *)
LEMMA ProgramCode ==
    ASSUME IInv, Undisturbed, NEW t \in Tids, Program(t), NEW k \in Keys,
           code'[k] # code[k]
    PROVE  /\ code'[k] = OwnByte[k[2]] /\ code'[k] # Unmapped
           /\ \/ /\ code[k] = Unmapped /\ k[1] = proc[t]
                 /\ event'[t] = "LOAD_DLL" /\ arg'[t] = DllOf[k[2]]
              \/ /\ k[1] \notin born
                 /\ \A u \in Tids : proc[u] # k[1]
<1>1. OwnByte[k[2]] # Unmapped
  BY BytesAssumption DEF Keys, BytesAssumption
<1>2. CASE \E d \in Dlls : LoadDll(t, d)
  BY <1>1, <1>2 DEF LoadDll, MapImage, Apis, Post, IInv, TypeOK
<1>3. CASE \E u \in Tids : \E p \in Pids : CreateProcess(t, u, p)
  BY <1>1, <1>3 DEF CreateProcess, MapImage, Undisturbed
<1>4. CASE \E d \in Dlls : UnloadDll(t, d)
  BY <1>4 DEF UnloadDll, Undisturbed
<1>5. CASE UNCHANGED code
  BY <1>5
<1> QED BY <1>2, <1>3, <1>4, <1>5 DEF Program, CallApi, Trap, Enter, SingleStep, Stray, Raise, OwnStep,
       Handler, CreateThread, CreateProcess, StartProcess, LoadDll, UnloadDll,
       Exit, hmVars

LEMMA ProgramStepThreads ==
    ASSUME IInv, Steady, \A u \in Tids : StepOK(u), NEW t \in Tids, Program(t),
           NEW s \in Tids
    PROVE  /\ event'[s] \notin {"none", "BREAKPOINT"} => ~tf'[s]
           /\ pending_single_steps[s] # NoAddr
                => (tf'[s] \/ event'[s] = "SINGLE_STEP") /\ at'[s] = at[s]
<1>1. TypeOK
  BY DEF IInv
<1>2. /\ event[s] \notin {"none", "BREAKPOINT"} => ~tf[s]
      /\ pending_single_steps[s] # NoAddr => tf[s] \/ event[s] = "SINGLE_STEP"
      /\ proc[s] = NoPid => ~tf[s] /\ event[s] = "none"
      /\ pc[t] = "new" => ~tf[t] /\ event[t] = "none"
  BY DEF IInv, ThreadOK, StepOK
<1> USE <1>1, <1>2
    DEF Working, CanRun, CanTrap, Frozen, Post, thrVars, TypeOK
<1>3. CASE \E a \in Addrs : CallApi(t, a)
  BY <1>3 DEF CallApi
<1>4. CASE Trap(t)
  BY <1>4 DEF Trap
<1>5. CASE Enter(t)
  BY <1>5 DEF Enter
<1>6. CASE SingleStep(t)
  BY <1>6 DEF SingleStep
<1>7. CASE Stray(t)
  BY <1>7 DEF Stray
<1>8. CASE Raise(t)
  BY <1>8 DEF Raise
<1>9. CASE OwnStep(t)
  BY <1>9 DEF OwnStep
<1>10. CASE Handler(t)
  BY <1>10 DEF Handler
<1>11. CASE \E u \in Tids : CreateThread(t, u)
  BY <1>11 DEF CreateThread
<1>12. CASE \E u \in Tids : \E p \in Pids : CreateProcess(t, u, p)
  BY <1>12 DEF CreateProcess
<1>13. CASE StartProcess(t)
  BY <1>13 DEF StartProcess
<1>14. CASE \E d \in Dlls : LoadDll(t, d)
  BY <1>14 DEF LoadDll
<1>15. CASE \E d \in Dlls : UnloadDll(t, d)
  BY <1>15 DEF UnloadDll
<1>16. CASE Exit(t)
  BY <1>16 DEF Exit, Steady
<1> QED BY <1>3, <1>4, <1>5, <1>6, <1>7, <1>8, <1>9, <1>10,
           <1>11, <1>12, <1>13, <1>14, <1>15, <1>16 DEF Program

LEMMA ProgramSteps ==
    ASSUME IInv, Steady, \A u \in Tids : StepOK(u), NEW t \in Tids, Program(t),
           NEW s \in Tids
    PROVE  StepOK(s)'
<1>1. event'[s] \notin {"none", "BREAKPOINT"} => ~tf'[s]
  BY ProgramStepThreads
<1>2. ASSUME pending_single_steps[s] # NoAddr
      PROVE  /\ tf'[s] \/ event'[s] = "SINGLE_STEP"
             /\ at'[s] = at[s]
  BY <1>2, ProgramStepThreads
<1>3. ASSUME pending_single_steps[s] # NoAddr
      PROVE  code'[<<proc[s], at[s]>>] # Unmapped
  <2> DEFINE k == <<proc[s], at[s]>>
  <2>1. k \in Keys /\ code[k] # Unmapped
    BY <1>3 DEF StepOK, Keys, IInv, TypeOK
  <2> QED BY <2>1, ProgramCode, SteadyIsUndisturbed
<1> QED BY <1>1, <1>2, <1>3, ProgramFrame DEF StepOK

LEMMA ProgramHooks ==
    ASSUME IInv, Undisturbed, HooksOK, NEW t \in Tids, Program(t)
    PROVE  HooksOK'
<1>1. \A u \in Tids : proc'[u] # NoPid => proc'[u] \in born'
  BY DEF Program, CallApi, Trap, Enter, SingleStep, Stray, Raise, OwnStep,
       Handler, CreateThread, CreateProcess, StartProcess, LoadDll, UnloadDll,
       Exit,
       Working, CanRun, thrVars, HooksOK, IInv, TypeOK
<1>2. ASSUME NEW k \in Keys, NEW u \in Tids, proc'[u] = k[1],
             hooks[k] # NoHook
      PROVE  \E v \in Tids : proc[v] = k[1]
  <2>1. k[1] \in born
    BY <1>2 DEF HooksOK
  <2> QED BY <1>2, <2>1
      DEF Program, CallApi, Trap, Enter, SingleStep, Stray, Raise, OwnStep,
       Handler, CreateThread, CreateProcess, StartProcess, LoadDll, UnloadDll,
       Exit,
       Working, CanRun, thrVars, Undisturbed, IInv, TypeOK
<1>3. ASSUME NEW k \in Keys, NEW u \in Tids, proc'[u] = k[1],
             hooks[k] # NoHook
      PROVE  code'[k] = INT3
  <2>1. code[k] = INT3 /\ k[1] \in born
    BY <1>2, <1>3 DEF HooksOK
  <2> QED BY <2>1, ProgramCode, BytesAssumption DEF BytesAssumption
<1> QED BY <1>1, <1>3, ProgramFrame DEF HooksOK

LEMMA ProgramLoads ==
    ASSUME IInv, Steady, HooksOK, \A u \in Tids : StepOK(u) /\ LoadOK(u),
           NEW t \in Tids, Program(t), NEW s \in Tids
    PROVE  LoadOK(s)'
<1>1. CASE event[s] = "LOAD_DLL"
  <2>1. proc[s] # NoPid
    BY <1>1 DEF IInv, ThreadOK
  <2>2. event'[s] = event[s] /\ arg'[s] = arg[s] /\ proc'[s] = proc[s]
    BY <1>1, <2>1, ProgramFrame
  <2>3. UNCHANGED <<hooks, pending_single_steps>>
    BY ProgramFrame
  <2>4. \A u \in Tids : pending_single_steps[u] # NoAddr => proc'[u] = proc[u]
    BY ProgramFrame DEF StepOK
  <2> QED BY <1>1, <2>2, <2>3, <2>4 DEF LoadOK, Apis
<1>2. CASE event[s] # "LOAD_DLL" /\ event'[s] = "LOAD_DLL"
  <2>1. PICK d \in Dlls : LoadDll(t, d) /\ s = t
    BY <1>2 DEF Program, CallApi, Trap, Enter, SingleStep, Stray, Raise, OwnStep,
       Handler, CreateThread, CreateProcess, StartProcess, LoadDll, UnloadDll,
       Exit, Post, IInv, TypeOK
  <2>2. /\ arg'[t] = d /\ proc' = proc
        /\ \A k \in Apis(proc[t], {d}) : code[k] = Unmapped
    BY <2>1 DEF LoadDll, thrVars, IInv, TypeOK
  <2>3. ASSUME NEW u \in Tids, proc[u] = proc[t],
               pending_single_steps[u] # NoAddr
        PROVE  DllOf[pending_single_steps[u]] # d
    <3> DEFINE k == <<proc[u], pending_single_steps[u]>>
    <3>1. k \in Keys /\ code[k] # Unmapped
      BY <2>3 DEF StepOK, Keys, IInv, TypeOK
    <3> QED BY <2>2, <2>3, <3>1 DEF Apis
  <2>4. ASSUME NEW k \in Apis(proc[t], {d}) PROVE hooks[k] = NoHook
    BY <2>2, BytesAssumption DEF Apis, HooksOK, BytesAssumption
  <2> QED BY <2>1, <2>2, <2>3, <2>4, ProgramFrame DEF LoadOK, Apis
<1> QED BY <1>1, <1>2 DEF LoadOK

LEMMA ProgramNotice ==
    ASSUME IInv, \A u \in Tids : NewOK(u), OneNotice, NEW t \in Tids, Program(t)
    PROVE  OneNotice'
<1> USE DebugAssumption
    DEF Working, CanRun, CanTrap, Frozen, Post, dbgVars, thrVars, IInv, TypeOK,
        ThreadOK, DebugAssumption, Traps
<1>1. CASE \E a \in Addrs : CallApi(t, a)
  BY <1>1 DEF CallApi, OneNotice
<1>2. CASE Trap(t)
  BY <1>2 DEF Trap, OneNotice
<1>3. CASE Enter(t)
  BY <1>3 DEF Enter, OneNotice
<1>4. CASE SingleStep(t)
  BY <1>4 DEF SingleStep, OneNotice
<1>5. CASE Stray(t)
  BY <1>5 DEF Stray, OneNotice
<1>6. CASE Raise(t)
  BY <1>6 DEF Raise, OneNotice
<1>7. CASE OwnStep(t)
  BY <1>7 DEF OwnStep, OneNotice
<1>8. CASE Handler(t)
  BY <1>8 DEF Handler, OneNotice
<1>9. CASE \E u \in Tids : CreateThread(t, u)
  BY <1>9 DEF CreateThread, OneNotice
<1>10. CASE \E u \in Tids : \E p \in Pids : CreateProcess(t, u, p)
  BY <1>10 DEF CreateProcess, OneNotice
<1>11. CASE StartProcess(t)
  BY <1>11 DEF StartProcess, OneNotice, NewOK
<1>12. CASE \E d \in Dlls : LoadDll(t, d)
  BY <1>12 DEF LoadDll, OneNotice
<1>13. CASE \E d \in Dlls : UnloadDll(t, d)
  BY <1>13 DEF UnloadDll, OneNotice
<1>14. CASE Exit(t)
  BY <1>14 DEF Exit, OneNotice
<1> QED BY <1>1, <1>2, <1>3, <1>4, <1>5, <1>6, <1>7, <1>8,
           <1>9, <1>10, <1>11, <1>12, <1>13, <1>14 DEF Program

LEMMA ProgramStepper ==
    ASSUME IInv, \A u \in Tids : StepOK(u), OneStepper, NEW t \in Tids, Program(t)
    PROVE  OneStepper'
<1>1. UNCHANGED pending_single_steps
  BY ProgramFrame
<1>2. \A u \in Tids : pending_single_steps[u] # NoAddr => proc'[u] = proc[u]
  BY ProgramFrame DEF StepOK
<1> QED BY <1>1, <1>2 DEF OneStepper

LEMMA ProgramArmed ==
    ASSUME IInv, Steady, \A u \in Tids : StepOK(u), ArmedOrStepping,
           NEW t \in Tids, Program(t)
    PROVE  ArmedOrStepping'
<1> SUFFICES ASSUME NEW q \in tracked, NEW a \in Addrs,
                    code'[<<q, a>>] \notin {INT3, Unmapped},
                    ~HookPlacementDue(q, a)'
             PROVE  \E u \in Tids : proc'[u] = q /\ pending_single_steps[u] = a
  BY ProgramFrame DEF ArmedOrStepping
<1> DEFINE k == <<q, a>>
<1>1. k \in Keys /\ q \in Pids /\ q # NoPid
  BY DebugAssumption DEF Keys, IInv, TypeOK, DebugAssumption
<1>2. PICK v \in Tids : proc[v] = q
  BY DEF IInv, TrackedAreLive
<1>3. CASE code'[k] # code[k]
  <2>1. k[1] = proc[t] /\ event'[t] = "LOAD_DLL" /\ arg'[t] = DllOf[k[2]]
    BY <1>1, <1>2, <1>3, ProgramCode, SteadyIsUndisturbed
  <2>2. proc'[t] = q
    BY <1>1, <2>1, ProgramFrame
  <2> QED BY <2>1, <2>2 DEF HookPlacementDue
<1>4. CASE code'[k] = code[k]
  <2>1. ~HookPlacementDue(q, a)
    BY <1>1, ProgramFrame DEF HookPlacementDue
  <2>2. PICK u \in Tids : proc[u] = q /\ pending_single_steps[u] = a
    BY <1>4, <2>1 DEF ArmedOrStepping
  <2> QED BY <1>1, <2>2, ProgramFrame
<1> QED BY <1>3, <1>4

-----------------------------------------------------------------------------
(* What a handler does to the threads, and what it plants and lifts.       *)

LEMMA HandlerFrame ==
    ASSUME IInv, NEW t \in Tids, handle_event(t)
    PROVE  /\ event[t] # "none" /\ event'[t] = "none" /\ born' = born
           /\ proc[t] \in Pids /\ proc'[t] \in {proc[t], NoPid}
           /\ event[t] = "EXIT_PROCESS" => proc'[t] = NoPid
           /\ tracked' \subseteq tracked \union {proc[t]}
           /\ event[t] # "CREATE_PROCESS" => tracked' \subseteq tracked
           /\ \A u \in Tids \ {t} :
                /\ event'[u] = event[u] /\ arg'[u] = arg[u]
                /\ proc'[u] = proc[u] /\ at'[u] = at[u] /\ tf'[u] = tf[u]
                /\ pending_single_steps'[u] = pending_single_steps[u]
<1> USE DEF Delivered, Continue, Gone, thrVars, TypeOK
<1>1. event[t] # "none" => proc[t] \in Pids
  BY DEF IInv, ThreadOK
<1>2. TypeOK
  BY DEF IInv
<1>3. CASE on_create_process(t)
  BY <1>3, <1>1, <1>2 DEF on_create_process
<1>4. CASE on_load_dll(t)
  BY <1>4, <1>1, <1>2 DEF on_load_dll
<1>5. CASE on_notice(t)
  BY <1>5, <1>1, <1>2 DEF on_notice
<1>6. CASE on_exit_thread(t)
  BY <1>6, <1>1, <1>2 DEF on_exit_thread
<1>7. CASE on_exit_process(t)
  BY <1>7, <1>1, <1>2 DEF on_exit_process
<1>8. CASE on_breakpoint(t)
  BY <1>8, <1>1, <1>2 DEF on_breakpoint, handle_api_hook, resume_from_hook
<1>9. CASE on_single_step(t)
  BY <1>9, <1>1, <1>2 DEF on_single_step, handle_rehook
<1>10. CASE on_exception(t)
  BY <1>10, <1>1, <1>2 DEF on_exception
<1> QED BY <1>3, <1>4, <1>5, <1>6, <1>7, <1>8, <1>9, <1>10 DEF handle_event

LEMMA ApplyPlants ==
    ASSUME HMTypeOK, NEW S, NEW refused, apply_hook(S, refused), NEW k \in Keys
    PROVE  /\ hooks[k] = NoHook /\ hooks'[k] # NoHook => k \in S /\ code'[k] = INT3
           /\ hooks[k] # NoHook => hooks'[k] = hooks[k] /\ code'[k] = code[k]
           /\ code'[k] # code[k] => code'[k] = INT3 /\ hooks[k] = NoHook
           /\ k \in S /\ refused = {} /\ hooks[k] = NoHook
                => code'[k] \in {INT3, Unmapped}
BY BytesAssumption DEF apply_hook, Planted, HMTypeOK, BytesAssumption

LEMMA HandlerPlants ==
    ASSUME IInv, NEW t \in Tids, handle_event(t), NEW k \in Keys,
           hooks[k] = NoHook, hooks'[k] # NoHook
    PROVE  /\ k[1] = proc[t] /\ code'[k] = INT3
           /\ \/ event[t] = "CREATE_PROCESS"
              \/ event[t] = "LOAD_DLL" /\ DllOf[k[2]] = arg[t]
              \/ event[t] = "SINGLE_STEP" /\ pending_single_steps[t] = k[2]
<1>1. HMTypeOK
  BY DEF IInv, TypeOK
<1> USE <1>1, ApplyPlants DEF Delivered, hmVars
<1>2. CASE on_create_process(t)
  BY <1>2 DEF on_create_process, Apis
<1>3. CASE on_load_dll(t)
  <2>1. CASE UNCHANGED hmVars
    BY <2>1
  <2>2. ASSUME NEW refused, apply_hook(Apis(proc[t], {arg[t]}), refused)
        PROVE  k \in Apis(proc[t], {arg[t]}) /\ code'[k] = INT3
    BY <2>2
  <2> QED BY <1>3, <2>1, <2>2 DEF on_load_dll, Apis
<1>4. CASE on_notice(t) \/ on_exit_thread(t) \/ on_exception(t)
  BY <1>4 DEF on_notice, on_exit_thread, on_exception
<1>5. CASE on_exit_process(t)
  BY <1>5 DEF on_exit_process, UnmapImage
<1>6. CASE on_breakpoint(t)
  BY <1>6 DEF on_breakpoint, handle_api_hook, resume_from_hook, remove_hook,
              HMTypeOK
<1>7. CASE on_single_step(t)
  BY <1>7 DEF on_single_step, handle_rehook
<1> QED BY <1>2, <1>3, <1>4, <1>5, <1>6, <1>7 DEF handle_event

LEMMA HandlerCode ==
    ASSUME IInv, NEW t \in Tids, handle_event(t), NEW k \in Keys,
           code'[k] # code[k]
    PROVE  /\ k[1] = proc[t]
           /\ \/ event[t] = "EXIT_PROCESS" /\ code'[k] = Unmapped
              \/ code'[k] = INT3 /\ hooks[k] = NoHook
              \/ /\ event[t] = "BREAKPOINT" /\ k = <<proc[t], at[t]>>
                 /\ hooks[k] # NoHook /\ hooks'[k] = NoHook
                 /\ code'[k] # Unmapped
                 /\ UNCHANGED <<proc, at>>
                 /\ "SetContext" \notin Adversity => tf'[t]
                 /\ StepsAreNamed => pending_single_steps'[t] = at[t]
<1>1. HMTypeOK /\ TypeOK
  BY DEF IInv, TypeOK
<1>2. k[1] = proc[t]
  BY HandlerTouches DEF IInv
<1> USE <1>1, <1>2, ApplyPlants DEF Delivered, hmVars
<1>3. CASE on_create_process(t)
  BY <1>3 DEF on_create_process
<1>4. CASE on_load_dll(t)
  BY <1>4 DEF on_load_dll
<1>5. CASE on_notice(t) \/ on_exit_thread(t) \/ on_exception(t)
  BY <1>5 DEF on_notice, on_exit_thread, on_exception
<1>6. CASE on_exit_process(t)
  BY <1>6 DEF on_exit_process, UnmapImage
<1>7. CASE on_breakpoint(t)
  <2> DEFINE j == <<proc[t], at[t]>>
  <2>1. resume_from_hook(t) /\ event[t] = "BREAKPOINT" /\ UNCHANGED <<proc, at>>
    BY <1>7 DEF on_breakpoint, handle_api_hook
  <2>2. \E refused : remove_hook(j, refused)
    BY <2>1 DEF resume_from_hook
  <2>3. /\ k = j /\ hooks[k] # NoHook /\ hooks'[k] = NoHook
        /\ code'[k] # Unmapped
    BY <2>2, BytesAssumption DEF remove_hook, HMTypeOK, BytesAssumption
  <2>4. "SetContext" \notin Adversity => tf'[t]
    BY <2>1 DEF resume_from_hook, Outcomes, TypeOK
  <2>5. StepsAreNamed => pending_single_steps'[t] = at[t]
    BY <2>1 DEF resume_from_hook, Outcomes, StepsAreNamed, TypeOK
  <2> QED BY <2>1, <2>3, <2>4, <2>5
<1>8. CASE on_single_step(t)
  BY <1>8 DEF on_single_step, handle_rehook
<1> QED BY <1>3, <1>4, <1>5, <1>6, <1>7, <1>8 DEF handle_event

(* A pending step that a handler leaves to its own thread is the one of a  *)
(* hook it has just lifted, or one it left as it was.                      *)
LEMMA HandlerPends ==
    ASSUME IInv, Steady, HooksOK, NEW t \in Tids, StepOK(t), handle_event(t),
           pending_single_steps'[t] # NoAddr
    PROVE  LET k == <<proc[t], at[t]>> IN
           /\ k \in Keys
           /\ pending_single_steps'[t] = at[t] /\ at'[t] = at[t] /\ tf'[t]
           /\ proc'[t] = proc[t]
           /\ hooks'[k] = NoHook /\ code'[k] # Unmapped
           /\ pending_single_steps[t] = at[t] \/ hooks[k] # NoHook
<1> DEFINE k == <<proc[t], at[t]>>
<1>1. TypeOK /\ HMTypeOK
  BY DEF IInv, TypeOK
<1>2. CASE event[t] # "BREAKPOINT"
  <2>1. pending_single_steps[t] = NoAddr \/ event[t] = "SINGLE_STEP"
    BY <1>2, HandlerFrame DEF StepOK
  <2> QED BY <1>1, <1>2, <2>1 DEF handle_event, on_create_process, on_load_dll, on_notice,
       on_exit_thread, on_exit_process, on_breakpoint, on_single_step,
       on_exception, handle_rehook, Delivered, TypeOK
<1>3. CASE event[t] = "BREAKPOINT"
  <2>1. on_breakpoint(t)
    BY <1>3 DEF handle_event, on_create_process, on_load_dll, on_notice,
       on_exit_thread, on_exit_process, on_breakpoint, on_single_step,
       on_exception, Delivered
  <2>2. k \in Keys
    BY <1>1, <1>3, HandlerFrame DEF Keys, TypeOK, IInv, ThreadOK
  <2>3. at'[t] = at[t] /\ proc'[t] = proc[t]
    BY <2>1 DEF on_breakpoint
  <2>4. CASE is_our_hook(proc[t], at[t]) /\ resume_from_hook(t)
    <3>1. hooks[k] # NoHook /\ hooks[k] # Unmapped /\ code[k] # Unmapped
      BY <1>1, <2>2, <2>4, HandlerFrame, BytesAssumption
      DEF is_our_hook, HooksOK, HMTypeOK, BytesAssumption
    <3>2. remove_hook(k, {})
      BY <2>4 DEF resume_from_hook, Refusals, Steady
    <3>3. hooks'[k] = NoHook /\ code'[k] # Unmapped
      BY <1>1, <2>2, <3>1, <3>2 DEF remove_hook, HMTypeOK
    <3>4. tf'[t] /\ pending_single_steps'[t] = at[t]
      BY <1>1, <2>4 DEF resume_from_hook, Outcomes, Steady, TypeOK
    <3> QED BY <2>2, <2>3, <3>1, <3>3, <3>4
  <2>5. CASE UNCHANGED <<hmVars, tf, pending_single_steps>>
    <3>1. pending_single_steps[t] # NoAddr
      BY <2>5
    <3> QED BY <1>3, <2>2, <2>3, <2>5, <3>1 DEF StepOK, hmVars
  <2> QED BY <2>1, <2>4, <2>5 DEF on_breakpoint, handle_api_hook
<1> QED BY <1>2, <1>3

LEMMA HandlerSteps ==
    ASSUME IInv, Steady, \A u \in Tids : NewOK(u) /\ StepOK(u) /\ LoadOK(u),
           OneStepper, HooksOK, NEW t \in Tids, handle_event(t), NEW s \in Tids
    PROVE  StepOK(s)'
<1>1. CASE s = t
  <2>1. event'[t] = "none" /\ proc[t] # NoPid
    BY HandlerFrame, DebugAssumption DEF DebugAssumption
  <2>2. ASSUME pending_single_steps'[t] # NoAddr
        PROVE  /\ tf'[t] /\ proc'[t] # NoPid
               /\ at'[t] = pending_single_steps'[t]
               /\ hooks'[<<proc'[t], at'[t]>>] = NoHook
               /\ code'[<<proc'[t], at'[t]>>] # Unmapped
    BY <2>1, <2>2, HandlerPends
  <2> QED BY <1>1, <2>1, <2>2 DEF StepOK
<1>2. CASE s # t /\ pending_single_steps[s] = NoAddr
  BY <1>2, HandlerFrame DEF StepOK
<1>3. CASE s # t /\ pending_single_steps[s] # NoAddr
  <2> DEFINE k == <<proc[s], at[s]>>
  <2>1. /\ k \in Keys /\ at[s] = pending_single_steps[s] /\ proc[s] # NoPid
        /\ hooks[k] = NoHook /\ code[k] # Unmapped
    BY <1>3 DEF StepOK, Keys, IInv, TypeOK
  <2>2. ASSUME hooks'[k] # NoHook PROVE FALSE
    <3>1. /\ proc[s] = proc[t]
          /\ \/ event[t] = "CREATE_PROCESS"
             \/ event[t] = "LOAD_DLL" /\ DllOf[at[s]] = arg[t]
             \/ event[t] = "SINGLE_STEP" /\ pending_single_steps[t] = at[s]
      BY <2>1, <2>2, HandlerPlants
    <3> QED BY <1>3, <2>1, <3>1 DEF NewOK, LoadOK, OneStepper
  <2>3. ASSUME code'[k] = Unmapped PROVE FALSE
    <3>1. proc[s] = proc[t] /\ event[t] = "EXIT_PROCESS"
      BY <2>1, <2>3, HandlerCode, BytesAssumption DEF BytesAssumption
    <3> QED BY <1>3, <3>1 DEF IInv, ExitOK
  <2> QED BY <1>3, <2>1, <2>2, <2>3, HandlerFrame DEF StepOK
<1> QED BY <1>1, <1>2, <1>3

LEMMA HandlerStepper ==
    ASSUME IInv, Steady, \A u \in Tids : StepOK(u), OneStepper, HooksOK,
           NEW t \in Tids, handle_event(t)
    PROVE  OneStepper'
<1>1. ASSUME NEW u \in Tids \ {t}, proc'[t] = proc'[u],
             pending_single_steps'[t] # NoAddr,
             pending_single_steps'[t] = pending_single_steps'[u]
      PROVE  FALSE
  <2>1. proc[u] = proc[t] /\ pending_single_steps[u] = at[t]
    BY <1>1, HandlerFrame, HandlerPends
  <2>2. hooks[<<proc[t], at[t]>>] = NoHook
    <3>1. pending_single_steps[u] # NoAddr
      BY <1>1, HandlerFrame
    <3> QED BY <2>1, <3>1 DEF StepOK
  <2>3. pending_single_steps[t] = at[t]
    BY <1>1, <2>2, HandlerPends
  <2> QED BY <1>1, <2>1, <2>3, HandlerFrame DEF OneStepper
<1>2. \A u, v \in Tids \ {t} :
        /\ proc'[u] = proc'[v]
        /\ pending_single_steps'[u] # NoAddr
        /\ pending_single_steps'[u] = pending_single_steps'[v]
        => u = v
  BY HandlerFrame DEF OneStepper
<1> QED BY <1>1, <1>2 DEF OneStepper

LEMMA HandlerNotice ==
    ASSUME IInv, OneNotice, NEW t \in Tids, handle_event(t)
    PROVE  OneNotice'
BY HandlerFrame DEF OneNotice, Traps

LEMMA HandlerLoads ==
    ASSUME IInv, Steady, \A u \in Tids : NewOK(u) /\ StepOK(u) /\ LoadOK(u),
           OneNotice, HooksOK, NEW t \in Tids, handle_event(t), NEW s \in Tids
    PROVE  LoadOK(s)'
<1> SUFFICES ASSUME event'[s] = "LOAD_DLL" PROVE LoadOK(s)'
  BY DEF LoadOK
<1>1. /\ s # t /\ event[s] = "LOAD_DLL"
      /\ proc'[s] = proc[s] /\ arg'[s] = arg[s] /\ proc[s] # NoPid
  BY HandlerFrame DEF IInv, ThreadOK
<1>2. ASSUME NEW k \in Apis(proc[s], {arg[s]}), hooks'[k] # NoHook
      PROVE  FALSE
  <2>1. k \in Keys /\ hooks[k] = NoHook /\ k[1] = proc[s] /\ DllOf[k[2]] = arg[s]
    BY <1>1 DEF Apis, LoadOK
  <2>2. /\ proc[t] = proc[s]
        /\ \/ event[t] = "CREATE_PROCESS"
           \/ event[t] = "LOAD_DLL"
           \/ event[t] = "SINGLE_STEP" /\ pending_single_steps[t] = k[2]
    BY <1>2, <2>1, HandlerPlants
  <2>3. k[2] # NoAddr
    BY <2>1, DebugAssumption DEF Keys, DebugAssumption
  <2>4. event[t] # "CREATE_PROCESS"
    BY <1>1, <2>2 DEF NewOK
  <2>5. event[t] # "LOAD_DLL"
    BY <1>1, <2>2 DEF OneNotice, Traps
  <2> QED BY <1>1, <2>1, <2>2, <2>3, <2>4, <2>5 DEF LoadOK
<1>3. ASSUME NEW u \in Tids, proc'[u] = proc[s],
             pending_single_steps'[u] # NoAddr,
             DllOf[pending_single_steps'[u]] = arg[s]
      PROVE  FALSE
  <2>1. u = t
    <3>1. ASSUME u # t
          PROVE  /\ proc[u] = proc[s]
                 /\ pending_single_steps'[u] = pending_single_steps[u]
      BY <1>3, <3>1, HandlerFrame
    <3> QED BY <1>1, <1>3, <3>1 DEF LoadOK
  <2> DEFINE k == <<proc[t], at[t]>>
  <2>2. /\ k \in Keys /\ pending_single_steps'[t] = at[t] /\ proc[t] = proc[s]
        /\ pending_single_steps[t] = at[t] \/ hooks[k] # NoHook
    BY <1>3, <2>1, HandlerPends
  <2>3. k \in Apis(proc[s], {arg[s]})
    BY <1>3, <2>1, <2>2 DEF Apis
  <2> QED BY <1>1, <1>3, <2>1, <2>2, <2>3 DEF LoadOK
<1> QED BY <1>1, <1>2, <1>3 DEF LoadOK, Apis

LEMMA HandlerHooks ==
    ASSUME IInv, HooksOK, NEW t \in Tids, handle_event(t)
    PROVE  HooksOK'
<1>1. \A u \in Tids : proc'[u] # NoPid => proc'[u] = proc[u]
  BY HandlerFrame
<1>2. \A u \in Tids : proc'[u] # NoPid => proc'[u] \in born'
  BY <1>1, HandlerFrame DEF HooksOK
<1>3. ASSUME NEW k \in Keys, k[1] \notin born PROVE hooks'[k] = NoHook
  <2>1. proc[t] \in born
    BY HandlerFrame, DebugAssumption DEF HooksOK, DebugAssumption
  <2> QED BY <1>3, <2>1, HandlerPlants DEF HooksOK
<1>4. ASSUME NEW k \in Keys, NEW u \in Tids, proc'[u] = k[1], hooks'[k] # NoHook
      PROVE  code'[k] = INT3
  <2>1. proc'[u] # NoPid /\ proc[u] = k[1]
    BY <1>1, <1>4, DebugAssumption DEF Keys, DebugAssumption
  <2>2. CASE hooks[k] = NoHook
    BY <1>4, <2>2, HandlerPlants
  <2>3. CASE hooks[k] # NoHook
    <3>1. code[k] = INT3
      BY <2>1, <2>3 DEF HooksOK
    <3>2. ASSUME code'[k] # code[k] PROVE FALSE
      <4>1. k[1] = proc[t] /\ event[t] = "EXIT_PROCESS"
        BY <1>4, <2>3, <3>2, HandlerCode
      <4>2. u # t
        BY <2>1, <4>1, HandlerFrame
      <4> QED BY <2>1, <4>1, <4>2 DEF IInv, ExitOK
    <3> QED BY <3>1, <3>2
  <2> QED BY <2>2, <2>3
<1> QED BY <1>2, <1>3, <1>4, HandlerFrame DEF HooksOK

(* Where nothing is refused, a handler that plants leaves none of its keys *)
(* readable and unhooked.                                                  *)
LEMMA PlacementArms ==
    ASSUME HMTypeOK, Undisturbed, NEW S, NEW refused \in Refusals(S),
           apply_hook(S, refused), NEW k \in Keys, k \in S,
           hooks[k] # NoHook => code[k] = INT3
    PROVE  code'[k] \in {INT3, Unmapped}
<1>1. refused = {}
  BY DEF Refusals, Undisturbed
<1> QED BY <1>1, ApplyPlants

LEMMA HandlerArmed ==
    ASSUME IInv, Steady, \A u \in Tids : StepOK(u), HooksOK, ArmedOrStepping,
           NEW t \in Tids, handle_event(t)
    PROVE  ArmedOrStepping'
<1> SUFFICES ASSUME NEW q \in tracked', NEW a \in Addrs,
                    code'[<<q, a>>] \notin {INT3, Unmapped},
                    ~HookPlacementDue(q, a)'
             PROVE  \E u \in Tids : proc'[u] = q /\ pending_single_steps'[u] = a
  BY DEF ArmedOrStepping
<1> DEFINE k == <<q, a>>
<1>1. HMTypeOK /\ TypeOK /\ q \in Pids /\ k \in Keys
  BY HandlerFrame DEF IInv, TypeOK, Keys
<1>2. \A u \in Tids : proc[u] = q => (hooks[k] # NoHook => code[k] = INT3)
  BY <1>1 DEF HooksOK
<1>3. CASE event[t] = "CREATE_PROCESS" /\ proc[t] = q
  <2>1. on_create_process(t)
    BY <1>3 DEF handle_event, on_create_process, on_load_dll, on_notice,
       on_exit_thread, on_exit_process, on_breakpoint, on_single_step,
       on_exception, Delivered
  <2>2. k \in Apis(q, Dlls)
    BY <1>1, DebugAssumption DEF Apis, Keys, DebugAssumption
  <2> QED BY <1>1, <1>2, <1>3, <2>1, <2>2, PlacementArms, SteadyIsUndisturbed
      DEF on_create_process
<1>4. CASE /\ event[t] = "LOAD_DLL" /\ proc[t] = q
           /\ arg[t] = DllOf[a] /\ q \in tracked
  <2>1. on_load_dll(t)
    BY <1>4 DEF handle_event, on_create_process, on_load_dll, on_notice,
       on_exit_thread, on_exit_process, on_breakpoint, on_single_step,
       on_exception, Delivered
  <2>2. k \in Apis(q, {arg[t]})
    BY <1>1, <1>4 DEF Apis
  <2> QED BY <1>1, <1>2, <1>4, <2>1, <2>2, PlacementArms, SteadyIsUndisturbed
      DEF on_load_dll
<1>5. CASE q \in tracked /\ ~HookPlacementDue(q, a)
  <2>1. CASE code'[k] # code[k]
    <3>1. q = proc[t] /\ pending_single_steps'[t] = a /\ event[t] = "BREAKPOINT"
      BY <1>1, <2>1, HandlerCode, SteadyIsUndisturbed
    <3>2. proc'[t] = proc[t]
      BY <3>1 DEF handle_event, on_create_process, on_load_dll, on_notice,
       on_exit_thread, on_exit_process, on_breakpoint, on_single_step,
       on_exception, Delivered
    <3> QED BY <3>1, <3>2
  <2>2. CASE code'[k] = code[k]
    <3>1. PICK u \in Tids : proc[u] = q /\ pending_single_steps[u] = a
      BY <1>5, <2>2 DEF ArmedOrStepping
    <3>2. CASE u # t
      BY <3>1, <3>2, HandlerFrame
    <3>3. CASE u = t /\ event[t] = "BREAKPOINT"
      <4>1. proc'[t] = proc[t] /\ pending_single_steps'[t] \in {a, at[t]}
        BY <1>1, <3>1, <3>3 DEF handle_event, on_create_process, on_load_dll, on_notice,
       on_exit_thread, on_exit_process, on_breakpoint, on_single_step,
       on_exception, handle_api_hook, resume_from_hook,
             Delivered, TypeOK
      <4>2. at[t] = a
        BY <1>1, <3>1, <3>3, DebugAssumption DEF StepOK, DebugAssumption
      <4> QED BY <3>1, <3>3, <4>1, <4>2
    <3>4. CASE u = t /\ event[t] # "BREAKPOINT"
      <4>1. a # NoAddr
        BY DebugAssumption DEF DebugAssumption
      <4>2. event[t] = "SINGLE_STEP" /\ at[t] = a
        BY <3>1, <3>4, <4>1, HandlerFrame DEF StepOK
      <4>3. handle_rehook(t)
        BY <3>1, <3>4, <4>1, <4>2 DEF handle_event, on_create_process, on_load_dll, on_notice,
       on_exit_thread, on_exit_process, on_breakpoint, on_single_step,
       on_exception, Delivered
      <4>4. code'[k] \in {INT3, Unmapped}
        BY <1>1, <1>2, <1>5, <3>1, <3>4, <4>3, PlacementArms, SteadyIsUndisturbed
        DEF handle_rehook
      <4> QED BY <4>4
    <3> QED BY <3>2, <3>3, <3>4
  <2> QED BY <2>1, <2>2
<1>6. HookPlacementDue(q, a) =>
        /\ proc[t] = q
        /\ \/ event[t] = "CREATE_PROCESS"
           \/ event[t] = "LOAD_DLL" /\ arg[t] = DllOf[a]
  <2>1. ASSUME NEW u \in Tids \ {t}
        PROVE  event'[u] = event[u] /\ arg'[u] = arg[u] /\ proc'[u] = proc[u]
    BY HandlerFrame
  <2> QED BY <2>1 DEF HookPlacementDue
<1>7. \/ q \in tracked
      \/ event[t] = "CREATE_PROCESS" /\ proc[t] = q
  <2>1. /\ tracked' \subseteq tracked \union {proc[t]}
        /\ event[t] # "CREATE_PROCESS" => tracked' \subseteq tracked
    BY HandlerFrame
  <2> QED BY <2>1
<1> QED BY <1>3, <1>4, <1>5, <1>6, <1>7

LEMMA NextCover ==
    ASSUME IInv, Steady, CoverInv, [Next]_vars
    PROVE  CoverInv'
<1>1. CASE \E t \in Tids : Program(t)
  BY <1>1, ProgramNew, ProgramSteps, ProgramLoads, ProgramStepper, ProgramNotice,
     ProgramHooks, ProgramArmed, SteadyIsUndisturbed DEF CoverInv
<1>2. CASE \E t \in Tids : handle_event(t)
  BY <1>2, HandlerNew, HandlerSteps, HandlerLoads, HandlerStepper, HandlerNotice,
     HandlerHooks, HandlerArmed DEF CoverInv
<1>3. CASE Timeout
  <2>1. UNCHANGED <<hmVars, pending_single_steps, extVars>> /\ tracked' = {}
    BY <1>3 DEF Timeout
  <2> QED BY <2>1 DEF hmVars, extVars, CoverInv, NewOK, StepOK, LoadOK, OneStepper,
          OneNotice, HooksOK, ArmedOrStepping
<1>4. CASE UNCHANGED <<hmVars, tracked, pending_single_steps, extVars>>
  BY <1>4 DEF hmVars, extVars, CoverInv, NewOK, StepOK, LoadOK, OneStepper,
          OneNotice, HooksOK, ArmedOrStepping, HookPlacementDue
<1> QED BY <1>1, <1>2, <1>3, <1>4 DEF Next, request_stop, Ended, vars, dbgVars

(* Coverage of the hooks, for any number of processes, threads, DLLs and   *)
(* APIs, any cap, and whatever traps at once: in a tracked process every   *)
(* API that is mapped and has had its event is armed, or lifted for a      *)
(* thread of that process that will plant it again.                        *)
THEOREM ArmedOrSteppingHolds ==
    ASSUME Steady
    PROVE  Spec => []ArmedOrStepping
<1>1. ASSUME Init PROVE CoverInv
  <2>1. \A t \in Tids : NewOK(t) /\ StepOK(t) /\ LoadOK(t)
    BY <1>1, DebugAssumption DEF Init, NewOK, StepOK, LoadOK, DebugAssumption
  <2>2. OneStepper /\ OneNotice /\ HooksOK
    BY <1>1, DebugAssumption
    DEF Init, OneStepper, OneNotice, HooksOK, Traps, DebugAssumption
  <2>3. ArmedOrStepping
    BY <1>1, DebugAssumption
    DEF Init, ArmedOrStepping, HookPlacementDue, DebugAssumption
  <2> QED BY <2>1, <2>2, <2>3 DEF CoverInv
<1>2. IInv /\ CoverInv /\ [Next]_vars => CoverInv'
  BY NextCover
<1>3. CoverInv => ArmedOrStepping
  BY DEF CoverInv
<1> QED BY <1>1, <1>2, <1>3, InitInv, NextInv, PTL DEF Spec

-----------------------------------------------------------------------------
(* The same where threads may be killed with their trap flag set: then a   *)
(* kill is the only thing that costs an API its hook.  A thread in its     *)
(* step stays in it until its SINGLE_STEP or its exit event is handled, so *)
(* of the invariant HooksOK is enough.                                     *)
Watched ==
    Adversity \subseteq {"OpenThread", "OwnStep", "Simultaneous", "KillMidStep"}

LEMMA WatchedIsUndisturbed ==
    Watched => Undisturbed /\ StepsAreNamed /\ "SetContext" \notin Adversity
BY DEF Watched, Undisturbed, StepsAreNamed

LEMMA ProgramStepsOn ==
    ASSUME IInv, NEW t \in Tids, Program(t), NEW s \in Tids,
           proc[s] # NoPid, tf[s] \/ event[s] = "SINGLE_STEP"
    PROVE  at'[s] = at[s] /\ (tf'[s] \/ event'[s] = "SINGLE_STEP")
<1>1. TypeOK
  BY DEF IInv
<1>2. pc[t] = "new" => ~tf[t] /\ event[t] = "none"
  BY DEF IInv, ThreadOK
<1> QED BY <1>1, <1>2
    DEF Program, CallApi, Trap, Enter, SingleStep, Stray, Raise, OwnStep,
       Handler, CreateThread, CreateProcess, StartProcess, LoadDll, UnloadDll,
       Exit, Working, CanRun, CanTrap, Frozen, Post, thrVars, TypeOK

LEMMA ProgramCovers ==
    ASSUME IInv, Undisturbed, NEW t \in Tids, Program(t),
           NEW p \in tracked, NEW a \in Addrs, Covered(p, a)
    PROVE  Covered(p, a)'
<1> DEFINE k == <<p, a>>
<1>1. k \in Keys /\ p # NoPid
  BY DebugAssumption DEF Keys, IInv, TypeOK, DebugAssumption
<1>2. PICK v \in Tids : proc[v] = p
  BY DEF IInv, TrackedAreLive
<1>3. CASE code'[k] # code[k]
  <2>1. p = proc[t] /\ event'[t] = "LOAD_DLL" /\ arg'[t] = DllOf[a]
    BY <1>1, <1>2, <1>3, ProgramCode
  <2>2. proc'[t] = p
    BY <1>1, <2>1, ProgramFrame
  <2> QED BY <2>1, <2>2 DEF HookPlacementDue, Covered
<1>4. CASE code'[k] = code[k] /\ code[k] \in {INT3, Unmapped}
  BY <1>4 DEF Covered
<1>5. CASE HookPlacementDue(p, a)
  BY <1>1, <1>5, ProgramFrame DEF HookPlacementDue, Covered
<1>6. CASE Stepping(p, a)
  <2>1. PICK u \in Tids :
          /\ proc[u] = p /\ at[u] = a /\ pending_single_steps[u] = a
          /\ tf[u] \/ event[u] = "SINGLE_STEP"
    BY <1>6 DEF Stepping
  <2>2. /\ at'[u] = a
        /\ tf'[u] \/ event'[u] = "SINGLE_STEP"
    BY <1>1, <2>1, ProgramStepsOn
  <2>3. proc'[u] = p /\ pending_single_steps'[u] = a
    BY <1>1, <2>1, ProgramFrame
  <2> QED BY <2>2, <2>3 DEF Stepping, Covered
<1> QED BY <1>3, <1>4, <1>5, <1>6 DEF Covered

(* The step of a thread ends with its rehook, its exit, or not at all.     *)
LEMMA HandlerStepsOn ==
    ASSUME IInv, Watched, HooksOK, NEW t \in Tids, handle_event(t),
           NEW p \in tracked', p \in tracked, NEW a \in Addrs,
           proc[t] = p, at[t] = a, pending_single_steps[t] = a,
           tf[t] \/ event[t] = "SINGLE_STEP"
    PROVE  Covered(p, a)' \/ KilledInStep(p, a)
<1> DEFINE k == <<p, a>>
<1>1. HMTypeOK /\ TypeOK /\ a # NoAddr /\ k \in Keys /\ proc[t] \in Pids
  BY HandlerFrame, DebugAssumption DEF IInv, TypeOK, Keys, DebugAssumption
<1>2. hooks[k] # NoHook => code[k] = INT3
  BY <1>1 DEF HooksOK
<1>3. CASE on_single_step(t)
  <2>1. handle_rehook(t)
    BY <1>1, <1>3 DEF on_single_step
  <2>2. \E refused \in Refusals({k}) : apply_hook({k}, refused)
    BY <2>1 DEF handle_rehook
  <2>3. code'[k] \in {INT3, Unmapped}
    BY <1>1, <1>2, <2>2, PlacementArms, WatchedIsUndisturbed
  <2>4. UNCHANGED proc
    BY <1>3 DEF on_single_step
  <2> QED BY <2>3, <2>4 DEF Covered
<1>4. CASE on_exit_thread(t)
  BY <1>1, <1>4, HandlerFrame DEF on_exit_thread, Delivered, KilledInStep
<1>5. CASE on_exit_process(t)
  BY <1>5 DEF on_exit_process, Continue
<1>6. CASE on_breakpoint(t)
  <2>1. event[t] = "BREAKPOINT" /\ UNCHANGED <<proc, at>>
    BY <1>6 DEF on_breakpoint, Delivered
  <2>2. tf'[t] /\ pending_single_steps'[t] = a
    BY <1>1, <1>6, <2>1, WatchedIsUndisturbed
    DEF on_breakpoint, handle_api_hook, resume_from_hook, Outcomes, TypeOK
  <2> QED BY <2>1, <2>2 DEF Stepping, Covered
<1>7. CASE \/ on_create_process(t) \/ on_load_dll(t)
           \/ on_notice(t) \/ on_exception(t)
  <2>1. UNCHANGED <<proc, at, tf, pending_single_steps>> /\ event[t] # "SINGLE_STEP"
    BY <1>7 DEF on_create_process, on_load_dll, on_notice, on_exception, Delivered,
         thrVars
  <2> QED BY <2>1 DEF Stepping, Covered
<1> QED BY <1>3, <1>4, <1>5, <1>6, <1>7 DEF handle_event

(* Placing the hooks of a process, or of one DLL, arms what was due.       *)
LEMMA HandlerPlacesDue ==
    ASSUME IInv, Watched, HooksOK, NEW t \in Tids, handle_event(t),
           NEW a \in Addrs,
           \/ event[t] = "CREATE_PROCESS"
           \/ event[t] = "LOAD_DLL" /\ arg[t] = DllOf[a] /\ proc[t] \in tracked
    PROVE  UNCHANGED proc /\ code'[<<proc[t], a>>] \in {INT3, Unmapped}
<1> DEFINE k == <<proc[t], a>>
<1>1. HMTypeOK /\ k \in Keys /\ proc[t] \in Pids
  BY HandlerFrame DEF IInv, TypeOK, Keys
<1>2. hooks[k] # NoHook => code[k] = INT3
  BY <1>1 DEF HooksOK
<1>3. CASE event[t] = "CREATE_PROCESS"
  <2>1. on_create_process(t)
    BY <1>3 DEF handle_event, on_create_process, on_load_dll, on_notice,
       on_exit_thread, on_exit_process, on_breakpoint, on_single_step,
       on_exception, Delivered
  <2>2. k \in Apis(proc[t], Dlls)
    BY <1>1, DebugAssumption DEF Apis, Keys, DebugAssumption
  <2> QED BY <1>1, <1>2, <2>1, <2>2, PlacementArms, WatchedIsUndisturbed
      DEF on_create_process, thrVars
<1>4. CASE event[t] = "LOAD_DLL"
  <2>1. on_load_dll(t)
    BY <1>4 DEF handle_event, on_create_process, on_load_dll, on_notice,
       on_exit_thread, on_exit_process, on_breakpoint, on_single_step,
       on_exception, Delivered
  <2>2. k \in Apis(proc[t], {arg[t]})
    BY <1>1, <1>4 DEF Apis
  <2> QED BY <1>1, <1>2, <1>4, <2>1, <2>2, PlacementArms, WatchedIsUndisturbed
      DEF on_load_dll, thrVars
<1> QED BY <1>3, <1>4

LEMMA HandlerCovers ==
    ASSUME IInv, Watched, HooksOK, NEW t \in Tids, handle_event(t),
           NEW p \in tracked', NEW a \in Addrs, p \in tracked => Covered(p, a)
    PROVE  Covered(p, a)' \/ KilledInStep(p, a)
<1> DEFINE k == <<p, a>>
<1>1. TypeOK /\ p \in Pids /\ k \in Keys
  BY HandlerFrame DEF IInv, TypeOK, Keys
<1>2. CASE p \notin tracked
  <2>1. event[t] = "CREATE_PROCESS" /\ p = proc[t]
    BY <1>2, HandlerFrame
  <2> QED BY <2>1, HandlerPlacesDue DEF Covered
<1>3. CASE p \in tracked /\ HookPlacementDue(p, a)
  <2>1. PICK u \in Tids : /\ proc[u] = p
                          /\ \/ event[u] = "CREATE_PROCESS"
                             \/ event[u] = "LOAD_DLL" /\ arg[u] = DllOf[a]
    BY <1>3 DEF HookPlacementDue
  <2>2. CASE u = t
    BY <1>3, <2>1, <2>2, HandlerPlacesDue DEF Covered
  <2>3. CASE u # t
    <3>1. event'[u] = event[u] /\ arg'[u] = arg[u] /\ proc'[u] = proc[u]
      BY <2>3, HandlerFrame
    <3> QED BY <2>1, <3>1 DEF HookPlacementDue, Covered
  <2> QED BY <2>2, <2>3
<1>4. CASE p \in tracked /\ Stepping(p, a)
  <2>1. PICK u \in Tids :
          /\ proc[u] = p /\ at[u] = a /\ pending_single_steps[u] = a
          /\ tf[u] \/ event[u] = "SINGLE_STEP"
    BY <1>4 DEF Stepping
  <2>2. CASE u = t
    BY <1>4, <2>1, <2>2, HandlerStepsOn
  <2>3. CASE u # t
    <3>1. /\ event'[u] = event[u] /\ proc'[u] = proc[u]
          /\ at'[u] = at[u] /\ tf'[u] = tf[u]
          /\ pending_single_steps'[u] = pending_single_steps[u]
      BY <2>3, HandlerFrame
    <3> QED BY <2>1, <3>1 DEF Stepping, Covered
  <2> QED BY <2>2, <2>3
<1>5. CASE p \in tracked /\ code[k] \in {INT3, Unmapped}
  <2>1. CASE code'[k] \in {INT3, Unmapped}
    BY <2>1 DEF Covered
  <2>2. CASE code'[k] \notin {INT3, Unmapped}
    <3>1. /\ k = <<proc[t], at[t]>> /\ UNCHANGED <<proc, at>>
          /\ tf'[t] /\ pending_single_steps'[t] = at[t]
      BY <1>1, <1>5, <2>2, HandlerCode, WatchedIsUndisturbed
    <3> QED BY <3>1 DEF Stepping, Covered
  <2> QED BY <2>1, <2>2
<1> QED BY <1>2, <1>3, <1>4, <1>5 DEF Covered

LEMMA NextHooks ==
    ASSUME IInv, Undisturbed, HooksOK, [Next]_vars
    PROVE  HooksOK'
<1>1. CASE \E t \in Tids : Program(t)
  BY <1>1, ProgramHooks
<1>2. CASE \E t \in Tids : handle_event(t)
  BY <1>2, HandlerHooks
<1>3. CASE UNCHANGED <<hmVars, extVars>>
  BY <1>3 DEF hmVars, extVars, HooksOK
<1> QED BY <1>1, <1>2, <1>3 DEF Next, Timeout, request_stop, Ended, vars

(* No step but the handling of a kill takes its coverage from an API, for  *)
(* any number of processes, threads, DLLs and APIs, and any cap.           *)
THEOREM CoverageIsKeptHolds ==
    ASSUME Watched
    PROVE  Spec => CoverageIsKept
<1> DEFINE Kept ==
      \A p \in tracked' : \A a \in Addrs :
        (p \in tracked => Covered(p, a)) => Covered(p, a)' \/ KilledInStep(p, a)
<1>1. Init => HooksOK
  BY DebugAssumption DEF Init, HooksOK, DebugAssumption
<1>2. IInv /\ HooksOK /\ [Next]_vars => HooksOK'
  BY NextHooks, WatchedIsUndisturbed
<1>3. IInv /\ HooksOK /\ [Next]_vars => [Kept]_vars
  <2> SUFFICES ASSUME IInv, HooksOK, Next, NEW p \in tracked', NEW a \in Addrs,
                      p \in tracked => Covered(p, a)
               PROVE  Covered(p, a)' \/ KilledInStep(p, a)
    OBVIOUS
  <2>1. CASE \E t \in Tids : handle_event(t)
    BY <2>1, HandlerCovers
  <2>2. CASE \E t \in Tids : Program(t)
    <3>1. p \in tracked
      BY <2>2, ProgramFrame
    <3> QED BY <2>2, <3>1, ProgramCovers, WatchedIsUndisturbed
  <2>3. CASE Timeout
    BY <2>3 DEF Timeout
  <2>4. CASE UNCHANGED <<hmVars, tracked, pending_single_steps, extVars>>
    BY <2>4 DEF hmVars, extVars, Covered, HookPlacementDue, Stepping
  <2> QED BY <2>1, <2>2, <2>3, <2>4 DEF Next, request_stop, Ended, vars, dbgVars
<1> QED BY <1>1, <1>2, <1>3, InitInv, NextInv, PTL DEF Spec, CoverageIsKept

-----------------------------------------------------------------------------
(* Why a thread is resumed past its INT3: a child above the cap on tracked *)
(* processes, a child that gets the id the root had (it counts as the root *)
(* and is not added, debug_thread.py:357, 383), or a kernel32 call that    *)
(* fails.  There is no other reason.                                       *)
Uncapped == IsFiniteSet(Pids) /\ Cardinality(Pids) <= MaxTracked

ContextsObey == {"OpenThread", "SetContext", "PidReuse"} \intersect Adversity = {}

(* The root is tracked, and any process that got past its first event.     *)
BegunOK(t) ==
    loop = "wait" /\ proc[t] # NoPid =>
      \/ proc[t] # RootPid /\ (pc[t] = "new" \/ event[t] = "CREATE_PROCESS")
      \/ proc[t] \in tracked

AlignedInv ==
    /\ RootPid \in born
    /\ \A t \in Tids : NewOK(t) /\ BegunOK(t)
    /\ ResumesAligned

LEMMA CapNotReached ==
    ASSUME TypeOK, Uncapped, NEW q \in Pids, q \notin tracked
    PROVE  ~(Cardinality(tracked) >= MaxTracked)
<1>1. tracked \subseteq Pids /\ tracked # Pids
  BY DEF TypeOK
<1>2. Cardinality(tracked) \in Nat /\ Cardinality(Pids) \in Nat
  BY <1>1, FS_Subset, FS_CardinalityType DEF Uncapped
<1>3. Cardinality(tracked) < Cardinality(Pids)
  BY <1>1, <1>2, FS_Subset DEF Uncapped
<1> QED BY <1>2, <1>3, DebugAssumption DEF Uncapped, DebugAssumption

LEMMA ProgramBegun ==
    ASSUME IInv, ContextsObey, RootPid \in born, \A u \in Tids : BegunOK(u),
           NEW t \in Tids, Program(t), NEW s \in Tids
    PROVE  BegunOK(s)'
<1>1. TypeOK /\ BegunOK(s) /\ BegunOK(t)
  BY DEF IInv
<1>2. \A u \in Tids : proc[u] = NoPid => event[u] = "none"
  BY DEF IInv, ThreadOK
<1> USE <1>1, <1>2 DEF Working, CanRun, CanTrap, Frozen, Post, dbgVars, thrVars,
        TypeOK, BegunOK, ContextsObey
<1>3. CASE \E a \in Addrs : CallApi(t, a)
  BY <1>3 DEF CallApi
<1>4. CASE Trap(t)
  BY <1>4 DEF Trap
<1>5. CASE Enter(t)
  BY <1>5 DEF Enter
<1>6. CASE SingleStep(t)
  BY <1>6 DEF SingleStep
<1>7. CASE Stray(t)
  BY <1>7 DEF Stray
<1>8. CASE Raise(t)
  BY <1>8 DEF Raise
<1>9. CASE OwnStep(t)
  BY <1>9 DEF OwnStep
<1>10. CASE Handler(t)
  BY <1>10 DEF Handler
<1>11. CASE \E u \in Tids : CreateThread(t, u)
  BY <1>11 DEF CreateThread
<1>12. CASE \E u \in Tids : \E p \in Pids : CreateProcess(t, u, p)
  BY <1>12 DEF CreateProcess
<1>13. CASE StartProcess(t)
  BY <1>13 DEF StartProcess
<1>14. CASE \E d \in Dlls : LoadDll(t, d)
  BY <1>14 DEF LoadDll
<1>15. CASE \E d \in Dlls : UnloadDll(t, d)
  BY <1>15 DEF UnloadDll
<1>16. CASE Exit(t)
  BY <1>16 DEF Exit
<1> QED BY <1>3, <1>4, <1>5, <1>6, <1>7, <1>8, <1>9, <1>10,
           <1>11, <1>12, <1>13, <1>14, <1>15, <1>16 DEF Program

LEMMA HandlerBegun ==
    ASSUME IInv, Uncapped, \A u \in Tids : NewOK(u) /\ BegunOK(u),
           NEW t \in Tids, handle_event(t), NEW s \in Tids
    PROVE  BegunOK(s)'
<1>1. event[t] # "none" /\ loop = "wait" /\ TypeOK /\ proc[t] \in Pids
  BY HandlerFrame DEF handle_event, on_create_process, on_load_dll, on_notice,
       on_exit_thread, on_exit_process, on_breakpoint, on_single_step,
       on_exception, Delivered, IInv
<1>2. CASE s = t
  <2>1. CASE on_create_process(t)
    BY <1>1, <1>2, <2>1, CapNotReached
    DEF on_create_process, Continue, thrVars, BegunOK, IInv, TrackedAreLive
  <2>2. CASE on_exit_thread(t) \/ on_exit_process(t)
    BY <1>1, <1>2, <2>2 DEF on_exit_thread, on_exit_process, Gone, BegunOK, TypeOK
  <2>3. CASE on_load_dll(t) \/ on_notice(t) \/ on_exception(t)
    BY <1>1, <1>2, <2>3 DEF on_load_dll, on_notice, on_exception, Delivered,
       Continue, thrVars, BegunOK, IInv, ThreadOK
  <2>4. CASE on_breakpoint(t) \/ on_single_step(t)
    BY <1>1, <1>2, <2>4 DEF on_breakpoint, on_single_step, Delivered,
       Continue, BegunOK, IInv, ThreadOK
  <2> QED BY <2>1, <2>2, <2>3, <2>4 DEF handle_event
<1>3. CASE s # t
  <2>1. proc'[s] = proc[s] /\ event'[s] = event[s]
    BY <1>3, HandlerFrame
  <2>2. pc'[s] = pc[s]
    BY <1>1, <1>3 DEF handle_event, on_create_process, on_load_dll, on_notice,
       on_exit_thread, on_exit_process, on_breakpoint, on_single_step,
       on_exception, handle_api_hook, resume_from_hook, Gone, thrVars, TypeOK
  <2>3. loop' = "wait" => proc[t] = proc[s] \/ tracked \ {proc[t]} \subseteq tracked'
    BY DEF handle_event, on_create_process, on_load_dll, on_notice,
       on_exit_thread, on_exit_process, on_breakpoint, on_single_step,
       on_exception, Continue
  <2>4. tracked \subseteq tracked' \/ event[t] = "EXIT_PROCESS" \/ loop' # "wait"
    BY DEF handle_event, on_create_process, on_load_dll, on_notice,
       on_exit_thread, on_exit_process, on_breakpoint, on_single_step,
       on_exception, Continue, Delivered
  <2>5. event[t] = "EXIT_PROCESS" => proc[s] # proc[t]
    BY <1>3 DEF IInv, ExitOK
  <2> QED BY <1>1, <2>1, <2>2, <2>3, <2>4, <2>5 DEF BegunOK
<1> QED BY <1>2, <1>3

LEMMA NextAligned ==
    ASSUME IInv, Uncapped, ContextsObey, AlignedInv, [Next]_vars
    PROVE  AlignedInv'
<1>1. ASSUME NEW t \in Tids, Program(t) PROVE ResumesAligned'
  BY <1>1 DEF Program, CallApi, Trap, Enter, SingleStep, Stray, Raise, OwnStep,
       Handler, CreateThread, CreateProcess, StartProcess, LoadDll, UnloadDll,
       Exit,
       Working, thrVars, IInv, TypeOK, AlignedInv, ResumesAligned
<1>2. ASSUME NEW t \in Tids, handle_event(t) PROVE ResumesAligned'
  <2>1. CASE on_breakpoint(t)
    <3>1. proc[t] \in tracked
      BY <2>1, HandlerFrame, <1>2, DebugAssumption
      DEF on_breakpoint, Delivered, AlignedInv, BegunOK, IInv, ThreadOK,
          DebugAssumption
    <3>2. handle_api_hook(t) => resume_from_hook(t)
      BY <3>1 DEF handle_api_hook, Outcomes, ContextsObey
    <3>3. resume_from_hook(t) => pc' = [pc EXCEPT ![t] = "entry"]
      BY DEF resume_from_hook, Outcomes, ContextsObey
    <3>4. \/ pc' = [pc EXCEPT ![t] = "entry"]
          \/ pc' = [pc EXCEPT ![t] = "seh_bp"]
      BY <2>1, <3>2, <3>3 DEF on_breakpoint
    <3> QED BY <3>4 DEF IInv, TypeOK, AlignedInv, ResumesAligned
  <2>2. CASE ~on_breakpoint(t)
    BY <1>2, <2>2 DEF handle_event, on_create_process, on_load_dll, on_notice,
       on_exit_thread, on_exit_process, on_breakpoint, on_single_step,
       on_exception, Gone, thrVars, IInv, TypeOK, AlignedInv, ResumesAligned
  <2> QED BY <2>1, <2>2
<1>3. CASE \E t \in Tids : Program(t)
  BY <1>1, <1>3, ProgramFrame, ProgramNew, ProgramBegun DEF AlignedInv
<1>4. CASE \E t \in Tids : handle_event(t)
  BY <1>2, <1>4, HandlerFrame, HandlerNew, HandlerBegun DEF AlignedInv
<1>5. CASE Timeout \/ request_stop \/ UNCHANGED vars
  BY <1>5 DEF Timeout, request_stop, vars, dbgVars, extVars, AlignedInv, NewOK,
       BegunOK, ResumesAligned
<1> QED BY <1>3, <1>4, <1>5 DEF Next, Ended

(* Every thread goes on at the entry of the API it called, when the cap is *)
(* not reached and thread contexts can be read and written: whatever else  *)
(* happens to the code, the DLLs and the process ids.                      *)
THEOREM ResumesAlignedHolds ==
    ASSUME Uncapped, ContextsObey
    PROVE  Spec => []ResumesAligned
<1>1. Init => AlignedInv
  BY DebugAssumption
  DEF Init, AlignedInv, NewOK, BegunOK, ResumesAligned, DebugAssumption
<1>2. IInv /\ AlignedInv /\ [Next]_vars => AlignedInv'
  BY NextAligned
<1>3. AlignedInv => ResumesAligned
  BY DEF AlignedInv
<1> QED BY <1>1, <1>2, <1>3, InitInv, NextInv, PTL DEF Spec

-----------------------------------------------------------------------------
(* The thread that owes a hook.  Where contexts can be written, threads    *)
(* are not killed in a step and have their ids, the entry of a thread in   *)
(* pending_single_steps is that of the hook it stands on.                  *)
StepsEnd == {"SetContext", "KillMidStep", "GetThreadId"} \intersect Adversity = {}

OwedOK(t) ==
    pending_single_steps[t] # NoAddr =>
        /\ at[t] = pending_single_steps[t]
        /\ \/ event[t] = "SINGLE_STEP"
           \/ tf[t] /\ event[t] \in {"none", "BREAKPOINT"}

LEMMA ProgramOwed ==
    ASSUME IInv, StepsEnd, NEW t \in Tids, Program(t), NEW s \in Tids, OwedOK(s)
    PROVE  OwedOK(s)'
<1> SUFFICES ASSUME pending_single_steps[s] # NoAddr PROVE OwedOK(s)'
  BY ProgramFrame DEF OwedOK
<1>1. /\ tf[s] \/ event[s] = "SINGLE_STEP"
      /\ event[s] \in {"none", "BREAKPOINT", "SINGLE_STEP"}
  BY DEF OwedOK
<1>2. proc[s] # NoPid
  BY <1>1 DEF IInv, ThreadOK
<1>3. at'[s] = at[s] /\ (tf'[s] \/ event'[s] = "SINGLE_STEP")
  BY <1>1, <1>2, ProgramStepsOn
<1>4. pending_single_steps'[s] = pending_single_steps[s]
  BY ProgramFrame
<1>5. event'[s] \in {"none", "BREAKPOINT", "SINGLE_STEP"}
  <2>1. TypeOK
    BY DEF IInv
  <2>2. pc[t] = "new" => ~tf[t] /\ event[t] = "none"
    BY DEF IInv, ThreadOK
  <2> QED BY <1>1, <1>2, <2>1, <2>2
      DEF Program, CallApi, Trap, Enter, SingleStep, Stray, Raise, OwnStep,
       Handler, CreateThread, CreateProcess, StartProcess, LoadDll, UnloadDll,
       Exit, Working, CanRun, CanTrap, Frozen, Post, thrVars, TypeOK, StepsEnd
<1> QED BY <1>3, <1>4, <1>5 DEF OwedOK

LEMMA HandlerOwed ==
    ASSUME IInv, StepsEnd, NEW t \in Tids, handle_event(t), NEW s \in Tids,
           OwedOK(s)
    PROVE  OwedOK(s)'
<1>1. CASE s # t
  BY <1>1, HandlerFrame DEF OwedOK
<1>2. CASE s = t
  <2> SUFFICES ASSUME pending_single_steps'[t] # NoAddr PROVE OwedOK(t)'
    BY <1>2 DEF OwedOK
  <2>1. TypeOK /\ event'[t] = "none"
    BY HandlerFrame DEF IInv
  <2>2. CASE on_breakpoint(t)
    BY <1>2, <2>1, <2>2
    DEF on_breakpoint, handle_api_hook, resume_from_hook, Delivered, Outcomes,
        StepsEnd, OwedOK, TypeOK
  <2>3. CASE on_single_step(t)
    BY <2>1, <2>3 DEF on_single_step, handle_rehook, TypeOK
  <2>4. CASE ~on_breakpoint(t) /\ ~on_single_step(t)
    BY <1>2, <2>1, <2>4
    DEF handle_event, on_create_process, on_load_dll, on_notice, on_exit_thread,
        on_exit_process, on_exception, Delivered, OwedOK, TypeOK
  <2> QED BY <2>2, <2>3, <2>4
<1> QED BY <1>1, <1>2

OwedInv == StepsEnd => \A t \in Tids : OwedOK(t)

LEMMA NextOwed ==
    ASSUME IInv, OwedInv, [Next]_vars
    PROVE  OwedInv'
<1> SUFFICES ASSUME StepsEnd, NEW s \in Tids PROVE OwedOK(s)'
  BY DEF OwedInv
<1>1. OwedOK(s)
  BY DEF OwedInv
<1>2. CASE \E t \in Tids : Program(t)
  BY <1>1, <1>2, ProgramOwed
<1>3. CASE \E t \in Tids : handle_event(t)
  BY <1>1, <1>3, HandlerOwed
<1>4. CASE UNCHANGED <<pending_single_steps, extVars>>
  BY <1>1, <1>4 DEF extVars, OwedOK
<1> QED BY <1>2, <1>3, <1>4 DEF Next, Timeout, request_stop, Ended, vars, dbgVars

(* A single step that the loop claims is one it asked for.                 *)
THEOREM ClaimedStepsAreOursHolds ==
    ASSUME StepsEnd PROVE Spec => []ClaimedStepsAreOurs
<1>1. Init => OwedInv
  BY DEF Init, OwedInv, OwedOK
<1>2. IInv /\ OwedInv /\ [Next]_vars => OwedInv'
  BY NextOwed
<1>3. OwedInv => ClaimedStepsAreOurs
  BY DEF OwedInv, OwedOK, ClaimedStepsAreOurs
<1> QED BY <1>1, <1>2, <1>3, InitInv, NextInv, PTL DEF Spec

-----------------------------------------------------------------------------
(* Refinement of HookLifecycle.                                            *)

armed == {k \in Keys : hooks[k] # NoHook}

mapped == {k \in Keys : code[k] # Unmapped}

MayRefuse == "Patch" \in Adversity

Wrote(new, k) ==
    \/ armed' = new /\ k \in mapped
    \/ armed' = armed /\ (MayRefuse \/ k \notin mapped)

(* The three ways the handlers write to the code of a process.             *)
LEMMA PlacementPlants ==
    ASSUME IInv, NEW S, NEW p \in Pids, NEW refused, apply_hook(S, refused),
           \A k \in S \intersect Keys : k[1] = p
    PROVE  \E A \in SUBSET {a \in Addrs : <<p, a>> \in mapped} :
             armed' = armed \union ({p} \X A)
<1> DEFINE A == {a \in Addrs : <<p, a>> \in Planted(S, refused)}
<1>1. \A k \in Keys : k \in Planted(S, refused) =>
        k[1] = p /\ code[k] \in Bytes /\ code[k] # NoHook /\ code[k] # Unmapped
  BY BytesAssumption DEF Planted, IInv, TypeOK, HMTypeOK, BytesAssumption
<1>2. \A k \in Keys : k \in armed' <=> k \in armed \/ k \in Planted(S, refused)
  BY <1>1 DEF apply_hook, Planted, armed
<1>3. \A k \in Keys : k \in Planted(S, refused) <=> k \in {p} \X A
  BY <1>1 DEF Keys
<1>4. {p} \X A \subseteq Keys
  BY DEF Keys
<1>5. armed' = armed \union ({p} \X A)
  BY <1>2, <1>3, <1>4 DEF armed
<1>6. A \subseteq {a \in Addrs : <<p, a>> \in mapped}
  BY <1>1 DEF mapped, Keys
<1> QED BY <1>5, <1>6

LEMMA RemovalLifts ==
    ASSUME IInv, NEW k \in Keys, hooks[k] # NoHook,
           NEW refused \in Refusals({k}), remove_hook(k, refused)
    PROVE  Wrote(armed \ {k}, k)
<1>1. HMTypeOK
  BY DEF IInv, TypeOK
<1>2. CASE code[k] # Unmapped /\ k \notin refused
  BY <1>1, <1>2 DEF remove_hook, HMTypeOK, armed, mapped, Wrote
<1>3. CASE ~(code[k] # Unmapped /\ k \notin refused)
  <2>1. armed' = armed
    BY <1>3 DEF remove_hook, armed
  <2>2. MayRefuse \/ k \notin mapped
    BY <1>3 DEF Refusals, MayRefuse, mapped
  <2> QED BY <2>1, <2>2 DEF Wrote
<1> QED BY <1>2, <1>3

LEMMA RehookPlants ==
    ASSUME IInv, NEW k \in Keys, NEW refused \in Refusals({k}),
           apply_hook({k}, refused)
    PROVE  Wrote(armed \union {k}, k)
<1>1. HMTypeOK
  BY DEF IInv, TypeOK
<1>2. CASE hooks[k] = NoHook /\ code[k] # Unmapped /\ k \notin refused
  <2>1. \A j \in Keys : hooks'[j] # NoHook <=> hooks[j] # NoHook \/ j = k
    BY <1>1, <1>2, BytesAssumption
    DEF apply_hook, Planted, HMTypeOK, BytesAssumption
  <2> QED BY <1>2, <2>1 DEF armed, mapped, Wrote
<1>3. CASE ~(hooks[k] = NoHook /\ code[k] # Unmapped /\ k \notin refused)
  <2>1. armed' = armed
    BY <1>1, <1>3 DEF apply_hook, Planted, HMTypeOK, armed
  <2>2. k \in armed \/ MayRefuse \/ k \notin mapped
    BY <1>3 DEF Refusals, MayRefuse, mapped, armed
  <2> QED BY <2>1, <2>2 DEF Wrote, armed
<1> QED BY <1>2, <1>3

LEMMA HandlerRefines ==
    ASSUME IInv, OwedInv, StepsAreNamed, NEW t \in Tids, handle_event(t)
    PROVE  [Lifecycle!Next]_(Lifecycle!hooking)
<1> USE DEF Lifecycle!hooking, hmVars
<1>1. TypeOK /\ proc[t] \in Pids /\ proc[t] # NoPid
  BY HandlerFrame, DebugAssumption DEF IInv, DebugAssumption
<1>2. CASE on_create_process(t) \/ on_load_dll(t)
  <2>1. UNCHANGED pending_single_steps
    BY <1>2 DEF on_create_process, on_load_dll
  <2>2. CASE UNCHANGED hmVars
    BY <2>1, <2>2
  <2>3. CASE \E D, refused : apply_hook(Apis(proc[t], D), refused)
    <3>1. \E A \in SUBSET {a \in Addrs : <<proc[t], a>> \in mapped} :
            armed' = armed \union ({proc[t]} \X A)
      BY <1>1, <2>3, PlacementPlants DEF Apis
    <3>2. Lifecycle!Plant(t)
      BY <1>1, <2>1, <3>1 DEF Lifecycle!Plant, armed, mapped
    <3> QED BY <3>2 DEF Lifecycle!Next
  <2> QED BY <1>2, <2>2, <2>3 DEF on_create_process, on_load_dll
<1>3. CASE on_notice(t) \/ on_exception(t) \/ on_exit_process(t)
  BY <1>3 DEF on_notice, on_exception, on_exit_process, UnmapImage
<1>4. CASE on_exit_thread(t)
  <2>1. CASE pending_single_steps[t] = NoAddr
    BY <1>1, <1>4, <2>1 DEF on_exit_thread, TypeOK
  <2>2. CASE pending_single_steps[t] # NoAddr
    <3>1. proc'[t] = NoPid
      BY <1>1, <1>4 DEF on_exit_thread, Gone, TypeOK
    <3>2. Lifecycle!Forget(t)
      BY <1>1, <1>4, <2>2, <3>1 DEF on_exit_thread, Lifecycle!Forget
    <3> QED BY <3>2 DEF Lifecycle!Next
  <2> QED BY <2>1, <2>2
<1>5. CASE on_breakpoint(t)
  <2>1. CASE UNCHANGED <<hmVars, pending_single_steps>>
    BY <2>1
  <2>2. CASE /\ is_our_hook(proc[t], at[t]) /\ proc[t] \in tracked
             /\ resume_from_hook(t)
    <3> DEFINE k == <<proc[t], at[t]>>
    <3>1. at[t] \in Addrs /\ k \in Keys /\ event[t] = "BREAKPOINT"
      BY <1>1, <1>5 DEF on_breakpoint, Delivered, IInv, ThreadOK, TypeOK, Keys
    <3>2. hooks[k] # NoHook
      BY <2>2 DEF is_our_hook
    <3>3. Wrote(armed \ {k}, k)
      BY <2>2, <3>1, <3>2, RemovalLifts DEF resume_from_hook
    <3>4. pending_single_steps' = [pending_single_steps EXCEPT ![t] = at[t]]
      BY <2>2 DEF resume_from_hook, Outcomes, StepsAreNamed
    <3>5. \/ pending_single_steps[t] \in {NoAddr, at[t]}
          \/ {"SetContext", "KillMidStep"} \intersect Adversity # {}
      BY <3>1 DEF OwedInv, OwedOK, StepsEnd, StepsAreNamed
    <3>6. PICK a \in Addrs : a = at[t]
      BY <3>1
    <3>7. Lifecycle!Lift(t, a)
      BY <2>2, <3>2, <3>3, <3>4, <3>5, <3>6, <3>1
      DEF Lifecycle!Lift, Lifecycle!Becomes, Wrote, armed, mapped, MayRefuse
    <3>8. \E b \in Addrs : Lifecycle!Lift(t, b)
      BY <3>7
    <3>9. Lifecycle!Next
      BY <3>8 DEF Lifecycle!Next
    <3> QED BY <3>9
  <2> QED BY <1>5, <2>1, <2>2 DEF on_breakpoint, handle_api_hook
<1>6. CASE on_single_step(t)
  <2>1. CASE pending_single_steps[t] = NoAddr
    BY <1>6, <2>1 DEF on_single_step
  <2>2. CASE pending_single_steps[t] # NoAddr
    <3> DEFINE k == <<proc[t], pending_single_steps[t]>>
    <3>1. handle_rehook(t)
      BY <1>6, <2>2 DEF on_single_step
    <3>2. pending_single_steps' = [pending_single_steps EXCEPT ![t] = NoAddr]
      BY <3>1 DEF handle_rehook
    <3>3. CASE proc[t] \notin tracked
      <4>1. Lifecycle!Forget(t)
        BY <2>2, <3>1, <3>2, <3>3 DEF handle_rehook, Lifecycle!Forget
      <4> QED BY <4>1 DEF Lifecycle!Next
    <3>4. CASE proc[t] \in tracked
      <4>1. k \in Keys
        BY <1>1, <2>2 DEF TypeOK, Keys
      <4>2. Wrote(armed \union {k}, k)
        BY <3>1, <3>4, <4>1, RehookPlants DEF handle_rehook
      <4>3. Lifecycle!Replant(t)
        BY <2>2, <3>2, <3>4, <4>2
        DEF Lifecycle!Replant, Lifecycle!Becomes, Wrote, armed, mapped, MayRefuse
      <4> QED BY <4>3 DEF Lifecycle!Next
    <3> QED BY <3>3, <3>4
  <2> QED BY <2>1, <2>2
<1> QED BY <1>2, <1>3, <1>4, <1>5, <1>6 DEF handle_event

(* The loop implements the life of a hook that its docstring promises,     *)
(* whatever else may fail: a hook is lifted in the name of the thread that *)
(* hit it, and the name is crossed off with a re-plant in its process, its *)
(* exit, or the end of the tracing of its process.                         *)
THEOREM ImplementsLifecycleHolds ==
    ASSUME StepsAreNamed PROVE Spec => ImplementsLifecycle
<1>1. Init => Lifecycle!Init /\ OwedInv
  BY DEF Init, Lifecycle!Init, OwedInv, OwedOK
<1>2. IInv /\ OwedInv /\ [Next]_vars => OwedInv'
  BY NextOwed
<1>3. IInv /\ OwedInv /\ [Next]_vars => [Lifecycle!Next]_(Lifecycle!hooking)
  <2> SUFFICES ASSUME IInv, OwedInv, [Next]_vars
               PROVE  [Lifecycle!Next]_(Lifecycle!hooking)
    OBVIOUS
  <2>1. CASE \E t \in Tids : handle_event(t)
    BY <2>1, HandlerRefines
  <2>2. CASE \E t \in Tids : Program(t)
    BY <2>2, ProgramFrame DEF Lifecycle!hooking
  <2>3. CASE Timeout \/ request_stop \/ Ended \/ UNCHANGED vars
    BY <2>3 DEF Timeout, request_stop, Ended, vars, hmVars, dbgVars,
                Lifecycle!hooking
  <2> QED BY <2>1, <2>2, <2>3 DEF Next
<1> QED BY <1>1, <1>2, <1>3, InitInv, NextInv, PTL
    DEF Spec, ImplementsLifecycle, Lifecycle!Spec

-----------------------------------------------------------------------------
(* Refinement of DebugLoop.                                                *)

(* The program's steps take no EXIT_PROCESS event back.                    *)
LEMMA ProgramLoops ==
    ASSUME IInv, NEW t \in Tids, Program(t)
    PROVE  [Loop!Next]_(Loop!vars)
<1>1. UNCHANGED <<loop, stop_event, tracked>> /\ loop = "wait"
  BY DEF Program, CallApi, Trap, Enter, SingleStep, Stray, Raise, OwnStep,
       Handler, CreateThread, CreateProcess, StartProcess, LoadDll, UnloadDll,
       Exit, Working, CanRun, CanTrap, dbgVars
<1>2. ASSUME NEW u \in Tids, event[u] = "EXIT_PROCESS"
      PROVE  event'[u] = "EXIT_PROCESS" /\ proc'[u] = proc[u]
  BY <1>2 DEF Program, CallApi, Trap, Enter, SingleStep, Stray, Raise, OwnStep,
       Handler, CreateThread, CreateProcess, StartProcess, LoadDll, UnloadDll,
       Exit, Post, Working, CanRun, CanTrap, Frozen, dbgVars, thrVars, IInv,
       TypeOK, ThreadOK
<1>3. \A p \in tracked : Exiting(p) => Exiting(p)'
  BY <1>2 DEF Exiting
<1>4. \/ targets' = targets
      \/ targets = "running" /\ targets' = "exiting"
  BY <1>1, <1>3 DEF targets
<1> QED BY <1>1, <1>4 DEF Loop!Next, Loop!TargetsExit, Loop!vars

(* An event leaves every tracked process tracked and as it is, but the one *)
(* that it is the last event of.                                           *)
LEMMA HandlerLoops ==
    ASSUME IInv, NEW t \in Tids, handle_event(t)
    PROVE  [Loop!Next]_(Loop!vars)
<1>1. PICK trk \in SUBSET Pids :
        /\ Continue(t, trk)
        /\ \A p \in tracked \ trk : p = proc[t] /\ event[t] = "EXIT_PROCESS"
  BY DEF handle_event, on_create_process, on_load_dll, on_notice,
       on_exit_thread, on_exit_process, on_breakpoint, on_single_step,
       on_exception, Delivered, IInv, TypeOK, ThreadOK
<1>2. loop = "wait" /\ UNCHANGED stop_event
  BY <1>1 DEF Continue, handle_event, on_create_process, on_load_dll, on_notice,
       on_exit_thread, on_exit_process, on_breakpoint, on_single_step,
       on_exception, Delivered
<1>3. CASE stop_event
  BY <1>1, <1>2, <1>3 DEF Continue, targets, Loop!Next, Loop!HandleEvent, Loop!End
<1>4. CASE ~stop_event /\ targets = "exiting"
  BY <1>1, <1>2, <1>4 DEF Continue, targets, Loop!Next, Loop!HandleEvent,
       Loop!HandleLastExit, Loop!End
<1>5. CASE ~stop_event /\ targets # "exiting"
  <2>1. PICK p \in tracked : ~Exiting(p)
    BY <1>2, <1>5 DEF targets
  <2>2. p \in trk
    BY <1>1, <2>1 DEF Exiting
  <2>3. loop' = "wait" /\ tracked' = trk
    BY <1>1, <1>5, <2>2 DEF Continue
  <2>4. ~Exiting(p)'
    <3>1. \A u \in Tids : event'[u] = "EXIT_PROCESS"
                            => event[u] = "EXIT_PROCESS" /\ u # t
      BY <1>1 DEF Continue, IInv, TypeOK
    <3>2. \A u \in Tids : u # t => proc'[u] = proc[u]
      BY DEF handle_event, on_create_process, on_load_dll, on_notice,
           on_exit_thread, on_exit_process, on_breakpoint, on_single_step,
           on_exception, Gone, thrVars, IInv, TypeOK
    <3> QED BY <2>1, <3>1, <3>2 DEF Exiting
  <2> QED BY <1>2, <1>5, <2>1, <2>2, <2>3, <2>4
      DEF targets, Loop!Next, Loop!HandleEvent
<1> QED BY <1>3, <1>4, <1>5

(* The loop ends only when asked or with its last tracked process, which   *)
(* is what a session relies on.                                            *)
THEOREM ImplementsLoopHolds == Spec => ImplementsLoop
<1>1. ASSUME Init PROVE Loop!Init
  <2>1. \A t \in Tids : event[t] # "EXIT_PROCESS"
    BY <1>1 DEF Init
  <2> QED BY <1>1, <2>1 DEF Init, Loop!Init, targets, Exiting
<1>2. IInv /\ [Next]_vars => [Loop!Next]_(Loop!vars)
  <2> SUFFICES ASSUME IInv, [Next]_vars
               PROVE  [Loop!Next]_(Loop!vars)
    OBVIOUS
  <2>1. CASE \E t \in Tids : handle_event(t)
    BY <2>1, HandlerLoops
  <2>2. CASE \E t \in Tids : Program(t)
    BY <2>2, ProgramLoops
  <2>3. CASE Timeout
    BY <2>3 DEF Timeout, targets, Loop!Next, Loop!Timeout, Loop!End
  <2>4. CASE request_stop
    BY <2>4 DEF request_stop, extVars, targets, Exiting, Loop!Next, Loop!RequestStop
  <2>5. CASE UNCHANGED vars
    BY <2>5 DEF vars, dbgVars, extVars, targets, Exiting, Loop!vars
  <2> QED BY <2>1, <2>2, <2>3, <2>4, <2>5 DEF Next, Ended
<1> QED BY <1>1, <1>2, InitInv, NextInv, PTL DEF Spec, ImplementsLoop, Loop!Spec
=============================================================================
