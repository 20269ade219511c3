--------------------------- MODULE HookLifecycle ---------------------------
(***************************************************************************)
(* What the docstring of core/debug_thread.py (lines 17-27) promises of an *)
(* API hook, whatever the debug events, threads and failures behind it:    *)
(* hooks are planted in the process whose event is handled; a hook is only *)
(* lifted in the name of a thread of that process that hit it, never while *)
(* the thread owes another one; and the name is only crossed off when the  *)
(* hook is back in the thread's process, or the thread ends, or its        *)
(* process is no longer traced.                                            *)
(*                                                                         *)
(* Which threads and processes there are, which are traced and what is     *)
(* mapped is not promised: home, traced and mapped are inputs, and may     *)
(* change in any way.                                                      *)
(***************************************************************************)
CONSTANTS
    Pids, Addrs, Tids,
    NoPid, NoAddr,
    MayRefuse,  \* whether the target's memory may refuse a write
    MayStray    \* whether a thread may leave its step unfinished

VARIABLES
    armed,   \* the keys <<pid, address>> with a hook in place
    stepper, \* what each thread will plant again: an address, or NoAddr
    home,    \* the process of each thread, or NoPid
    traced,  \* the processes that are traced
    mapped   \* the keys whose address is mapped

hooking == <<armed, stepper>>

Init ==
    /\ armed = {}
    /\ stepper = [t \in Tids |-> NoAddr]

(* Writing the byte of key k succeeds where it is mapped, unless refused.  *)
Becomes(new, k) ==
    \/ armed' = new /\ k \in mapped
    \/ armed' = armed /\ (MayRefuse \/ k \notin mapped)

Plant(t) ==
    /\ home[t] # NoPid
    /\ \E A \in SUBSET {a \in Addrs : <<home[t], a>> \in mapped} :
         armed' = armed \union ({home[t]} \X A)
    /\ UNCHANGED stepper

Lift(t, a) ==
    /\ home[t] \in traced /\ <<home[t], a>> \in armed
    /\ stepper[t] \in {NoAddr, a} \/ MayStray
    /\ Becomes(armed \ {<<home[t], a>>}, <<home[t], a>>)
    /\ stepper' = [stepper EXCEPT ![t] = a]

Replant(t) ==
    /\ stepper[t] # NoAddr /\ home[t] \in traced
    /\ Becomes(armed \union {<<home[t], stepper[t]>>}, <<home[t], stepper[t]>>)
    /\ stepper' = [stepper EXCEPT ![t] = NoAddr]

Forget(t) ==
    /\ stepper[t] # NoAddr
    /\ \/ home[t] \notin traced
       \/ home[t] # NoPid /\ home'[t] = NoPid
    /\ stepper' = [stepper EXCEPT ![t] = NoAddr]
    /\ UNCHANGED armed

Next ==
    \E t \in Tids :
        \/ Plant(t)
        \/ \E a \in Addrs : Lift(t, a)
        \/ Replant(t)
        \/ Forget(t)

Spec == Init /\ [][Next]_hooking
=============================================================================
