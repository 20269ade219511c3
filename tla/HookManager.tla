---------------------------- MODULE HookManager ----------------------------
(***************************************************************************)
(* core/api_hooker.py, class HookManager: the registry of INT3 hooks, and  *)
(* the byte that really stands at the entry of each monitored API in each  *)
(* debugged process.                                                       *)
(*                                                                         *)
(* A hook is keyed by <<pid, address>>, as self.hooks is.  The byte in the *)
(* target changes when the debugger writes it (apply_hook, remove_hook),   *)
(* and when Windows maps or unmaps the image it belongs to (external).     *)
(* Any kernel32 call may be refused: the refused keys are an argument of   *)
(* the operations.                                                         *)
(***************************************************************************)
EXTENDS Naturals

CONSTANTS
    Pids,      \* process ids
    Addrs,     \* entry addresses of the APIs of APIS_TO_HOOK
    Bytes,     \* what one byte of code can be
    INT3,      \* the byte 0xCC
    OwnByte,   \* the first byte of each API in its image on disk
    NoHook,    \* no entry in self.hooks
    Unmapped   \* the address is not readable in that process

Keys == Pids \X Addrs

ASSUME BytesAssumption ==
    /\ INT3 \in Bytes
    /\ OwnByte \in [Addrs -> Bytes]
    /\ NoHook \notin Bytes
    /\ Unmapped \notin Bytes

VARIABLES
    hooks,      \* self.hooks: the saved original byte, or NoHook
    api_names,  \* the addresses with a name in self.api_names
    code        \* external: the byte at each key, or Unmapped

hmVars == <<hooks, api_names, code>>

HMTypeOK ==
    /\ hooks \in [Keys -> Bytes \union {NoHook}]
    /\ api_names \in SUBSET Addrs
    /\ code \in [Keys -> Bytes \union {Unmapped}]

-----------------------------------------------------------------------------
is_our_hook(pid, addr) == hooks[<<pid, addr>>] # NoHook

(* Mutants: the result of the read is not checked; the early return for a  *)
(* key that is already hooked is missing.                                  *)
Planted_unread(S, refused) == {k \in S : hooks[k] = NoHook /\ k \notin refused}

Planted_again(S, refused) == {k \in S : code[k] # Unmapped /\ k \notin refused}

(* The calls of apply_hook that get as far as recording an entry: not yet  *)
(* hooked, readable, and no kernel32 call refused.  A byte that is already *)
(* 0xCC is recorded as it stands and not rewritten.                        *)
Planted(S, refused) ==
    {k \in S : hooks[k] = NoHook /\ code[k] # Unmapped /\ k \notin refused}

(* apply_hook on every key of S.  The final read-back only decides the     *)
(* return value: the entry and the byte stay as written.                   *)
apply_hook(S, refused) ==
    LET P == Planted(S, refused) IN
    /\ hooks' = [k \in Keys |-> IF k \in P THEN code[k] ELSE hooks[k]]
    /\ code' = [k \in Keys |-> IF k \in P THEN INT3 ELSE code[k]]
    /\ api_names' = api_names \union {k[2] : k \in P}

(* Mutant: the name goes with the entry, as the docstring of remove_hook   *)
(* has it, but without looking for other processes.                        *)
remove_hook_unnamed(k, refused) ==
    IF hooks[k] # NoHook /\ code[k] # Unmapped /\ k \notin refused
      THEN /\ code' = [code EXCEPT ![k] = hooks[k]]
           /\ hooks' = [hooks EXCEPT ![k] = NoHook]
           /\ api_names' = api_names \ {k[2]}
      ELSE UNCHANGED hmVars

(* remove_hook: the saved byte goes back and the entry is dropped, unless  *)
(* a kernel32 call fails: then both stay.  The name always stays.          *)
remove_hook(k, refused) ==
    /\ IF hooks[k] # NoHook /\ code[k] # Unmapped /\ k \notin refused
         THEN /\ code' = [code EXCEPT ![k] = hooks[k]]
              /\ hooks' = [hooks EXCEPT ![k] = NoHook]
         ELSE UNCHANGED <<hooks, code>>
    /\ UNCHANGED api_names

(* External: Windows maps the image of the keys S afresh, or unmaps it.    *)
MapImage(S) ==
    /\ code' = [k \in Keys |-> IF k \in S THEN OwnByte[k[2]] ELSE code[k]]
    /\ UNCHANGED <<hooks, api_names>>

UnmapImage(S) ==
    /\ code' = [k \in Keys |-> IF k \in S THEN Unmapped ELSE code[k]]
    /\ UNCHANGED <<hooks, api_names>>

-----------------------------------------------------------------------------
(* What HookManager allows whoever calls it: any operation, in any order,  *)
(* with images coming and going underneath.                                *)
HMInit ==
    /\ hooks = [k \in Keys |-> NoHook]
    /\ api_names = {}
    /\ code \in [Keys -> Bytes \union {Unmapped}]
    /\ \A k \in Keys : code[k] \in {OwnByte[k[2]], Unmapped}

HMNext ==
    \/ \E S \in SUBSET Keys : \E refused \in SUBSET S : apply_hook(S, refused)
    \/ \E k \in Keys : \E refused \in SUBSET {k} : remove_hook(k, refused)
    \/ \E S \in SUBSET Keys : MapImage(S)
    \/ \E S \in SUBSET Keys : UnmapImage(S)

HMSpec == HMInit /\ [][HMNext]_hmVars

-----------------------------------------------------------------------------
(* The saved byte is the image's own first byte, and every 0xCC found in a *)
(* target that is not the image's own is one the registry can undo.        *)
(* Recording 0xCC as an "original" byte, which the early return of         *)
(* apply_hook (api_hooker.py:142) and the order of its writes rule out,    *)
(* would leave an API trapping for ever.                                   *)
Restorable ==
    \A k \in Keys :
        /\ hooks[k] # NoHook => hooks[k] = OwnByte[k[2]]
        /\ code[k] = INT3 => \/ OwnByte[k[2]] = INT3
                             \/ hooks[k] # NoHook
        /\ code[k] \in {OwnByte[k[2]], INT3, Unmapped}

(* A name, once known, is kept, and every hook has one: the rehook after a *)
(* single step looks the name up while the entry is gone                   *)
(* (debug_thread.py:1719).                                                 *)
HooksAreNamed == \A k \in Keys : hooks[k] # NoHook => k[2] \in api_names
=============================================================================
