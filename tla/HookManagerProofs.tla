------------------------- MODULE HookManagerProofs -------------------------
(***************************************************************************)
(* Proofs about HookManager: whatever its caller does, and whatever images *)
(* Windows maps and unmaps, the registry can undo every byte it wrote.     *)
(***************************************************************************)
EXTENDS HookManager, TLAPS

(* apply_hook keeps the types, for any set of keys and any refusals.       *)
LEMMA ApplyType ==
    ASSUME BytesAssumption, HMTypeOK,
           NEW S \in SUBSET Keys, NEW refused, apply_hook(S, refused)
    PROVE  HMTypeOK'
<1> DEFINE P == Planted(S, refused)
<1>1. P \subseteq Keys /\ \A k \in P : code[k] \in Bytes
  BY DEF Planted, HMTypeOK
<1>2. hooks' = [k \in Keys |-> IF k \in P THEN code[k] ELSE hooks[k]]
  BY DEF apply_hook
<1>3. code' = [k \in Keys |-> IF k \in P THEN INT3 ELSE code[k]]
  BY DEF apply_hook
<1>4. api_names' = api_names \union {k[2] : k \in P}
  BY DEF apply_hook
<1> HIDE DEF P
<1>5. hooks' \in [Keys -> Bytes \union {NoHook}]
  BY <1>1, <1>2 DEF HMTypeOK
<1>6. code' \in [Keys -> Bytes \union {Unmapped}]
  BY <1>1, <1>3 DEF HMTypeOK, BytesAssumption
<1>7. api_names' \in SUBSET Addrs
  BY <1>1, <1>4 DEF HMTypeOK, Keys
<1> QED BY <1>5, <1>6, <1>7 DEF HMTypeOK

(* So does remove_hook.                                                    *)
LEMMA RemoveType ==
    ASSUME BytesAssumption, HMTypeOK,
           NEW k \in Keys, NEW refused, remove_hook(k, refused)
    PROVE  HMTypeOK'
<1>1. CASE hooks[k] # NoHook /\ code[k] # Unmapped /\ k \notin refused
  BY <1>1 DEF remove_hook, HMTypeOK
<1>2. CASE ~(hooks[k] # NoHook /\ code[k] # Unmapped /\ k \notin refused)
  BY <1>2 DEF remove_hook, HMTypeOK
<1> QED BY <1>1, <1>2

(* And the coming and going of images.                                     *)
LEMMA ImageType ==
    ASSUME BytesAssumption, HMTypeOK,
           NEW S \in SUBSET Keys, MapImage(S) \/ UnmapImage(S)
    PROVE  HMTypeOK'
<1>1. \A k \in Keys : OwnByte[k[2]] \in Bytes
  BY DEF Keys, BytesAssumption
<1> QED BY <1>1 DEF HMTypeOK, MapImage, UnmapImage

(* One step of any caller.                                                 *)
LEMMA HMTypeStep ==
    ASSUME HMTypeOK, [HMNext]_hmVars PROVE HMTypeOK'
<1> USE BytesAssumption
<1>1. CASE \E S \in SUBSET Keys : \E refused \in SUBSET S : apply_hook(S, refused)
  BY <1>1, ApplyType
<1>2. CASE \E k \in Keys : \E refused \in SUBSET {k} : remove_hook(k, refused)
  BY <1>2, RemoveType
<1>3. CASE \E S \in SUBSET Keys : MapImage(S) \/ UnmapImage(S)
  BY <1>3, ImageType
<1>4. CASE UNCHANGED hmVars
  BY <1>4 DEF hmVars, HMTypeOK
<1> QED BY <1>1, <1>2, <1>3, <1>4 DEF HMNext

(* The registry and the code it patches keep their types.                  *)
THEOREM HMTypeCorrect == HMSpec => []HMTypeOK
<1>1. HMInit => HMTypeOK
  BY BytesAssumption DEF HMInit, HMTypeOK
<1> QED BY <1>1, HMTypeStep, PTL DEF HMSpec

-----------------------------------------------------------------------------
(* apply_hook saves a true byte: 0xCC is only saved where it is the        *)
(* image's own, because a key that carries a planted one has an entry, and *)
(* apply_hook returns before it reads the byte of such a key.              *)
LEMMA ApplyRestorable ==
    ASSUME Restorable,
           NEW S \in SUBSET Keys, NEW refused, apply_hook(S, refused)
    PROVE  Restorable'
<1> SUFFICES ASSUME NEW k \in Keys
             PROVE  /\ hooks'[k] # NoHook => hooks'[k] = OwnByte[k[2]]
                    /\ code'[k] = INT3 => OwnByte[k[2]] = INT3 \/ hooks'[k] # NoHook
                    /\ code'[k] \in {OwnByte[k[2]], INT3, Unmapped}
  BY DEF Restorable
<1> DEFINE P == Planted(S, refused)
<1>1. /\ hooks'[k] = IF k \in P THEN code[k] ELSE hooks[k]
      /\ code'[k] = IF k \in P THEN INT3 ELSE code[k]
  BY DEF apply_hook
<1>2. k \in P => hooks[k] = NoHook /\ code[k] # Unmapped
  BY DEF Planted
<1> HIDE DEF P
<1>3. /\ hooks[k] # NoHook => hooks[k] = OwnByte[k[2]]
      /\ code[k] = INT3 => OwnByte[k[2]] = INT3 \/ hooks[k] # NoHook
      /\ code[k] \in {OwnByte[k[2]], INT3, Unmapped}
  BY DEF Restorable
<1>4. OwnByte[k[2]] # NoHook
  BY BytesAssumption DEF Keys, BytesAssumption
<1> QED BY <1>1, <1>2, <1>3, <1>4

(* remove_hook puts the image's own byte back before it drops the entry.   *)
LEMMA RemoveRestorable ==
    ASSUME HMTypeOK, Restorable,
           NEW r \in Keys, NEW refused, remove_hook(r, refused)
    PROVE  Restorable'
<1>1. CASE UNCHANGED <<hooks, code>>
  BY <1>1 DEF Restorable
<1>2. CASE /\ hooks[r] # NoHook
           /\ code' = [code EXCEPT ![r] = hooks[r]]
           /\ hooks' = [hooks EXCEPT ![r] = NoHook]
  <2> SUFFICES ASSUME NEW k \in Keys
               PROVE  /\ hooks'[k] # NoHook => hooks'[k] = OwnByte[k[2]]
                      /\ code'[k] = INT3 => OwnByte[k[2]] = INT3 \/ hooks'[k] # NoHook
                      /\ code'[k] \in {OwnByte[k[2]], INT3, Unmapped}
    BY DEF Restorable
  <2>1. CASE k = r
    <3>1. code'[k] = OwnByte[k[2]] /\ hooks'[k] = NoHook
      BY <1>2, <2>1 DEF HMTypeOK, Restorable
    <3> QED BY <3>1
  <2>2. CASE k # r
    <3>1. code'[k] = code[k] /\ hooks'[k] = hooks[k]
      BY <1>2, <2>2 DEF HMTypeOK
    <3> QED BY <3>1 DEF Restorable
  <2> QED BY <2>1, <2>2
<1> QED BY <1>1, <1>2 DEF remove_hook

(* A freshly mapped image holds its own bytes; an unmapped one holds none. *)
LEMMA ImageRestorable ==
    ASSUME Restorable, NEW S \in SUBSET Keys, MapImage(S) \/ UnmapImage(S)
    PROVE  Restorable'
<1> SUFFICES ASSUME NEW k \in Keys
             PROVE  /\ hooks'[k] # NoHook => hooks'[k] = OwnByte[k[2]]
                    /\ code'[k] = INT3 => OwnByte[k[2]] = INT3 \/ hooks'[k] # NoHook
                    /\ code'[k] \in {OwnByte[k[2]], INT3, Unmapped}
  BY DEF Restorable
<1>1. hooks'[k] = hooks[k] /\ code'[k] \in {code[k], OwnByte[k[2]], Unmapped}
  BY DEF MapImage, UnmapImage
<1>2. INT3 # Unmapped
  BY BytesAssumption DEF BytesAssumption
<1> QED BY <1>1, <1>2 DEF Restorable

(* Every byte the registry wrote can be undone by it, for any caller.      *)
THEOREM RestorableHolds == HMSpec => []Restorable
<1>1. HMInit => Restorable
  BY BytesAssumption DEF HMInit, Restorable, BytesAssumption
<1>2. HMTypeOK /\ Restorable /\ [HMNext]_hmVars => Restorable'
  <2> SUFFICES ASSUME HMTypeOK, Restorable, [HMNext]_hmVars PROVE Restorable'
    OBVIOUS
  <2>1. CASE \E S \in SUBSET Keys : \E refused \in SUBSET S : apply_hook(S, refused)
    BY <2>1, ApplyRestorable
  <2>2. CASE \E k \in Keys : \E refused \in SUBSET {k} : remove_hook(k, refused)
    BY <2>2, RemoveRestorable
  <2>3. CASE \E S \in SUBSET Keys : MapImage(S) \/ UnmapImage(S)
    BY <2>3, ImageRestorable
  <2>4. CASE UNCHANGED hmVars
    BY <2>4 DEF hmVars, Restorable
  <2> QED BY <2>1, <2>2, <2>3, <2>4 DEF HMNext
<1> QED BY <1>1, <1>2, HMTypeCorrect, PTL DEF HMSpec

(* Every hook has a name, and a rehook still finds it.                     *)
THEOREM HooksAreNamedHolds == HMSpec => []HooksAreNamed
<1>1. HMInit => HooksAreNamed
  BY DEF HMInit, HooksAreNamed
<1>2. HooksAreNamed /\ HMTypeOK /\ [HMNext]_hmVars => HooksAreNamed'
  <2> SUFFICES ASSUME HooksAreNamed, HMTypeOK, [HMNext]_hmVars,
                      NEW k \in Keys, hooks'[k] # NoHook
               PROVE  k[2] \in api_names'
    BY DEF HooksAreNamed
  <2>1. ASSUME NEW S \in SUBSET Keys, NEW refused, apply_hook(S, refused)
        PROVE  k[2] \in api_names'
    BY <2>1 DEF apply_hook, HooksAreNamed
  <2>2. ASSUME NEW r \in Keys, NEW refused, remove_hook(r, refused)
        PROVE  k[2] \in api_names'
    <3>1. hooks'[k] \in {hooks[k], NoHook} /\ api_names' = api_names
      BY <2>2 DEF remove_hook, HMTypeOK
    <3> QED BY <3>1 DEF HooksAreNamed
  <2>3. CASE \E S \in SUBSET Keys : MapImage(S) \/ UnmapImage(S)
    BY <2>3 DEF MapImage, UnmapImage, HooksAreNamed
  <2>4. CASE UNCHANGED hmVars
    BY <2>4 DEF hmVars, HooksAreNamed
  <2> QED BY <2>1, <2>2, <2>3, <2>4 DEF HMNext
<1> QED BY <1>1, <1>2, HMTypeCorrect, PTL DEF HMSpec
=============================================================================
