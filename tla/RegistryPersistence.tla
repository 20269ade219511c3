------------------------- MODULE RegistryPersistence -------------------------
(***************************************************************************)
(* detectors/registry_persistence_detector.py: the alert for a value that  *)
(* is written where programs are started from.  The detector looks for     *)
(* known paths as substrings, so a text is abstracted to the set of known  *)
(* paths that occur in it.                                                 *)
(***************************************************************************)
CONSTANTS
    CriticalPaths,    \* _CRITICAL_PATHS
    HighPaths,        \* _HIGH_PATHS
    PersistenceKeys,  \* constants.REGISTRY_PERSISTENCE_KEYS
    KeyPaths,         \* values of key_path: a path, a root's name, a hex handle
    ValueNames,
    InKey,            \* the paths that occur in a key_path
    InContext         \* and in a key_path joined to a value name

Paths == CriticalPaths \union HighPaths \union PersistenceKeys

ASSUME PathsAssumption ==
    /\ InKey \in [KeyPaths -> SUBSET Paths]
    /\ InContext \in [KeyPaths \X ValueNames -> SUBSET Paths]

(* "path in full_context or path in key_path".  For a predefined root the  *)
(* context is made of hkey, which is then the same name.                   *)
Occurring(key_path, value_name) ==
    InContext[<<key_path, value_name>>] \union InKey[key_path]

Alerts(paths, severity) == [matched_path : paths, severity : {severity}]

(* Mutant: one loop over all the paths, judged by the first that matches.  *)
rp_process_one_loop(key_path, value_name) ==
    LET found == Occurring(key_path, value_name) IN
    Alerts(found \intersect CriticalPaths, "CRITICAL")
      \union Alerts(found \ CriticalPaths, "HIGH")

(* The alerts process() may return: the tables are sets, whose order of    *)
(* iteration picks the path; the tiers are looked at one after the other.  *)
rp_process(key_path, value_name) ==
    LET found == Occurring(key_path, value_name)
        critical == found \intersect CriticalPaths
        high == found \intersect HighPaths
    IN  CASE critical # {} -> Alerts(critical, "CRITICAL")
          [] critical = {} /\ high # {} -> Alerts(high, "HIGH")
          [] OTHER -> Alerts(found, "SUSPICIOUS")
=============================================================================
