---------------------------- MODULE MCApiDispatch ----------------------------
(***************************************************************************)
(* Values of the constants of ApiDispatch for TLC: the key is one below    *)
(* Services, and the values named run and other spell the Run path and a   *)
(* path of the third tier in the joined text.  The tables of the program   *)
(* have no path of that tier alone; it stands for one that is added to     *)
(* constants.REGISTRY_PERSISTENCE_KEYS only.                               *)
(***************************************************************************)
EXTENDS ApiDispatch, TLC

CONSTANTS p1, victim, debugger, h1, h2, self, hklm, services_key,
          run_path, services_path, broad_path, run, other, plain

MCSourcePids == {p1}
MCOthers == {victim}
OneHandle == {h1}
TwoHandles == {h1, h2}
MCRoots == {hklm}
MCKeys == {services_key}
NoKeys == {}
MCOpened == (p1 :> Others \union Keys) @@ (debugger :> SourcePids \union Keys)
OneCritical == {run_path}
OneHigh == {services_path}
MCPersistenceKeys == {run_path, services_path, broad_path}
MCValueNames == {run, other, plain}
MCTargets == Pids \union HandleValues
MCKeyPaths == Keys \union HandleValues
MCInKey ==
    [k \in MCKeyPaths |-> IF k = services_key THEN {services_path} ELSE {}]
MCInContext ==
    [c \in MCKeyPaths \X MCValueNames |->
        MCInKey[c[1]] \union (CASE c[2] = run -> {run_path}
                                [] c[2] = other -> {broad_path}
                                [] OTHER -> {})]
=============================================================================
