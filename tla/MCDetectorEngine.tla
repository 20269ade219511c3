-------------------------- MODULE MCDetectorEngine --------------------------
(***************************************************************************)
(* Values of the constants of DetectorEngine for TLC.                      *)
(***************************************************************************)
EXTENDS DetectorEngine

CONSTANTS p1, d1, d2, v1, v2

MCPids == {p1}
MCDests == {d1, d2}
OneDest == {d1}
MCTargets == {v1, v2}
OneTarget == {v1}
=============================================================================
