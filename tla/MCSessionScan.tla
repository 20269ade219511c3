--------------------------- MODULE MCSessionScan ---------------------------
(***************************************************************************)
(* SessionScan with a queue small enough to be full most of the time and   *)
(* address spaces of three pages.                                          *)
(***************************************************************************)
EXTENDS SessionScan
=============================================================================
