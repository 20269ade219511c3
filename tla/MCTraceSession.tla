--------------------------- MODULE MCTraceSession ---------------------------
(***************************************************************************)
(* TraceSession with a queue small enough to be full most of the time.     *)
(***************************************************************************)
EXTENDS TraceSession
=============================================================================
