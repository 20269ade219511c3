-------------------------- MODULE MCMemoryScanner --------------------------
(***************************************************************************)
(* Values of the constants of MemoryScanner for TLC.                       *)
(***************************************************************************)
EXTENDS MemoryScanner

CONSTANTS p1, p2, h1, h2, url, shellcode

MCPids == {p1, p2}
MCHandles == {h1, h2}
MCStrings == {url, shellcode}
MCRwxStrings == {shellcode}
=============================================================================
