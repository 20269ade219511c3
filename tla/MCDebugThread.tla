---------------------------- MODULE MCDebugThread ----------------------------
(***************************************************************************)
(* Values of the constants of DebugThread for TLC.                         *)
(***************************************************************************)
EXTENDS DebugThread

CONSTANTS p1, p2, t1, t2, t3, ntdll, ws2, connect, NtWrite, push

MCPids == {p1, p2}
OnePid == {p1}
MCTids == {t1, t2, t3}
TwoTids == {t1, t2}
MCBytes == {push, INT3}
MCDlls == {ntdll, ws2}
OneAddr == {connect}
MCAddrs == {connect, NtWrite}
MCDllOf == [a \in Addrs |-> IF a = NtWrite THEN ntdll ELSE ws2]
MCOwnByte == [a \in Addrs |-> push]
MCInitialDlls == {ntdll}
AllDlls == {ntdll, ws2}

Calm == {"OpenThread", "KillMidStep"}
Everything == AllAdversity \ {"GetThreadId"}
NoAdversity == {}
OnlySimultaneous == {"Simultaneous"}
=============================================================================
