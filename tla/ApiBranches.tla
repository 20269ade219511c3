----------------------------- MODULE ApiBranches -----------------------------
(***************************************************************************)
(* The branches of DebugThread._handle_api_hook (core/debug_thread.py): a  *)
(* table of what each reports, by API.  An API stands for the spellings    *)
(* its branch tests for (W, A, Ex).  What the arguments of a call show of  *)
(* it is a set of signs; everything else the branches copy into the        *)
(* payload (names, sizes, previews) is left out.                           *)
(***************************************************************************)
EXTENDS Naturals, Sequences

(* One table and what another adds to it: TLC's @@, which is built into    *)
(* TLC and which the provers know nothing of.                              *)
f ++ g ==
    [x \in DOMAIN f \union DOMAIN g |-> IF x \in DOMAIN f THEN f[x] ELSE g[x]]

Event(category, action, severity) ==
    [category |-> category, action |-> action, severity |-> severity]

Rank == [INFO |-> 0, SUSPICIOUS |-> 1, HIGH |-> 2, CRITICAL |-> 3]

(* The event of an API that no branch has reported on.                     *)
Generic == Event("API", "CALLED", "INFO")

(* The address family decides; "garbled" is an address that raises.        *)
connect(seen) ==
    [connect |-> Event("NETWORK", "CONNECTED",
                       IF "garbled" \in seen THEN "SUSPICIOUS" ELSE "HIGH")]

registry ==
    [RegSetValueEx |-> Event("REGISTRY", "VALUE_SET", "SUSPICIOUS"),
     RegDelete |-> Event("REGISTRY", "VALUE_DELETED", "SUSPICIOUS")]

winsock ==
    [WSASend |-> Event("NETWORK", "DATA_SENT", "SUSPICIOUS"),
     getaddrinfo |-> Event("NETWORK", "DNS_LOOKUP", "SUSPICIOUS"),
     InternetConnect |-> Event("NETWORK", "CONNECTED", "HIGH")]

http ==
    [OpenRequest |-> Event("NETWORK", "HTTP_REQUEST", "SUSPICIOUS"),
     WinHttpSendRequest |-> Event("NETWORK", "HTTP_REQUEST", "HIGH"),
     HttpSendRequest |-> Event("NETWORK", "HTTP_REQUEST", "HIGH"),
     ReadData |-> Event("NETWORK", "HTTP_RESPONSE", "SUSPICIOUS"),
     send |-> Event("NETWORK", "DATA_SENT", "SUSPICIOUS"),
     recv |-> Event("NETWORK", "DATA_RECEIVED", "INFO")]

file(seen) ==
    [CreateFile |-> Event("FILE", "OPENED",
                          IF "write" \in seen THEN "SUSPICIOUS" ELSE "INFO"),
     WriteFile |-> Event("FILE", "WRITTEN",
                         IF "is_pe" \in seen THEN "CRITICAL" ELSE "INFO"),
     DeleteFile |-> Event("FILE", "DELETED", "SUSPICIOUS"),
     MoveFileEx |-> Event("FILE", "MOVED", "SUSPICIOUS")]

injection ==
    [VirtualAllocEx |-> Event("INJECTION", "VIRTUAL_ALLOC_EX", "HIGH"),
     WriteProcessMemory |-> Event("INJECTION", "WRITE_PROCESS_MEMORY", "CRITICAL"),
     CreateRemoteThread |-> Event("INJECTION", "CREATE_REMOTE_THREAD", "CRITICAL"),
     NtCreateUserProcess |-> Event("INJECTION", "NT_CREATE_PROCESS", "HIGH")]

(* Mutant: the hidden window is tested before the interpreter.             *)
script_hidden_first(seen) ==
    [ShellExecute |-> Event("SCRIPT", "SHELL_EXECUTE",
        IF "is_hidden" \in seen THEN "HIGH"
          ELSE IF "is_known" \in seen THEN "CRITICAL" ELSE "SUSPICIOUS"),
     LdrLoadDll |-> Event("DLL", "MANUAL_LOAD", "SUSPICIOUS")]

script(seen) ==
    [ShellExecute |-> Event("SCRIPT", "SHELL_EXECUTE",
        IF "is_known" \in seen THEN "CRITICAL"
          ELSE IF "is_hidden" \in seen THEN "HIGH" ELSE "SUSPICIOUS"),
     LdrLoadDll |-> Event("DLL", "MANUAL_LOAD", "SUSPICIOUS")]

(* A global hook counts only where its type is one of surveillance.        *)
surveillance(seen) ==
    [SetWindowsHookEx |-> Event("KEYLOG", "HOOK_INSTALLED",
        IF "is_dangerous" \notin seen THEN "SUSPICIOUS"
          ELSE IF "is_global" \in seen THEN "CRITICAL" ELSE "HIGH"),
     GetClipboardData |-> Event("CLIPBOARD", "CLIPBOARD_READ", "SUSPICIOUS"),
     SetClipboardData |-> Event("CLIPBOARD", "CLIPBOARD_WRITE", "SUSPICIOUS"),
     IsDebuggerPresent |-> Event("ANTI_DEBUG", "DEBUGGER_CHECK", "HIGH"),
     URLDownloadToFile |-> Event("NETWORK", "FILE_DOWNLOAD", "CRITICAL")]

(* "enabled" is any privilege of the call, the dangerous one or another.   *)
privilege(seen) ==
    [AdjustTokenPrivileges |-> Event("PRIVILEGE", "TOKEN_ADJUST",
        IF "is_dangerous" \notin seen THEN "SUSPICIOUS"
          ELSE IF "enabled" \in seen THEN "CRITICAL" ELSE "HIGH"),
     DuplicateToken |-> Event("PRIVILEGE", "TOKEN_ADJUST",
        IF "delegation" \in seen THEN "CRITICAL" ELSE "HIGH"),
     ImpersonateLoggedOnUser |-> Event("PRIVILEGE", "TOKEN_ADJUST", "HIGH")]

crypto ==
    [CryptEncrypt |-> Event("CRYPTO", "ENCRYPT", "HIGH"),
     CryptDecrypt |-> Event("CRYPTO", "DECRYPT", "HIGH"),
     CryptGenKey |-> Event("CRYPTO", "KEY_GENERATED", "HIGH"),
     CryptImportKey |-> Event("CRYPTO", "KEY_IMPORTED", "HIGH")]

service(seen) ==
    [OpenSCManager |-> Event("SERVICE", "CALLED", "SUSPICIOUS"),
     CreateService |-> Event("SERVICE", "SERVICE_CREATED",
        IF "outside_system32" \in seen THEN "CRITICAL" ELSE "HIGH"),
     StartService |-> Event("SERVICE", "SERVICE_STARTED", "HIGH"),
     ChangeServiceConfig |-> Event("SERVICE", "SERVICE_CONFIG_CHANGED", "HIGH")]

pipe_and_com(seen) ==
    [CreateNamedPipe |-> Event("PIPE", "PIPE_CREATED",
        IF "is_c2_pattern" \in seen THEN "CRITICAL" ELSE "HIGH"),
     ConnectNamedPipe |-> Event("PIPE", "PIPE_CONNECTED", "SUSPICIOUS"),
     CoCreateInstance |-> Event("COM", "COM_CREATED",
        IF "known_name" \in seen THEN "CRITICAL" ELSE "SUSPICIOUS")]

(* Every branch that ends in an event of its own.                          *)
Branches(seen) ==
    registry ++ winsock ++ http ++ file(seen) ++ injection ++ script(seen)
      ++ surveillance(seen) ++ privilege(seen) ++ crypto ++ service(seen)
      ++ pipe_and_com(seen) ++ connect(seen)

(* "CreateProcess" and an API without a branch end in the generic event.   *)
Apis == DOMAIN Branches({}) \union {"CreateProcess", "CreateMutex"}

-----------------------------------------------------------------------------
(* The signs the arguments of a call may show: those no failed read hides  *)
(* (a show_cmd that cannot be read is 0, a hidden window), and those that  *)
(* have to be read from the target.                                        *)
CertainSigns ==
    [CreateFile |-> {"write"}, SetWindowsHookEx |-> {"is_dangerous", "is_global"},
     DuplicateToken |-> {"delegation"}, ShellExecute |-> {"is_hidden"}]

MemorySigns ==
    [connect |-> {"ipv4", "ipv6", "garbled"}, WriteFile |-> {"is_pe"},
     ShellExecute |-> {"is_known"},
     AdjustTokenPrivileges |-> {"is_dangerous", "enabled"},
     CreateService |-> {"outside_system32"}, CreateNamedPipe |-> {"is_c2_pattern"},
     CoCreateInstance |-> {"known_name"}]

SignsOf(table, api) == IF api \in DOMAIN table THEN table[api] ELSE {}

Signs(api) == SignsOf(CertainSigns, api) \union SignsOf(MemorySigns, api)

(* What a branch takes for true where its reads fail: show_cmd is then 0,  *)
(* and "ErrorReadingMemory" is a path outside of system32.                 *)
Presumed ==
    [ShellExecute |-> {"is_hidden"}, CreateService |-> {"outside_system32"}]

(* What a branch sees of a call that shows some signs.  A string or buffer *)
(* of the target is read, or is not (_read_wstring, _read_astring and      *)
(* _read_bytes answer with a sentinel); each read fails by itself.         *)
Views(api, shows) ==
    LET remote == shows \intersect SignsOf(MemorySigns, api) IN
    {(shows \ lost) \union presumed :
        lost \in SUBSET remote, presumed \in SUBSET SignsOf(Presumed, api)}

(* An address has one family.                                              *)
Shows(api) ==
    IF api = "connect" THEN {{}, {"ipv4"}, {"ipv6"}, {"garbled"}}
                       ELSE SUBSET Signs(api)

-----------------------------------------------------------------------------
(* The branch of connect reports only an address it could read; the one of *)
(* CreateProcess only adds to the payload.                                 *)
emits(api, seen) ==
    IF api \in DOMAIN Branches(seen) /\ (api = "connect" => seen # {})
      THEN <<Branches(seen)[api]>> ELSE <<>>

(* Mutant: the fallback of connect forgets its return.                     *)
returns_garbled(api, seen) ==
    api \in DOMAIN Branches(seen)
      /\ (api = "connect" => seen \intersect {"ipv4", "ipv6"} # {})

returns(api, seen) ==
    api \in DOMAIN Branches(seen) /\ (api = "connect" => seen # {})

(* The events of one call: those of its branch, and the generic one unless *)
(* the branch has returned.  _resume_from_hook follows each of them.       *)
Emitted(api, seen) ==
    emits(api, seen) \o (IF returns(api, seen) THEN <<>> ELSE <<Generic>>)
=============================================================================
