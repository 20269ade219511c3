# A verification development for BX2TRACE

BX2TRACE runs a Windows program under the debug API, plants INT3 hooks on the
APIs it wants to watch, scans the memory of the program, and feeds the events
that come out to a small set of detectors.  This directory holds TLA+ modules
of that system, the configurations that model-check them with TLC, and proofs
that TLAPS checks.  Paths like `debug_thread.py:205` are below
`src/bx2trace/core/` unless another directory is given.

## The system

| part | state | operations | talks to |
|---|---|---|---|
| `HookManager` (api_hooker.py) | `hooks` (pid, address) -> saved byte; `api_names` | `apply_hook`, `remove_hook`, `is_our_hook`, `get_api_name` | the code bytes of the debugged processes, through kernel32 |
| `DebugThread` (debug_thread.py) | `tracked`, `pending_single_steps`, `_stop_event`, `started_ok`, `startup_error`, `root_pid` | `run`, `_handle_event`, `_on_create_process`, `_handle_api_hook`, `_resume_from_hook`, `_handle_rehook`, `_cleanup`, `request_stop`, `_put_event` | the Windows debug port; HookManager; the event queue |
| `MemoryScannerThread` (memory_scanner.py) | `_previous_strings`, `_previous_rwx_strings`, `_stop_event` | `run`, `_scan_once`, `request_stop` | `DebugThread.tracked`, read without a lock; the memory of the targets; the event queue |
| `TraceSession` (trace_session.py) | the two threads, the bounded `_event_queue`, the engine | `start`, `stop`, `join`, `get_event`, `is_alive` | starts and stops both threads; is emptied by the caller's loop |
| `DetectorEngine` (detector_engine.py) | the ordered list of detectors | `register`, `unregister`, `load_defaults`, `process` | called by the caller's loop, one event at a time; calls detectors |
| `C2BeaconDetector` (detectors/) | `_connections`, `_alerted` | `process`, `_prune_alerted` | the monotonic clock |
| `ProcessHollowingDetector` (detectors/) | `_wpm_events`, `_crt_events` | `process`, `_prune` | the monotonic clock |
| `RegistryPersistenceDetector` (detectors/) | none | `process` | |
| reader, extractors (memory/, extractors/) | none | `read_committed_regions`, `extract_strings`, `diff_new_strings`, entropy, PEB patch | the memory of a target behind a handle |
| launcher, records, constants | none | `create_process_debug`, dataclasses, tables | |

Three threads of our own run (caller, debug thread, scanner), beside the
threads of the debugged programs.  What is hard:

* **debugged threads against the loop** - two threads of a process trap on the
  same INT3 before the first event is handled; other threads run past an API
  while one steps over the lifted byte; threads and processes end between a
  trap and its single step; thread and process ids are used again; a DLL goes
  and comes back; children appear while the root is ending; every kernel32
  call may be refused.
* **the threads of a session** - a launch that fails or is slow, a stop during
  the launch, a full queue with nobody reading it.
* **the dispatch of API calls** - every argument may be unreadable, several
  spellings of an API share a branch, and handle values of the debugged process
  are asked about in BX2TRACE's own.
* **the scanner against the debug thread** - the iteration over `tracked` may
  raise; handles are closed under a scan and their values, and the pids, are
  used again; an event the full queue loses is not sent again.
* **the walk over a live address space** - regions are enumerated first and
  read afterwards, while the process maps, protects, frees and may end; one
  buffer serves many reads.
* **time** - detectors date events when they process them, and prune at both
  ends of a window.

What makes each part correct: the registry can always undo what it wrote; the
loop claims every single step it asked for, never hands its own breakpoints to
the program, resumes threads at the entry of the API, leaves no API unhooked,
ends when it is told to and not while targets live; the session starts a
scanner only beside a successful launch, leaves no target behind a failed one,
and a stop ends both threads; each call to a hooked API is reported and resumed
once, no milder than what was read of it warrants; a walk over memory ends, and
reads what stays put; the scanner remembers only what it reported; the detectors alert for exactly what
a complete history would justify, and the engine keeps one failing detector
from starving the others.  PROJECT.json lists every hazard at its line.

## The modules

| module | models | state and actions |
|---|---|---|
| `HookManager` | api_hooker.py | `hooks`, `api_names` as in the class; `code` is the byte at each key in the target (external). `apply_hook(S, refused)` is the loop of calls `_setup_initial_hooks` makes, with the keys for which some kernel32 call fails as an argument. `HMSpec` calls anything in any order. |
| `HookLifecycle` | abstract: the docstring debug_thread.py:17-27 | which hooks are armed and what each thread owes. Plant in the process of the thread whose event is handled; lift in the name of a thread of that process, which owes no other hook; replant in that thread's process; forget only when the thread ends or its process is not traced. Which threads and processes there are is an input |
| `DebugThread` | debug_thread.py | the variables of the class, and of the debugged threads where each one is (`pc`, `at`, `tf`) and its outstanding debug event. One action per debug event, from delivery through `_handle_event` to `ContinueDebugEvent` and the tests that end `run`. EXTENDS HookManager |
| `DebugLoop` | abstract: `run`, debug_thread.py:185-208 | the loop, its stop event, and its targets taken together. `DebugThread` implements it; `TraceSession` uses it |
| `TraceSession` | trace_session.py, process_launcher.py, the start and end of the two threads | one action per statement at which another thread can see the difference |
| `MemoryReader` | memory/reader.py | one action per call of VirtualQueryEx and ReadProcessMemory, the address space changing between any two |
| `SessionScan` | `_scan_once` as the scanner thread runs it | composes TraceSession and MemoryReader: the scan of the session is a walk for each process of a snapshot |
| `MemoryScanner` | memory_scanner.py `_scan_once`, strings.py | the debug thread's changes to `tracked`, pop and CloseHandle being two steps, and the end of its loop, after which `_cleanup` closes every handle and clears the dict; the snapshot; the scan of one process; both caches; the queue |
| `ApiBranches` | the branches of `_handle_api_hook` | a table: what a branch reports, by the signs of the call it could read; no state |
| `RegistryPersistence` | the registry detector, which has no state | the alerts `process` may return for a key path and a value name |
| `ApiDispatch` | `_handle_api_hook`, `_get_pid_from_handle`, `_resolve_registry_key_path` | one table of handles per process; `handle_api_hook` for calls without handles, `handle_call` for the others; the queue, and `process` by the two detectors behind it. EXTENDS ApiBranches, ProcessHollowing, RegistryPersistence |
| `C2Beacon`, `ProcessHollowing` | the two detectors | the class's own stores, and histories the properties compare them with |
| `DetectorEngine` | detector_engine.py, and the consumer loop in trace_session.py:179-187 | the queue with the time at which events happened, the list of detectors. EXTENDS both detectors |
| `*Proofs` | | theorems about the module of that name; `TraceSessionProofs` also about SessionScan and the MemoryReader in it |
| `MC*` | | values for TLC |

How they are put together.  `DebugThread` is proved to use the registry only as
`HMSpec` allows, `DetectorEngine` and `ApiDispatch` to use the detectors only
as `C2Spec` and `PHSpec` allow, and `SessionScan` to be a `TraceSession`.
`TraceSession` does not repeat the debug loop: `UsesLoop` says that its debug
thread takes only steps of `DebugLoop` while it is in the loop, and
`ImplementsLoop` that `DebugThread` is such a loop.

The handling of one debug event is one step because the process that posted it
is frozen until it is continued and nobody else writes the loop's state.  The
exception, a thread already inside its trap when the process freezes, is the
`"Simultaneous"` adversity.  The things that can go wrong around the loop are
named by the constant `Adversity` so that a run can say which of them it
admits; the proofs hold for every choice.

## The runs

| run | instance | what it shows |
|---|---|---|
| `debug_loop` | 2 processes, 2 threads, 1 API, every adversity but `GetThreadId` | `TypeOK`, `Restorable`, `HooksAreNamed`, `OurStepsAreClaimed`, `TrackedAreLive`, `OneProcessAtATime`, and that the loop implements `DebugLoop` |
| `debug_coverage` | 2 processes, 3 threads, 1 API; `OpenThread` may fail and a thread may be killed in its step | `BreakpointsAreOurs`, `CoverageIsKept`, and that the loop implements `HookLifecycle`; under fairness `StopEndsLoop`, `LoopEndsWithTargets`, `StepsAreFinished` |
| `session` | queue of 1, an address space of 3 pages, regions up to 2, one changed page a walk or the end of the process | `ScannerNeedsTarget`, `UsesLoop`, `StablePagesAreRead`, `DataIsOfItsRegion`; under fairness `StopEndsBoth`, `LoopFollowsTarget`, and `ImplementsSession`: every scan ends |
| `memory_scanner` | 2 pids, 2 handles, 2 strings (one in an RWX region), queue of 1, event limit 1, RWX threshold 2 | `RememberedWasReported`, `CachesInStep`, `StaleHandlesAreOfTheGone` |
| `detectors` | 1 process, 2 addresses, 2 targets, window 1, threshold 2, queue 2, clock to 3, 3 events | `AlertedIsExact`, `AlertsOnCrossing`, `AlertsAreApart`, `InjectionsAreFound`, `StoresHoldTheWindow`, `NoEventSkipped` |
| `dispatch` | every API, every set of signs and every reading of it; 1 process, 1 handle value besides the pseudo-handle and a predefined key, 1 key, known paths of all three tiers, queue of 1, 2 calls | `ReportedOnce`, `GradedByEvidence`, `SameHandleCorrelates`, `PersistenceIsGraded` |
| `simultaneous_traps` | 1 process, 2 threads | violated: `BreakpointsAreOurs` |
| `ignored_child` | cap of 1 tracked process | violated: `ResumesAligned` |
| `launcher` | root and one child | violated: `LoopOutlivesTargets` |
| `alive_after_exit` | queue of 2, the session with an abstract scan | violated: `AliveFollowsTarget` |
| `beacon_flood` | one address | violated: `OncePerWindow` |
| `foreign_handles` | two handles of one victim | violated: `VictimsCorrelate` |

Why the bounds are enough.  Two processes give a hook in one beside the same
address in the other, a parent and its child, a pid that is used again; two
threads give every race of a stepping thread with a passing or a trapping one,
and a third is there where a child and two threads of one process are needed
together.  A second API is there only in `ignored_child`: keys do not interact
except through the address they share.  The queue is small enough to be full most of
the time.  A window of one tick has all three positions of an event: inside,
exactly at the limit, outside; with a threshold of two, three events are the
first, the one that raises the alert and the one after it.  `Horizon`,
`MaxEvents` and `MaxCalls` bound the clock and the number of events or calls and
appear nowhere else.  A write and a thread, or the write of a value after the
handle has changed, are two calls; `Opened` says which objects a process may open
in `dispatch`, and the branches that look up no handle are tried before the first
call only, since they share no state with it.  Three pages are a region
between two others, one of the largest size read beside one that is too large,
and a split of either; one changed page can hide, shorten or spoil a region at
any moment of the walk, and the process may end at any moment too.  A second
process of a snapshot (`MaxProcesses`) would begin with everything new.
`CHECK_DEADLOCK FALSE` is said where the system may stop: a session after its
threads have ended, and the engine once the bounds are reached.

Fairness.  `DebugThread!Fairness`: `run` waits again after each event, so
each delivered event and each timeout is taken (weak fairness); Windows runs a
ready thread again and again however often its process is frozen between, so a
trap or a single step that is possible infinitely often happens (strong
fairness).  Nothing is assumed of what the programs choose to do.
`TraceSession!Fairness`: a started thread runs, the debug loop takes each event
(`DebugThread`'s own fairness), a launch succeeds or fails, a call of `start()`
returns or raises (it waits ten seconds) and a call of `stop()` goes on to its
end; nothing is assumed of the caller between calls, who may never read the
queue.  That a scan ends is assumed in `TraceSession` and shown in `SessionScan`
(`ImplementsSession`), where only the scanner thread's own steps are fair: the
address of each query is above the last, so a walk ends whatever the process
does to its memory.

Every property of a passing run has a mutant in PROJECT.json: an operator kept
beside the one it would replace, marked `Mutant` in its comment, that makes TLC
report the property violated.

## What is proved

For every value of the constants, under the assumptions named in the modules
(`BytesAssumption`, `DebugAssumption`, `QueueAssumption`, `ReaderAssumption`,
`SnapshotAssumption`, `ScannerAssumption`, `C2Assumption`, `HollowAssumption`,
`EngineAssumption`, `PathsAssumption`, `DispatchAssumption`):

* **HookManager** (`HookManagerProofs`): types; `Restorable` is inductive by
  itself because an entry is only made from the byte that stands there, only
  where there is no entry; `HooksAreNamed` because names are never dropped.
* **DebugThread** (`DebugThreadProofs`): the inductive invariant `IInv` is the
  type invariant, the state of each thread (`ThreadOK`: which `pc`, `at`,
  `tf`, `event` and pending step go together) and the exits (`ExitOK`: the last
  thread of a process posts EXIT_PROCESS and nobody else does).
  `OurStepsAreClaimed` is part of the first, `TrackedAreLive` needs the second:
  a pid must not be dropped while a thread lives nor kept when none does.
  `ImplementsHookManager` shows that each step is a step of `HMSpec`, and so
  carries `Restorable` and `HooksAreNamed` over.  `OneProcessAtATime` follows
  from what the handler of each event touches, `ImplementsLifecycle` maps
  each handler to an action of `HookLifecycle` (with `OwedInv`: the entry of a
  thread in `pending_single_steps` is the hook it stands on, as long as contexts
  can be set and nobody is killed in a step), and `ImplementsLoopHolds` maps
  the program's steps and the handlers to `DebugLoop`: an event that is not an
  EXIT_PROCESS leaves every tracked process as it is, and the one that is drops
  only its own.  `OurStepsAreClaimed` and `ImplementsLifecycle` suppose that
  GetThreadId answers (`StepsAreNamed`): where it fails the pending step is under
  no thread's id.  The converse, that the loop claims no single step of the
  program's own, is `ClaimedStepsAreOursHolds`, where contexts can be set too and
  no thread is killed in its step.

  Four more hold only where the adversity that breaks them is left out, and
  each theorem says in its hypothesis what that is:

  * `BreakpointsAreOursHolds`, for every adversity but `"Simultaneous"`: with
    `AloneInv` (a thread is alone in its process until its first event has been
    handled, a process has one event outstanding, and so nobody lifts a hook
    between a trap and its event) an INT3 is recognised when it is handled.  `simultaneous_traps` is what
    happens otherwise.
  * `ArmedOrSteppingHolds`, for `Adversity` within `"OpenThread"`, `"OwnStep"` and
    `"Simultaneous"`, any cap and any number of DLLs: `CoverInv` follows a key
    from the LOAD_DLL event that is still to come through the hook to the one
    thread that steps over it (`LoadOK`, `OneStepper`, `OneNotice`,
    `HooksOK`, `StepOK`).  The hypothesis is tight: TLC finds a violation with each of
    the other adversities by itself (a patch or a context that is refused,
    a thread killed in its step, a DLL that comes back, a pid used again).
  * `CoverageIsKeptHolds` admits the kill in the middle of a step as well: what is
    covered stays so, unless the thread that lifted the hook is killed in that
    very step.  EXIT_THREAD then pops the entry and nobody plants the hook again.
  * `ResumesAlignedHolds`, where no more processes come than the cap allows and
    contexts can be read and written: with `AlignedInv` (every thread that
    got past its first event is of a tracked process) each handled call is
    resumed at the entry of its API.  The pids must not be used again; why is
    told under what was seen while reading.
* **TraceSession** (`TraceSessionProofs`): `LaunchOK` says what the two launch
  signals and the target mean at each point of the debug thread; from it
  `ScannerNeedsTarget` and `UsesLoop`.  `ScanningSessionIsSafe` carries both over
  to a session that really scans.
* **MemoryReader in SessionScan** (`TraceSessionProofs`): `FoundOK` says that the
  regions found so far cover everything below the next address and still tell
  the truth of every page that has not changed, and `ReadOK` that each one dealt
  with was read whole if none of its pages had changed; with them
  `StablePagesAreRead`, and `DataIsOfItsRegion`, because what is returned is cut
  to what was copied.  `ScansLikeASession` is the safety part of
  `ImplementsSession`, so the theorems about TraceSession hold of a session
  that really scans.
* **ProcessHollowing** (`ProcessHollowingProofs`): `PHInv` joins
  `StoresHoldTheWindow` (pruning at one time, then at a later one, is pruning at
  the later one) with `AlertsOK` (only a logged thread has raised an alert, so
  a new event's id has raised none); from it `InjectionsAreFound` for any
  window, any number of processes, and calls at times that do not run backwards.
* **C2Beacon** (`C2BeaconProofs`): `ListsHoldTheWindow` (nothing a list holds was
  not given, and nothing of the window is missing) makes the count the detector
  takes the count of the window, so `AlertedIsExact` and `AlertsOnCrossing` are
  inductive with it, for any window and threshold.  Two connections at which
  the window comes to hold the threshold are apart by one that has left it:
  `AlertsAreApart`, which is what the set of alerted pairs does achieve, and
  `OncePerWindow` for a threshold of one.  `beacon_flood` refutes
  `OncePerWindow` for two.
* **DetectorEngine** (`DetectorEngineProofs`): the queue is in the order of the
  ids and the clock, and what the detectors were given is older than what
  waits; hence every step of the engine is a step of `C2Spec` and of `PHSpec`
  or leaves them alone, which carries their theorems over, and
  `NoEventSkipped`.  The type invariant includes that a name is in the list of
  detectors at most once, because `register` appends only a name that is not
  there and `unregister` takes one place out of the sequence.
* **ApiDispatch** (`ApiDispatchProofs`): the queue holds calls as they were shown
  to BX2TRACE, in their order; hence `PHSpec` is implemented here too, and
  `SameHandleCorrelates` follows from `InjectionsAreFound`.  Every written value
  is graded by the path the detector is told (`AlertsGraded`), which is the
  caller's key where NtQueryKey is shown it: `PersistenceIsGraded`.
  `ReportedOnce` and `GradedByEvidence` are proved over the table of branches, one
  group of them after the other: each emits a single event, and each test of a
  sign raises the severity or leaves it; what a branch sees is part of what the
  call shows and what it presumes of a read that fails.  (The table is joined by an operator `++` of
  its own, the provers not knowing TLC's `@@`.)  `TrueHandlesCorrelate` is
  `VictimsCorrelate`, which `foreign_handles` refutes, for the threads whose
  handle, and whose process' earlier writes' handles, BX2TRACE was shown as what
  they name: there it holds, so nothing but the lookup in the wrong process
  stands in its way.
* **MemoryScanner** (`MemoryScannerProofs`): `CachesInStep` and
  `RememberedWasReported` are inductive with the types: the purge takes the same
  pids from two caches that have the same pids, and a scan remembers what it has
  just seen, of which the part remembered before was reported before.
  `StaleHandlesAreOfTheGone` rests on `OwnHandles`: an entry of `tracked` names its
  own process for as long as it is there, because EXIT_PROCESS takes the entry
  out before it closes the handle; only `_cleanup` does it the other way round,
  when nothing new can be tracked.

Only model-checked: liveness, which is out of the prover's reach: `StopEndsLoop`,
`LoopEndsWithTargets`, `StepsAreFinished`, `StopEndsBoth`, `LoopFollowsTarget` and the
fair half of `ImplementsSession`.  Every invariant and every action property of a
passing run is stated by a theorem; a failing GetThreadId is in the theorems only,
and in no run.

## Where code and text disagree

PROJECT.json gives the lines.  In short: a second thread's breakpoint reaches
the program (`simultaneous_traps`); a child above the cap runs misaligned
because it is hooked before it is ignored (`ignored_child`); the loop ends with
a child alive (`launcher`); `is_alive` stays True after the target has ended
(`alive_after_exit`); a steady beacon alerts every time (`beacon_flood`); writes
and threads through two handles of a process are not matched, because a handle
is looked up in the wrong process (`foreign_handles`).  Seen while reading, and
not a run of its own:

* `remove_hook`'s docstring drops the name of the API (step 6); the code keeps
  it and says why (api_hooker.py:280-282), and `HooksAreNamed` depends on that.
* tests/test_detectors.py:173 reads `payload["new_strings_count"]`; the scanner
  emits `count`.
* detector_engine.py:26 says extra events "are emitted back to the event_queue";
  `process` returns them to its caller and nothing queues them.
* An exception in a branch of `_handle_api_hook` leaves `run` without
  `ContinueDebugEvent` and without `_cleanup`.

* A DLL that is unloaded and loaded again is not hooked again, because the entry
  of its first mapping is still there (api_hooker.py:142).
* `root_pid` is never reset.  A child that is given the pid of the root after
  the root has ended is taken for the root (debug_thread.py:357, 383): it is
  hooked and not tracked, and resumed one byte into each API it calls, like a
  child above the cap.  The proof of `ResumesAligned` failed for this case.
* EXIT_PROCESS leaves the pending step of the process' last thread in
  `pending_single_steps`.  EXIT_THREAD does pop its entry, "to keep the dict
  bounded" (debug_thread.py:265-269).  A later
  thread with the same id has its own first single step taken for that of the
  hook; `StepsAreFinished` therefore excepts a process that ends.
* A thread killed in its step leaves its API without the hook for the rest of the
  process (`KilledInStep` of `CoverageIsKept`).
* A call whose arguments cannot be read may be graded above the same call read in
  full: an unread show_cmd counts as a hidden window, an unread path of a service
  as one outside of system32 (`Presumed`).
* Detectors date events when they process them: a backlog counts as
  connections of one moment.
* `_get_pid_from_handle` answers BX2TRACE's own pid for the pseudo-handle of
  GetCurrentProcess; `_resolve_registry_key_path` gets a handle of the debugged
  process too, and answers its hex value unless BX2TRACE happens to have a key
  under it, so that a write through an opened Run key is not recognised
  (tests/test_detectors.py:59-65 expects a CRITICAL alert for one).
  `PersistenceIsGraded` is about keys that are shown truly.  Its
  raw-string prefixes with two backslashes never match.
* `_read_wstring` decodes the whole chunk before it looks for the end of the
  string, so what follows the string may make it a "DecodeError".
  `_read_astring` does not retry with smaller sizes, as `_read_wstring` does.
* The SUSPICIOUS tier of the registry detector is never reached: every path of
  REGISTRY_PERSISTENCE_KEYS is in one of the two other tables.  The instance of
  `dispatch` has one path more, so that the third tier is checked too.
* `_cleanup` says "we leave no dangling handles" (debug_thread.py:469); the
  handle of the root's first thread is never closed.
* The docstring of `start` says RuntimeWarning (trace_session.py:94), the code
  raises RuntimeError and says why.
* A stop() while start() waits for the launch finds no scanner; if the launch
  succeeds the scanner is created afterwards and is never told.

## Abstractions, and what is not modelled

* In `DebugThread` the branches of `_handle_api_hook` are one action that ends in
  `_resume_from_hook`, with the early returns; they decide nothing else about
  how the thread goes on.  `ApiDispatch` has the branches themselves.
  Hardware breakpoints appear as single steps nobody asked for.
* In `ApiBranches` an API stands for its spellings, and its arguments for the set
  of signs that decide the branch's severity; names, sizes and previews in
  the payload are left out.
* Bytes of code are the API's own byte and 0xCC; strings are model values, with a
  subset that lives in RWX regions; in `MemoryScanner` a region that cannot be
  read is one whose strings are gone for a while.  YARA matches are a free
  choice, and so is the RWX alarm below its threshold, because a string counts
  once for each region it is in.
* Addresses and sizes count pages in `MemoryReader`, and the bytes of a page are
  its number.  How far pages that are alike make one region is Windows' choice.
* In `MemoryScanner` handle values and pids are reused as soon as the handle is
  closed.  That strings reported for a pid come from that pid's own memory does
  not hold then, and nothing in the repository promises it;
  `StaleHandlesAreOfTheGone` says what does hold.
* `DetectorEngine` has one instance of a detector's name at a time.
* Connection lists are sets of (time, id) records: only the wording of the alert
  reads their order.
* One `start` and one `stop` per session.
* The scanner's wait and the scan after it are two steps: a stop that comes between
  them is seen one scan later.
* The calls that pass an API while its hook is lifted for another thread's step are
  not counted against anything: the window is checked to be that of a step
  (`CoverageIsKept`) and to close (`StepsAreFinished`).
* Not modelled: an exception that leaves `run` from a branch (the branches'
  reads are caught, and what is left would be a fault of ctypes); arming of
  hardware breakpoints and parsing of debug strings; `patch_peb_stealth`, two
  independent writes whose result is only logged; `open_process_for_dump`, which
  nothing in the package calls; `extract_strings`, two regular expressions; entropy (real
  numbers); EngineConfig, whose validation is of single fields; ctypes layouts;
  YARA rule loading; formatting and logging.

## Plan

Done: all modules above, with proofs for every one that has state.

Next, in this order:

1. `MemoryScanner` liveness: a string that stays is reported; with pid reuse as
   the adversity that breaks it.  One pid, one or two handles.
2. `MemoryScanner` over `MemoryReader`: the strings it sees as those of the pages
   a walk returns, so that `RememberedWasReported` speaks of memory that changes
   within a scan.
