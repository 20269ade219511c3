------------------------- MODULE TraceSessionProofs -------------------------
(***************************************************************************)
(* Proofs about TraceSession, for any size of the event queue, and about   *)
(* SessionScan and the MemoryReader inside it, for any address space, any  *)
(* limits and any changes of the space during a walk.                      *)
(***************************************************************************)
EXTENDS SessionScan, SequenceTheorems, TLAPS

(* What the two launch signals say in each state of the debug thread, and  *)
(* when the scanner can exist.  The scanner is created only by a caller    *)
(* that saw started_ok without startup_error, and the debug thread never   *)
(* sets the error after the signal.                                        *)
LaunchOK ==
    /\ user = "idle" => debug = "none"
    /\ debug \in {"none", "launching", "created", "launched", "raising"}
         => ~started_ok /\ ~startup_error
    /\ debug \in {"none", "launching"} => target = "none"
    /\ debug \in {"created", "launched"} => target # "none"
    /\ debug = "raising" => target \in {"none", "gone"}
    /\ debug = "failing" => ~started_ok /\ startup_error
    /\ debug = "loop" => started_ok /\ ~startup_error /\ target # "none"
    /\ debug = "dead" => started_ok /\ (startup_error \/ target # "none")
    /\ startup_error => target \in {"none", "gone"}
    /\ scanner # "none" => started_ok /\ ~startup_error

IInv == TypeOK /\ LaunchOK

LEMMA InitInv == Init => IInv
<1> SUFFICES ASSUME Init PROVE IInv
  OBVIOUS
<1>1. 0 \in 0 .. QueueSize
  BY QueueAssumption, SMT DEF QueueAssumption
<1>2. TypeOK
  BY <1>1, Zenon DEF Init, TypeOK
<1>3. LaunchOK
  BY Zenon DEF Init, LaunchOK
<1> QED BY <1>2, <1>3 DEF IInv

LEMMA PutType ==
    ASSUME queued \in 0 .. QueueSize, put_nowait PROVE queued' \in 0 .. QueueSize
BY QueueAssumption DEF put_nowait, QueueAssumption

LEMMA NextInv == ASSUME IInv, [Next]_vars PROVE IInv'
<1> USE QueueAssumption
    DEF IInv, TypeOK, LaunchOK, callers, launch, stops, signals, QueueAssumption
<1>1. CASE create_process \/ create_fails \/ launch_ok \/ launch_rejected
  BY <1>1 DEF create_process, create_fails, launch_ok, launch_rejected
<1>2. CASE signal_ok
  <2>1. TypeOK'
    BY <1>2, Zenon DEF signal_ok
  <2>2. LaunchOK'
    BY <1>2, Zenon DEF signal_ok
  <2> QED BY <2>1, <2>2
<1>3. CASE launch_failed
  <2>1. TypeOK'
    BY <1>3, Zenon DEF launch_failed
  <2>2. LaunchOK'
    BY <1>3, Zenon DEF launch_failed
  <2> QED BY <2>1, <2>2
<1>4. CASE signal_failed
  <2>1. TypeOK'
    BY <1>4, Zenon DEF signal_failed
  <2>2. LaunchOK'
    BY <1>4, Zenon DEF signal_failed
  <2> QED BY <2>1, <2>2
<1>5. CASE handle_event \/ handle_last_exit
  BY <1>5, PutType DEF handle_event, handle_last_exit
<1>6. CASE wait_timeout
  BY <1>6 DEF wait_timeout
<1>7. CASE Scanner
  BY <1>7, PutType DEF Scanner, wake, begin_scan, scan_event, scan_done
<1>8. CASE start \/ start_timeout \/ start_failed
  BY <1>8 DEF start, start_timeout, start_failed
<1>9. CASE start_scanner
  BY <1>9 DEF start_scanner
<1>10. CASE get_event
  BY <1>10 DEF get_event
<1>11. CASE leave_loop \/ interrupted \/ join
  BY <1>11 DEF leave_loop, interrupted, join
<1>12. CASE call_stop
  BY <1>12 DEF call_stop
<1>13. CASE stop
  <2>1. (scanner # "none") \in BOOLEAN
    BY Zenon
  <2>2. TypeOK'
    BY <1>13, <2>1, Zenon DEF stop
  <2>3. LaunchOK'
    BY <1>13, Zenon DEF stop
  <2> QED BY <2>2, <2>3
<1>14. CASE stop_debug
  <2>1. (debug # "none") \in BOOLEAN
    BY Zenon
  <2>2. TypeOK'
    BY <1>14, <2>1, Zenon DEF stop_debug
  <2>3. LaunchOK'
    BY <1>14, Zenon DEF stop_debug
  <2> QED BY <2>2, <2>3
<1>15. CASE TargetExits
  BY <1>15 DEF TargetExits
<1>16. CASE UNCHANGED vars
  BY <1>16 DEF vars
<1> QED BY <1>1, <1>2, <1>3, <1>4, <1>5, <1>6, <1>7, <1>8, <1>9, <1>10, <1>11,
           <1>12, <1>13, <1>14, <1>15, <1>16 DEF Next, Debugger, Caller

(* Type correctness, for any queue size.                                   *)
THEOREM TypeCorrect == Spec => []TypeOK
<1>1. IInv => TypeOK
  BY DEF IInv
<1> QED BY <1>1, InitInv, NextInv, PTL DEF Spec

(* The scanner never runs beside a failed launch, and no target is left    *)
(* behind one.                                                             *)
THEOREM ScannerNeedsTargetHolds == Spec => []ScannerNeedsTarget
<1>1. IInv => ScannerNeedsTarget
  BY DEF IInv, TypeOK, LaunchOK, ScannerNeedsTarget
<1> QED BY <1>1, InitInv, NextInv, PTL DEF Spec

(* Whatever the session's debug thread does in its loop is a step of       *)
(* DebugLoop, so what DebugThread is shown to implement is what the        *)
(* session is built on.                                                    *)
THEOREM UsesLoopHolds == Spec => UsesLoop
<1> DEFINE Allowed == debug = "loop" => [Loop!Next]_(Loop!vars)
<1>1. ASSUME IInv, [Next]_vars PROVE [Allowed]_vars
  <2> SUFFICES ASSUME debug = "loop" PROVE [Loop!Next]_(Loop!vars)
    OBVIOUS
  <2> USE DEF Loop!vars, signals, launch, stops
  <2>1. CASE handle_event
    BY <2>1 DEF handle_event, Loop!Next, Loop!HandleEvent, Loop!End
  <2>2. CASE handle_last_exit
    BY <2>2 DEF handle_last_exit, Loop!Next, Loop!HandleLastExit, Loop!End
  <2>3. CASE wait_timeout
    BY <2>3 DEF wait_timeout, Loop!Next, Loop!Timeout, Loop!End
  <2>4. CASE TargetExits
    BY <2>4 DEF TargetExits, Loop!Next, Loop!TargetsExit
  <2>5. CASE stop_debug
    BY <2>5 DEF stop_debug, Loop!Next, Loop!RequestStop
  <2>6. CASE Scanner
    BY <2>6 DEF Scanner, wake, begin_scan, scan_event, scan_done
  <2>7. CASE start \/ start_timeout \/ start_failed \/ start_scanner
    <3>1. ~start
      BY <1>1 DEF start, IInv, LaunchOK
    <3> QED BY <2>7, <3>1 DEF start_timeout, start_failed, start_scanner
  <2>8. CASE get_event \/ leave_loop \/ interrupted \/ join
    BY <2>8 DEF get_event, leave_loop, interrupted, join
  <2>9. CASE call_stop \/ stop
    BY <2>9 DEF call_stop, stop
  <2>10. CASE UNCHANGED vars
    BY <2>10 DEF vars
  <2>11. ASSUME create_process \/ create_fails \/ launch_ok \/ launch_rejected
                \/ signal_ok \/ launch_failed \/ signal_failed
         PROVE  FALSE
    BY <2>11 DEF create_process, create_fails, launch_ok, launch_rejected,
                 signal_ok, launch_failed, signal_failed
  <2> QED BY <1>1, <2>1, <2>2, <2>3, <2>4, <2>5, <2>6, <2>7, <2>8, <2>9, <2>10,
             <2>11
      DEF Next, Debugger, Caller
<1> QED BY <1>1, InitInv, NextInv, PTL DEF Spec, UsesLoop

-----------------------------------------------------------------------------
(* The walk over the address space.                                        *)

(* What the regions found so far say of the pages: all those below address *)
(* are in one of them, and a page that did not change is still what its    *)
(* region says.                                                            *)
FoundOK ==
    /\ \A i \in 1 .. Len(regions) : PagesOf(regions[i]) \subseteq Page
    /\ \A p \in Page : p < address =>
         \E i \in 1 .. Len(regions) : p \in PagesOf(regions[i])
    /\ \A i \in 1 .. Len(regions) : \A p \in PagesOf(regions[i]) \ changed :
         space[p] = regions[i].kind
    /\ \A p \in Page : space[p] = "gone" => changed = Page
    /\ walk = "none" => regions = <<>> /\ changed = {}
    /\ walk \in {"reading", "done"} => address = Pages \/ changed = Page
    /\ walk = "done" => reads = Len(regions)

Whole(r) == \E j \in 1 .. Len(results) : /\ results[j].base = r.base
                                         /\ Len(results[j].data) = r.size

ReadOK ==
    \A i \in 1 .. reads :
        Eligible(regions[i]) /\ PagesOf(regions[i]) \intersect changed = {}
          => Whole(regions[i])

MRInv == MRTypeOK /\ FoundOK /\ ReadOK /\ DataIsOfItsRegion

LEMMA MRInitInv == MRInit => MRInv
<1> SUFFICES ASSUME MRInit PROVE MRInv
  OBVIOUS
<1>1. MRTypeOK
  BY ReaderAssumption DEF MRInit, MRTypeOK, Unseen, Kinds, NewBuffer, ReaderAssumption
<1>2. FoundOK
  BY DEF MRInit, FoundOK, Unseen, Page
<1>3. ReadOK /\ DataIsOfItsRegion
  BY DEF MRInit, ReadOK, DataIsOfItsRegion
<1> QED BY <1>1, <1>2, <1>3 DEF MRInv

LEMMA AppendOne ==
    ASSUME NEW S, NEW s \in Seq(S), NEW e \in S
    PROVE  /\ Append(s, e) \in Seq(S)
           /\ Len(s) \in Nat /\ Len(Append(s, e)) = Len(s) + 1
           /\ Append(s, e)[Len(s) + 1] = e
           /\ \A i \in 1 .. Len(s) : Append(s, e)[i] = s[i]
           /\ \A i \in 1 .. Len(s) + 1 : i \in 1 .. Len(s) \/ i = Len(s) + 1
  OBVIOUS

LEMMA QueryInv == ASSUME MRInv, query PROVE MRInv'
<1>1. PICK size \in 1 .. Pages, kind \in Kinds :
        LET r == [base |-> address, size |-> size, kind |-> kind] IN
        /\ Region(r)
        /\ regions' = Append(regions, r)
        /\ address' = address + size
  BY DEF query
<1> DEFINE r == [base |-> address, size |-> size, kind |-> kind]
           n == Len(regions)
<1>2. /\ UNCHANGED <<space, walk, reads, buffer, results, changed>>
      /\ walk = "enumerating"
  BY DEF query
<1>3. /\ Pages \in Nat /\ address \in 0 .. Pages
      /\ regions \in Seq(Regions) /\ reads \in 0 .. n /\ n \in Nat
  BY ReaderAssumption DEF MRInv, MRTypeOK, ReaderAssumption
<1>4. r.base = address /\ r.size = size /\ r.kind = kind
  OBVIOUS
<1>5. /\ PagesOf(r) = address .. address + size - 1
      /\ \A p \in PagesOf(r) : p \in Page /\ space[p] = kind
  BY <1>1, <1>4 DEF Region, PagesOf
<1>6. address \in Page /\ address + size - 1 \in Page
  BY <1>3, <1>5
<1>7. r \in Regions /\ address' \in 0 .. Pages
  BY <1>1, <1>3, <1>6 DEF Regions, Page
<1>8. /\ regions' \in Seq(Regions) /\ Len(regions') = n + 1
      /\ regions'[n + 1] = r
      /\ \A i \in 1 .. n : regions'[i] = regions[i]
      /\ \A i \in 1 .. n + 1 : i \in 1 .. n \/ i = n + 1
  BY <1>1, <1>3, <1>7, AppendOne
<1> HIDE DEF r, n
<1>9. MRTypeOK'
  <2>1. reads' \in 0 .. Len(regions')
    BY <1>2, <1>3, <1>8
  <2> QED BY <1>2, <1>7, <1>8, <2>1 DEF MRInv, MRTypeOK
<1>10. FoundOK'
  <2>1. ASSUME NEW i \in 1 .. n + 1
        PROVE  /\ PagesOf(regions'[i]) \subseteq Page
               /\ \A p \in PagesOf(regions'[i]) \ changed :
                    space[p] = regions'[i].kind
    <3>1. CASE i \in 1 .. n
      BY <1>8, <3>1 DEF MRInv, FoundOK, n
    <3>2. CASE i = n + 1
      BY <1>4, <1>5, <1>8, <3>2 DEF r
    <3> QED BY <1>8, <3>1, <3>2
  <2>2. ASSUME NEW p \in Page, p < address'
        PROVE  \E i \in 1 .. n + 1 : p \in PagesOf(regions'[i])
    <3>1. CASE p < address
      <4>1. PICK i \in 1 .. n : p \in PagesOf(regions[i])
        BY <3>1 DEF MRInv, FoundOK, n
      <4> QED BY <1>3, <1>8, <4>1
    <3>2. CASE p >= address
      <4>1. p \in PagesOf(r)
        BY <1>1, <1>3, <1>5, <2>2, <3>2 DEF Page
      <4>2. n + 1 \in 1 .. n + 1
        BY <1>3
      <4> QED BY <1>8, <4>1, <4>2
    <3> QED BY <1>3, <3>1, <3>2 DEF Page
  <2>3. /\ \A p \in Page : space[p] = "gone" => changed = Page
        /\ walk \notin {"reading", "done"}
    BY <1>2 DEF MRInv, FoundOK
  <2> QED BY <1>2, <1>8, <2>1, <2>2, <2>3 DEF FoundOK, PagesOf, Page
<1>11. ReadOK'
  <2>1. ASSUME NEW i \in 1 .. reads PROVE regions'[i] = regions[i]
    BY <1>3, <1>8
  <2> QED BY <1>2, <2>1 DEF MRInv, ReadOK, Eligible, Whole, PagesOf
<1>12. DataIsOfItsRegion'
  BY <1>2 DEF MRInv, DataIsOfItsRegion
<1> QED BY <1>9, <1>10, <1>11, <1>12 DEF MRInv

(* A region that has not changed since it was found is copied whole.       *)
LEMMA CopiedWhole ==
    ASSUME NEW r \in Regions, NEW n \in Copied(r),
           \A p \in PagesOf(r) : space[p] = "wanted"
    PROVE  n = r.size
<1>1. n \in 0 .. r.size /\ r.size \in Nat /\ r.base \in Int
  BY DEF Copied, Regions, Page
<1>2. n < r.size => r.base + n \in PagesOf(r)
  BY <1>1 DEF PagesOf
<1> QED BY <1>1, <1>2 DEF Copied

(* What one read leaves in the buffer it was given, and how much of it is  *)
(* the region's.                                                           *)
LEMMA FilledBuffer ==
    ASSUME NEW S, NEW m \in Nat, NEW n \in 0 .. m, NEW given \in [1 .. m -> S],
           NEW base \in Int, \A i \in 1 .. n : base + i - 1 \in S
    PROVE  LET buf == [i \in DOMAIN given |->
                         IF i <= n THEN base + i - 1 ELSE given[i]]
           IN /\ buf \in [1 .. m -> S]
              /\ SubSeq(buf, 1, n) \in Seq(S)
              /\ Len(SubSeq(buf, 1, n)) = n
              /\ \A k \in 1 .. n : SubSeq(buf, 1, n)[k] = base + k - 1
<1> DEFINE buf == [i \in DOMAIN given |->
                     IF i <= n THEN base + i - 1 ELSE given[i]]
<1>1. buf \in [1 .. m -> S] /\ \A i \in 1 .. n : buf[i] = base + i - 1
  <2>1. ASSUME NEW i \in 1 .. m
        PROVE  (IF i <= n THEN base + i - 1 ELSE given[i]) \in S
    <3>1. CASE i <= n
      BY <3>1
    <3>2. CASE ~(i <= n)
      BY <3>2
    <3> QED BY <3>1, <3>2
  <2>2. \A i \in 1 .. n : i \in 1 .. m /\ i <= n
    OBVIOUS
  <2> QED BY <2>1, <2>2
<1> HIDE DEF buf
<1>2. buf \in Seq(S) /\ Len(buf) = m
  BY <1>1
<1>3. /\ SubSeq(buf, 1, n) \in Seq(S)
      /\ Len(SubSeq(buf, 1, n)) = n
      /\ \A k \in 1 .. n : SubSeq(buf, 1, n)[k] = buf[k]
  <2>1. \A i \in 1 .. n : buf[i] \in S
    BY <1>1
  <2> QED BY <1>2, <2>1, SubSeqProperties
<1> QED BY <1>1, <1>3 DEF buf

(* What one read adds to the results.                                      *)
LEMMA ReadAdds ==
    ASSUME MRInv, read_region
    PROVE  LET r == regions[reads + 1] IN
           /\ buffer' \in [1 .. BufferSize -> Page \union {NoPage}]
           /\ \/ results' = results
              \/ \E d \in Seq(Page \union {NoPage}) :
                   /\ results' = Append(results, [base |-> r.base, data |-> d])
                   /\ \A k \in 1 .. Len(d) : d[k] = r.base + k - 1
           /\ Eligible(r) /\ (\A p \in PagesOf(r) : space[p] = "wanted")
                => \E d \in Seq(Page \union {NoPage}) :
                     /\ results' = Append(results, [base |-> r.base, data |-> d])
                     /\ Len(d) = r.size
<1> DEFINE r == regions[reads + 1]
           shared == r.size <= BufferSize
           fresh == [i \in 1 .. r.size |-> NoPage]
           given == IF shared THEN buffer ELSE fresh
           Pg == Page \union {NoPage}
<1>1. /\ BufferSize \in Nat /\ Pages \in Nat
      /\ buffer \in [1 .. BufferSize -> Pg]
  BY ReaderAssumption DEF MRInv, MRTypeOK, ReaderAssumption
<1>2. reads + 1 \in 1 .. Len(regions) /\ r \in Regions
  BY DEF MRInv, MRTypeOK, read_region
<1>3. /\ r.base \in Page /\ r.size \in 1 .. Pages
      /\ PagesOf(r) = r.base .. r.base + r.size - 1
      /\ PagesOf(r) \subseteq Page
  BY <1>2 DEF Regions, MRInv, FoundOK, PagesOf
<1>4. CASE ~Eligible(r)
  BY <1>1, <1>4 DEF read_region
<1>5. CASE Eligible(r)
  <2>1. PICK n \in Copied(r) :
          LET buf == [i \in DOMAIN given |->
                        IF i <= n THEN r.base + i - 1 ELSE given[i]]
          IN
          /\ buffer' = IF shared THEN buf ELSE buffer
          /\ results' = IF n = 0 THEN results
                        ELSE Append(results, [base |-> r.base,
                                              data |-> Data(r, buf, n)])
    BY <1>5 DEF read_region
  <2> DEFINE buf == [i \in DOMAIN given |->
                       IF i <= n THEN r.base + i - 1 ELSE given[i]]
             m == IF shared THEN BufferSize ELSE r.size
             d == SubSeq(buf, 1, n)
  <2>2. /\ buffer' = IF shared THEN buf ELSE buffer
        /\ results' = IF n = 0 THEN results
                      ELSE Append(results, [base |-> r.base, data |-> d])
    BY <2>1 DEF Data
  <2>3. n \in 0 .. r.size /\ m \in Nat /\ n \in 0 .. m
    BY <1>1, <1>3 DEF Copied
  <2>4. given \in [1 .. m -> Pg]
    <3>1. fresh \in [1 .. r.size -> Pg]
      OBVIOUS
    <3> HIDE DEF fresh
    <3> QED BY <1>1, <3>1
  <2>5. r.base \in Int /\ \A i \in 1 .. n : r.base + i - 1 \in Pg
    <3>1. \A i \in 1 .. n : r.base + i - 1 \in r.base .. r.base + r.size - 1
      BY <1>1, <1>3, <2>3 DEF Page
    <3> QED BY <1>3, <3>1 DEF Page
  <2>6. (\A p \in PagesOf(r) : space[p] = "wanted") => n = r.size
    BY <1>2, CopiedWhole
  <2>7. shared => m = BufferSize
    OBVIOUS
  <2> HIDE DEF r, m, given
  <2>8. /\ buf \in [1 .. m -> Pg]
        /\ d \in Seq(Pg) /\ Len(d) = n
        /\ \A k \in 1 .. n : d[k] = r.base + k - 1
    BY <2>3, <2>4, <2>5, FilledBuffer
  <2> HIDE DEF buf, d
  <2>9. buffer' \in [1 .. BufferSize -> Pg]
    BY <1>1, <2>2, <2>7, <2>8
  <2>10. n = r.size => n # 0
    BY <1>1, <1>3
  <2> HIDE DEF Pg, shared
  <2>11. \/ results' = results
         \/ \E e \in Seq(Pg) :
              /\ results' = Append(results, [base |-> r.base, data |-> e])
              /\ \A k \in 1 .. Len(e) : e[k] = r.base + k - 1
    BY <2>2, <2>8
  <2>12. ASSUME \A p \in PagesOf(r) : space[p] = "wanted"
         PROVE  \E e \in Seq(Pg) :
                  /\ results' = Append(results, [base |-> r.base, data |-> e])
                  /\ Len(e) = r.size
    BY <2>2, <2>6, <2>8, <2>10, <2>12
  <2> QED BY <2>9, <2>11, <2>12 DEF r, Pg
<1> QED BY <1>4, <1>5

LEMMA ReadInv == ASSUME MRInv, read_region PROVE MRInv'
<1> DEFINE r == regions[reads + 1]
           Pg == Page \union {NoPage}
           Result == [base : Page, data : Seq(Pg)]
<1>1. /\ UNCHANGED <<space, walk, address, regions, changed>>
      /\ walk = "reading" /\ reads' = reads + 1 /\ reads < Len(regions)
  BY DEF read_region
<1>2. /\ reads \in Nat /\ Len(regions) \in Nat /\ reads + 1 \in 1 .. Len(regions)
      /\ r \in Regions /\ PagesOf(r) \subseteq Page /\ r.base \in Page
      /\ results \in Seq(Result)
  <2>1. /\ regions \in Seq(Regions) /\ reads \in 0 .. Len(regions)
        /\ results \in Seq(Result)
    BY DEF MRInv, MRTypeOK
  <2>2. /\ reads \in Nat /\ Len(regions) \in Nat
        /\ reads + 1 \in 1 .. Len(regions) /\ r \in Regions
    BY <1>1, <2>1
  <2>3. PagesOf(r) \subseteq Page
    BY <2>2 DEF MRInv, FoundOK
  <2>4. r.base \in Page
    BY <2>2 DEF Regions
  <2> QED BY <2>1, <2>2, <2>3, <2>4
<1>3. /\ buffer' \in [1 .. BufferSize -> Pg]
      /\ \/ results' = results
         \/ \E d \in Seq(Pg) :
              /\ results' = Append(results, [base |-> r.base, data |-> d])
              /\ \A k \in 1 .. Len(d) : d[k] = r.base + k - 1
      /\ Eligible(r) /\ (\A p \in PagesOf(r) : space[p] = "wanted")
           => \E d \in Seq(Pg) :
                /\ results' = Append(results, [base |-> r.base, data |-> d])
                /\ Len(d) = r.size
  BY ReadAdds
<1> HIDE DEF r
<1>4. ASSUME NEW d \in Seq(Pg),
             results' = Append(results, [base |-> r.base, data |-> d])
      PROVE  /\ results' \in Seq(Result)
             /\ Len(results) \in Nat /\ Len(results') = Len(results) + 1
             /\ results'[Len(results) + 1].base = r.base
             /\ results'[Len(results) + 1].data = d
             /\ \A i \in 1 .. Len(results) : results'[i] = results[i]
             /\ \A i \in 1 .. Len(results) + 1 :
                  i \in 1 .. Len(results) \/ i = Len(results) + 1
  <2> DEFINE e == [base |-> r.base, data |-> d]
  <2>1. e \in Result /\ e.base = r.base /\ e.data = d
    BY <1>2
  <2> HIDE DEF e, Result
  <2> QED BY <1>2, <1>4, <2>1, AppendOne DEF e
<1>5. /\ results' \in Seq(Result) /\ Len(results) \in Nat
      /\ \A j \in 1 .. Len(results) :
           j \in 1 .. Len(results') /\ results'[j] = results[j]
  <2>1. CASE results' = results
    BY <1>2, <2>1
  <2>2. ASSUME NEW d \in Seq(Pg),
               results' = Append(results, [base |-> r.base, data |-> d])
        PROVE  /\ results' \in Seq(Result) /\ Len(results) \in Nat
               /\ \A j \in 1 .. Len(results) :
                    j \in 1 .. Len(results') /\ results'[j] = results[j]
    <3>1. /\ results' \in Seq(Result)
          /\ Len(results) \in Nat /\ Len(results') = Len(results) + 1
          /\ \A j \in 1 .. Len(results) : results'[j] = results[j]
      BY <1>4, <2>2
    <3> HIDE DEF Result
    <3> QED BY <3>1
  <2> QED BY <1>3, <2>1, <2>2
<1>6. MRTypeOK'
  <2>1. reads' \in 0 .. Len(regions)
    BY <1>1, <1>2
  <2> QED BY <1>1, <1>3, <1>5, <2>1 DEF MRInv, MRTypeOK
<1>7. FoundOK'
  BY <1>1 DEF MRInv, FoundOK, PagesOf
<1>8. ReadOK'
  <2> SUFFICES ASSUME NEW i \in 1 .. reads + 1, Eligible(regions[i]),
                      PagesOf(regions[i]) \intersect changed = {}
               PROVE  Whole(regions[i])'
    BY <1>1 DEF ReadOK, Eligible, PagesOf
  <2>1. CASE i \in 1 .. reads
    <3>1. PICK j \in 1 .. Len(results) : /\ results[j].base = regions[i].base
                                         /\ Len(results[j].data) = regions[i].size
      BY <2>1 DEF MRInv, ReadOK, Whole
    <3> QED BY <1>1, <1>5, <3>1 DEF Whole
  <2>2. CASE i = reads + 1
    <3>1. Eligible(r) /\ \A p \in PagesOf(r) : space[p] = "wanted"
      BY <1>2, <2>2 DEF r, MRInv, FoundOK, Eligible
    <3>2. PICK d \in Seq(Pg) :
            /\ results' = Append(results, [base |-> r.base, data |-> d])
            /\ Len(d) = r.size
      BY <1>3, <3>1
    <3>3. /\ Len(results) + 1 \in 1 .. Len(results')
          /\ results'[Len(results) + 1].base = r.base
          /\ results'[Len(results) + 1].data = d
      BY <1>4, <3>2
    <3> QED BY <1>1, <2>2, <3>2, <3>3 DEF Whole, r
  <2> QED BY <1>2, <2>1, <2>2
<1>9. DataIsOfItsRegion'
  <2>1. CASE results' = results
    BY <2>1 DEF MRInv, DataIsOfItsRegion
  <2>2. ASSUME NEW d \in Seq(Pg),
               results' = Append(results, [base |-> r.base, data |-> d]),
               \A k \in 1 .. Len(d) : d[k] = r.base + k - 1
        PROVE  DataIsOfItsRegion'
    <3> SUFFICES ASSUME NEW j \in 1 .. Len(results) + 1,
                        NEW k \in 1 .. Len(results'[j].data)
                 PROVE  results'[j].data[k] = results'[j].base + k - 1
      BY <1>4, <2>2 DEF DataIsOfItsRegion
    <3>1. CASE j \in 1 .. Len(results)
      BY <1>4, <2>2, <3>1 DEF MRInv, DataIsOfItsRegion
    <3>2. CASE j = Len(results) + 1
      BY <1>4, <2>2, <3>2
    <3> QED BY <1>4, <2>2, <3>1, <3>2
  <2> QED BY <1>3, <2>1, <2>2
<1> QED BY <1>6, <1>7, <1>8, <1>9 DEF MRInv

(* Steps of the walk itself that only move it on.                          *)
LEMMA MovesOn ==
    ASSUME MRInv, UNCHANGED <<address, regions, reads, buffer, results>>,
           MRTypeOK', FoundOK', changed \subseteq changed'
    PROVE  MRInv'
<1>1. ReadOK'
  BY DEF MRInv, ReadOK, Eligible, Whole, PagesOf
<1>2. DataIsOfItsRegion'
  BY DEF MRInv, DataIsOfItsRegion
<1> QED BY <1>1, <1>2 DEF MRInv

LEMMA RemapInv == ASSUME MRInv, Remap PROVE MRInv'
<1>1. PICK p \in Page, k \in Kinds \ {"gone"} :
        /\ space[p] # "gone"
        /\ space' = [space EXCEPT ![p] = k]
        /\ changed' = changed \union {p}
  BY DEF Remap
<1>2. UNCHANGED <<walk, address, regions, reads, buffer, results>>
  BY DEF Remap
<1>3. MRTypeOK' /\ \A q \in Page : q # p => space'[q] = space[q]
  BY <1>1, <1>2 DEF MRInv, MRTypeOK
<1>4. FoundOK'
  <2>1. \A i \in 1 .. Len(regions) : \A q \in PagesOf(regions[i]) \ changed' :
          space'[q] = regions[i].kind
    BY <1>1, <1>3 DEF MRInv, FoundOK
  <2>2. \A q \in Page : space'[q] = "gone" => changed' = Page
    BY <1>1, <1>3 DEF MRInv, MRTypeOK, FoundOK
  <2>3. walk \in {"reading", "done"} => address = Pages \/ changed' = Page
    BY <1>1 DEF MRInv, FoundOK
  <2>4. walk # "none"
    BY DEF Remap
  <2> QED BY <1>2, <2>1, <2>2, <2>3, <2>4 DEF MRInv, FoundOK, PagesOf, Page
<1> QED BY <1>1, <1>2, <1>3, <1>4, MovesOn

LEMMA ProcessEndsInv == ASSUME MRInv, ProcessEnds PROVE MRInv'
<1>1. /\ UNCHANGED <<walk, address, regions, reads, buffer, results>>
      /\ space' = [p \in Page |-> "gone"] /\ changed' = Page
      /\ walk # "none"
  BY DEF ProcessEnds
<1>2. MRTypeOK' /\ changed \subseteq changed'
  BY <1>1 DEF MRInv, MRTypeOK, Kinds
<1>3. FoundOK'
  BY <1>1 DEF MRInv, FoundOK, PagesOf, Page
<1> QED BY <1>1, <1>2, <1>3, MovesOn

LEMMA MRNextInv == ASSUME MRInv, [MRNext]_mrVars PROVE MRInv'
<1>1. CASE read_committed_regions
  <2>1. MRTypeOK'
    BY <1>1 DEF MRInv, MRTypeOK, read_committed_regions
  <2>2. regions = <<>> /\ changed = {}
    BY <1>1 DEF MRInv, FoundOK, read_committed_regions
  <2>3. \A p \in Page : space'[p] # "gone"
    BY <1>1 DEF read_committed_regions
  <2>4. \A i \in 1 .. Len(regions) : FALSE
    BY <2>2
  <2>5. FoundOK'
    BY <1>1, <2>2, <2>3, <2>4
    DEF MRInv, FoundOK, read_committed_regions, PagesOf, Page
  <2> QED BY <1>1, <2>1, <2>5, MovesOn DEF read_committed_regions
<1>2. CASE query_fails
  <2>1. MRTypeOK'
    BY <1>2 DEF MRInv, MRTypeOK, query_fails
  <2>2. address = Pages \/ changed = Page
    BY <1>2, ReaderAssumption
    DEF query_fails, MRInv, MRTypeOK, FoundOK, Page, ReaderAssumption
  <2>3. FoundOK'
    BY <1>2, <2>2 DEF MRInv, FoundOK, query_fails, PagesOf, Page
  <2> QED BY <1>2, <2>1, <2>3, MovesOn DEF query_fails
<1>3. CASE read_ends
  <2>1. MRTypeOK'
    BY <1>3 DEF MRInv, MRTypeOK, read_ends
  <2>2. FoundOK'
    BY <1>3 DEF MRInv, FoundOK, read_ends, PagesOf, Page
  <2> QED BY <1>3, <2>1, <2>2, MovesOn DEF read_ends
<1>4. CASE Leave
  <2> USE <1>4 DEF Leave
  <2>1. MRTypeOK'
    BY ReaderAssumption
    DEF MRTypeOK, Unseen, Kinds, NewBuffer, Page, NoPage, ReaderAssumption
  <2>2. \A i \in 1 .. Len(regions') : FALSE
    OBVIOUS
  <2>3. \A p \in Page : space'[p] # "gone" /\ ~(p < 0)
    BY ReaderAssumption DEF Unseen, Page, ReaderAssumption
  <2>4. FoundOK'
    BY <2>2, <2>3 DEF FoundOK, PagesOf, Page
  <2>5. ReadOK' /\ DataIsOfItsRegion'
    BY DEF ReadOK, DataIsOfItsRegion
  <2> QED BY <2>1, <2>4, <2>5 DEF MRInv
<1>5. CASE UNCHANGED mrVars
  BY <1>5 DEF MRInv, MRTypeOK, FoundOK, ReadOK, Eligible, Whole, PagesOf,
              DataIsOfItsRegion, Page, mrVars
<1> QED BY <1>1, <1>2, <1>3, <1>4, <1>5,
           QueryInv, ReadInv, RemapInv, ProcessEndsInv DEF MRNext, Walk

(* Every step of the session is one of the walk, or leaves the walk alone. *)
LEMMA WalkSteps == [SSNext]_ssVars => [MRNext]_mrVars
<1> USE DEF MRNext, mrVars
<1>1. ASSUME SSNext PROVE [MRNext]_mrVars
  BY <1>1 DEF SSNext, scan_once, Scan, next_process, walk_on, process_done,
              scan_ends, report, scan_raises, Rest, External
<1> QED BY <1>1 DEF ssVars

LEMMA WalkInvariant == SSSpec => []MRInv
<1>1. SSInit => MRInv
  BY MRInitInv DEF SSInit
<1>2. MRInv /\ [SSNext]_ssVars => MRInv'
  BY MRNextInv, WalkSteps
<1> QED BY <1>1, <1>2, PTL DEF SSSpec

(* For any address space, limits and changes: what stayed wanted during a  *)
(* walk is found, and read whole unless it is too large.                   *)
THEOREM StablePagesAreReadHolds == SSSpec => []StablePagesAreRead
<1>1. MRInv => StablePagesAreRead
  <2> SUFFICES ASSUME MRInv, walk = "done", NEW p \in Page \ changed,
                      space[p] = "wanted"
               PROVE  \E i \in 1 .. Len(regions) :
                        /\ p \in PagesOf(regions[i])
                        /\ regions[i].kind = "wanted"
                        /\ regions[i].size <= MaxSize
                           /\ PagesOf(regions[i]) \intersect changed = {}
                             => Whole(regions[i])
    BY DEF StablePagesAreRead, Whole
  <2>1. p < address
    BY ReaderAssumption DEF MRInv, FoundOK, Page, ReaderAssumption
  <2>2. PICK i \in 1 .. Len(regions) : p \in PagesOf(regions[i])
    BY <2>1 DEF MRInv, FoundOK
  <2>3. regions[i].kind = "wanted"
    BY <2>2 DEF MRInv, FoundOK
  <2>4. i \in 1 .. reads
    BY DEF MRInv, FoundOK
  <2> QED BY <2>2, <2>3, <2>4 DEF MRInv, ReadOK, Eligible
<1> QED BY <1>1, WalkInvariant, PTL

(* The shared buffer never shows one region's bytes as another's.          *)
THEOREM DataIsOfItsRegionHolds == SSSpec => []DataIsOfItsRegion
<1>1. MRInv => DataIsOfItsRegion
  BY DEF MRInv
<1> QED BY <1>1, WalkInvariant, PTL

(* The safety part of ImplementsSession: a session that really scans does  *)
(* what the session with an abstract scan may do.  All that is proved of   *)
(* TraceSession above holds of it.                                         *)
THEOREM ScansLikeASession == SSSpec => Spec
<1>1. SSInit => Init
  BY DEF SSInit
<1>2. [SSNext]_ssVars => [Next]_vars
  <2>1. ASSUME SSNext PROVE [Next]_vars
    BY <2>1 DEF SSNext, scan_once, Scan, next_process, walk_on, process_done,
                scan_ends, report, scan_raises, Rest, External, Next, Scanner
  <2> QED BY <2>1 DEF ssVars
<1> QED BY <1>1, <1>2, PTL DEF SSSpec, Spec
(* Hence what is proved of a session holds of one that really scans.       *)
THEOREM ScanningSessionIsSafe ==
    SSSpec => []ScannerNeedsTarget /\ UsesLoop
BY ScansLikeASession, ScannerNeedsTargetHolds, UsesLoopHolds, PTL
=============================================================================
