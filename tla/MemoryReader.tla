---------------------------- MODULE MemoryReader ----------------------------
(***************************************************************************)
(* memory/reader.py, enumerate_regions, read_region and                    *)
(* read_committed_regions: the walk over the address space of a process    *)
(* that goes on running, and may end, between any two calls to kernel32.   *)
(* All regions are enumerated first and read afterwards, the small ones    *)
(* through one shared buffer.                                              *)
(*                                                                         *)
(* Addresses and sizes count pages.  The bytes of a page are its number,   *)
(* so that it shows where data comes from.                                 *)
(***************************************************************************)
EXTENDS Integers, Sequences, FiniteSets

CONSTANTS
    Pages,      \* the size of the address space
    MaxSize,    \* max_region_size_mb
    BufferSize, \* shared_buffer_size
    MaxChanges  \* bound: how many pages change during one walk

ASSUME ReaderAssumption ==
    /\ Pages \in Nat \ {0} /\ MaxChanges \in Nat
    /\ MaxSize \in Nat \ {0} /\ BufferSize \in Nat \ {0}

VARIABLES
    space,    \* external: what each page is now
    walk,     \* "none", "enumerating", "reading", "done"
    address,  \* the next address to ask about
    regions,  \* what enumerate_regions has found
    reads,    \* how many of them read_committed_regions has dealt with
    buffer,   \* shared_buffer
    results,
    changed   \* history: the pages that changed in this walk

mrVars == <<space, walk, address, regions, reads, buffer, results, changed>>

Page == 0 .. Pages - 1

NoPage == -1   \* the zero bytes of a new buffer

(* Committed with a protection of interest; anything else, which can be    *)
(* read or not; and the pages of a process that has ended.                 *)
Kinds == {"wanted", "other", "gone"}

Regions == [base : Page, size : 1 .. Pages, kind : Kinds]

PagesOf(r) == r.base .. r.base + r.size - 1

MRTypeOK ==
    /\ space \in [Page -> Kinds]
    /\ walk \in {"none", "enumerating", "reading", "done"}
    /\ address \in 0 .. Pages
    /\ regions \in Seq(Regions)
    /\ reads \in 0 .. Len(regions)
    /\ buffer \in [1 .. BufferSize -> Page \union {NoPage}]
    /\ results \in Seq([base : Page, data : Seq(Page \union {NoPage})])
    /\ changed \in SUBSET Page

NewBuffer == [i \in 1 .. BufferSize |-> NoPage]

(* Between walks the space is of no interest.                              *)
Unseen == [p \in Page |-> "other"]

MRInit ==
    /\ space = Unseen /\ walk = "none"
    /\ address = 0 /\ regions = <<>> /\ reads = 0
    /\ buffer = NewBuffer /\ results = <<>> /\ changed = {}

read_committed_regions ==
    /\ walk = "none"
    /\ space' \in [Page -> Kinds \ {"gone"}]
    /\ walk' = "enumerating"
    /\ UNCHANGED <<address, regions, reads, buffer, results, changed>>

(* VirtualQueryEx: pages alike from the address on; how far they belong    *)
(* together is the allocator's choice.                                     *)
Region(r) ==
    /\ r.base = address
    /\ r.kind # "gone"
    /\ \A p \in PagesOf(r) : p \in Page /\ space[p] = r.kind

(* Mutants: two regions are never adjacent; a query that fails is repeated. *)
query_apart ==
    /\ walk = "enumerating"
    /\ \E size \in 1 .. Pages, kind \in Kinds :
         LET r == [base |-> address, size |-> size, kind |-> kind] IN
         /\ Region(r)
         /\ regions' = Append(regions, r)
         /\ address' = IF address + size < Pages THEN address + size + 1
                                                 ELSE Pages
    /\ UNCHANGED <<space, walk, reads, buffer, results, changed>>

query_fails_again ==
    /\ walk = "enumerating"
    /\ address \in Page => space[address] = "gone"
    /\ UNCHANGED mrVars

(* The next address is always above the last, so the code's test against a *)
(* walk on the spot (reader.py:77) never ends it.                          *)
query ==
    /\ walk = "enumerating"
    /\ \E size \in 1 .. Pages, kind \in Kinds :
         LET r == [base |-> address, size |-> size, kind |-> kind] IN
         /\ Region(r)
         /\ regions' = Append(regions, r)
         /\ address' = address + size
    /\ UNCHANGED <<space, walk, reads, buffer, results, changed>>

(* The end of the address space, or of the process.                        *)
query_fails ==
    /\ walk = "enumerating"
    /\ address \in Page => space[address] = "gone"
    /\ walk' = "reading"
    /\ UNCHANGED <<space, address, regions, reads, buffer, results, changed>>

Eligible(r) == r.kind = "wanted" /\ r.size <= MaxSize

(* ReadProcessMemory copies up to the first page that cannot be read, or   *)
(* then nothing at all; some pages that are not wanted can be read.        *)
Copied(r) ==
    {n \in 0 .. r.size :
        \/ /\ \A p \in PagesOf(r) : p < r.base + n => space[p] # "gone"
           /\ n = r.size \/ space[r.base + n] # "wanted"
        \/ n = 0 /\ \E p \in PagesOf(r) : space[p] # "wanted"}

(* Mutant: the result is as long as the region, not as what was copied.    *)
Data_whole(r, buf, n) == SubSeq(buf, 1, r.size)

Data(r, buf, n) == SubSeq(buf, 1, n)

(* The next region, skipped or read.                                       *)
read_region ==
    /\ walk = "reading" /\ reads < Len(regions)
    /\ LET r == regions[reads + 1]
           shared == r.size <= BufferSize
           start == IF shared THEN buffer ELSE [i \in 1 .. r.size |-> NoPage]
       IN
       IF Eligible(r)
         THEN \E n \in Copied(r) :
                LET buf == [i \in DOMAIN start |->
                              IF i <= n THEN r.base + i - 1 ELSE start[i]]
                IN
                /\ buffer' = IF shared THEN buf ELSE buffer
                /\ results' = IF n = 0 THEN results
                              ELSE Append(results, [base |-> r.base,
                                                    data |-> Data(r, buf, n)])
         ELSE UNCHANGED <<buffer, results>>
    /\ reads' = reads + 1
    /\ UNCHANGED <<space, walk, address, regions, changed>>

read_ends ==
    /\ walk = "reading" /\ reads = Len(regions)
    /\ walk' = "done"
    /\ UNCHANGED <<space, address, regions, reads, buffer, results, changed>>

(* External: the process maps, protects and frees a page, or ends.         *)
Remap ==
    /\ walk \in {"enumerating", "reading"}
    /\ \E p \in Page : \E k \in Kinds \ {"gone", space[p]} :
         /\ space[p] # "gone"
         /\ Cardinality(changed \union {p}) <= MaxChanges
         /\ space' = [space EXCEPT ![p] = k]
         /\ changed' = changed \union {p}
    /\ UNCHANGED <<walk, address, regions, reads, buffer, results>>

ProcessEnds ==
    /\ walk \in {"enumerating", "reading"}
    /\ space' = [p \in Page |-> "gone"]
    /\ changed' = Page
    /\ UNCHANGED <<walk, address, regions, reads, buffer, results>>

Walk == query \/ query_fails \/ read_region \/ read_ends

(* The caller has what it wanted, or an exception ended the walk.          *)
Leave ==
    /\ walk # "none"
    /\ space' = Unseen /\ walk' = "none"
    /\ address' = 0 /\ regions' = <<>> /\ reads' = 0
    /\ buffer' = NewBuffer /\ results' = <<>> /\ changed' = {}

MRNext ==
    \/ read_committed_regions \/ Walk \/ Leave
    \/ Remap \/ ProcessEnds

MRSpec == MRInit /\ [][MRNext]_mrVars
-----------------------------------------------------------------------------
(* Whatever else changes under the walk, a page that stays what it is is   *)
(* found in a region of interest, and if that region did not change either *)
(* and is not too large all of it is read (reader.py:63-80, 123-134).      *)
StablePagesAreRead ==
    walk = "done" =>
        \A p \in Page \ changed : space[p] = "wanted" =>
            \E i \in 1 .. Len(regions) :
                LET r == regions[i] IN
                /\ p \in PagesOf(r) /\ r.kind = "wanted"
                /\ r.size <= MaxSize /\ PagesOf(r) \intersect changed = {}
                     => \E j \in 1 .. Len(results) :
                          /\ results[j].base = r.base
                          /\ Len(results[j].data) = r.size

(* The buffer is used again for every small region, and a read may stop    *)
(* half-way: what is returned for a region is never left over from another *)
(* one (reader.py:99-102, 120-132).                                        *)
DataIsOfItsRegion ==
    \A j \in 1 .. Len(results) :
        \A k \in 1 .. Len(results[j].data) :
            results[j].data[k] = results[j].base + k - 1
=============================================================================
