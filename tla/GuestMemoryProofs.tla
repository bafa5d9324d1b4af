------------------------- MODULE GuestMemoryProofs -------------------------
(***************************************************************************)
(* The guest address space, for any number of pages, files and JITs, and   *)
(* the GL objects that HostGl mirrors in it (GlObjects), for any numbers   *)
(* of threads, sync objects and blocks.                                    *)
(***************************************************************************)
EXTENDS GuestMemory, GlObjects, TLAPS

\* The recorded mappings and relocation windows.
RecordsTyped ==
    /\ file_mappings \subseteq [start : Page, len : 1..TopPage, file : Files]
    /\ textrel_ranges \subseteq [start : Page, len : 1..TopPage, prot : Prots]
    /\ \A r \in file_mappings \cup textrel_ranges : Range(r.start, r.len) \subseteq Page

\* What keeps mprotect and the end of a relocation window from making a page of
\* a refused file executable.
ForeignIneligible ==
    /\ \A p \in Page : backing[p] \in Foreign => p \notin exec_eligible
    /\ \A r \in textrel_ranges : \A p \in Range(r.start, r.len) \cap Page : backing[p] \notin Foreign

IInv == TypeOK /\ RecordsTyped /\ HostAgrees /\ GuestCodeOnly /\ ForeignIneligible
        /\ StaleIsQueued /\ FreshIsExecutable /\ RecordsMatchMemory

-----------------------------------------------------------------------------
\* A range that passed range_valid is a range of pages.
LEMMA RangeOfPages ==
    ASSUME NEW at \in Page, NEW len \in 1..TopPage, range_valid(at, len)
    PROVE  Range(at, len) \subseteq Page
BY MemoryAssumption DEF Page, Range, range_valid

\* The flag for "mapped" means nothing to the host.
LEMMA HostProtOfFlags ==
    ASSUME NEW prot \in SUBSET {"r", "w", "x"}
    PROVE  /\ HostProt(Flags(prot)) = HostProt(prot)
           /\ HostProt(prot) \in SUBSET {"r", "w"}
           /\ Flags(prot) \in SUBSET {"m", "r", "w", "x"}
           /\ Flags(prot) # {}
           /\ "x" \in Flags(prot) <=> "x" \in prot
BY DEF HostProt, Flags

LEMMA HostProtOfNothing == HostProt({}) = {}
BY DEF HostProt

\* Wherever mmap2 settles, the range lies in the address space.
LEMMA PlacedFits ==
    ASSUME NEW mode \in {"fixed", "noreplace", "hint"}, NEW addr \in Page, NEW len \in 1..TopPage,
           NEW at \in Placed(mode, addr, len)
    PROVE  at \in Page /\ range_valid(at, len)
<1>1. CASE mode = "fixed"
  BY <1>1 DEF Placed
<1>2. CASE mode = "noreplace"
  BY <1>2 DEF Placed, range_free
<1>3. CASE mode = "hint"
  BY <1>3 DEF Placed, range_free, find_free
<1>. QED  BY <1>1, <1>2, <1>3

\* The parts of the state that a change of a range touches keep their types.
LEMMA SetPagesTyped ==
    ASSUME TypeOK, NEW at \in Page, NEW len \in 1..TopPage, range_valid(at, len),
           NEW prot \in SUBSET {"r", "w", "x"}, NEW flags \in SUBSET {"m", "r", "w", "x"},
           NEW source \in Files \cup {"anon", "none", "same"}, SetPages(at, len, prot, flags, source)
    PROVE  /\ pages' \in [Page -> SUBSET {"m", "r", "w", "x"}]
           /\ host' \in [Page -> SUBSET {"r", "w"}]
           /\ backing' \in [Page -> Files \cup {"anon", "none"}]
           /\ Range(at, len) \subseteq Page
           /\ cache' \in [Jits -> [Page -> {"none", "fresh", "stale"}]]
<1>1. Range(at, len) \subseteq Page
  BY RangeOfPages
<1>2. pages' \in [Page -> SUBSET {"m", "r", "w", "x"}]
  BY DEF TypeOK, SetPages
<1>3. host' \in [Page -> SUBSET {"r", "w"}]
  BY HostProtOfFlags DEF TypeOK, SetPages
<1>4. backing' \in [Page -> Files \cup {"anon", "none"}]
  BY DEF TypeOK, SetPages
<1>5. cache' \in [Jits -> [Page -> {"none", "fresh", "stale"}]]
  BY DEF TypeOK, SetPages
<1>. QED  BY <1>1, <1>2, <1>3, <1>4, <1>5

\* A range that is mapped, protected or unmapped as a whole keeps both views of
\* it in step.
LEMMA SetPagesAgrees ==
    ASSUME TypeOK, HostAgrees, NEW at \in Page, NEW len \in 1..TopPage,
           NEW prot \in SUBSET {"r", "w", "x"}, NEW flags, NEW source,
           SetPages(at, len, prot, flags, source),
           \/ prot = {} /\ flags = {} /\ source = "none"
           \/ flags = Flags(prot) /\ source \in Files \cup {"anon"}
           \/ flags = Flags(prot) /\ source = "same" /\ accessible(at, len)
    PROVE  HostAgrees'
<1>. SUFFICES ASSUME NEW p \in Page
              PROVE  host'[p] = HostProt(pages'[p]) /\ (pages'[p] = {} <=> backing'[p] = "none")
  BY DEF HostAgrees, Free
<1>1. HostProt(Flags(prot)) = HostProt(prot) /\ Flags(prot) # {}
  BY HostProtOfFlags
<1>2. CASE p \notin Range(at, len)
  BY <1>2 DEF SetPages, HostAgrees, Free
<1>3. CASE p \in Range(at, len)
  <2>1. host'[p] = HostProt(prot) /\ pages'[p] = flags
        /\ backing'[p] = IF source # "same" THEN source ELSE backing[p]
    BY <1>3 DEF SetPages
  <2>2. CASE prot = {} /\ flags = {} /\ source = "none"
    BY <2>1, <2>2
  <2>3. CASE flags = Flags(prot) /\ source \in Files \cup {"anon"}
    BY <2>1, <2>3, <1>1, MemoryAssumption
  <2>4. CASE flags = Flags(prot) /\ source = "same" /\ accessible(at, len)
    BY <2>1, <2>4, <1>1, <1>3 DEF accessible, HostAgrees, Free
  <2>. QED  BY <2>2, <2>3, <2>4
<1>. QED  BY <1>2, <1>3

\* The translations that a change makes stale are those of the running call.
LEMMA SetPagesStale ==
    ASSUME TypeOK, StaleIsQueued, Unlocked, NEW at, NEW len, NEW prot, NEW flags, NEW source,
           SetPages(at, len, prot, flags, source), changed' = Range(at, len), UNCHANGED queued
    PROVE  StaleIsQueued'
BY DEF TypeOK, StaleIsQueued, Unlocked, SetPages

\* No translation of a changed page counts as current.
LEMMA SetPagesFresh ==
    ASSUME TypeOK, FreshIsExecutable, NEW at, NEW len, NEW prot, NEW flags, NEW source,
           SetPages(at, len, prot, flags, source)
    PROVE  FreshIsExecutable'
BY DEF TypeOK, FreshIsExecutable, SetPages

-----------------------------------------------------------------------------
LEMMA InitIInv == Init => IInv
<1>. SUFFICES ASSUME Init PROVE IInv
  OBVIOUS
<1>. USE MemoryAssumption DEF Init
<1>1. TypeOK
  BY DEF TypeOK, Page
<1>2. HostAgrees
  BY HostProtOfNothing DEF HostAgrees, Free
<1>3. RecordsTyped /\ RecordsMatchMemory /\ StaleIsQueued /\ FreshIsExecutable /\ GuestCodeOnly
  BY DEF RecordsTyped, RecordsMatchMemory, StaleIsQueued, FreshIsExecutable, GuestCodeOnly
<1>4. ForeignIneligible
  BY DEF ForeignIneligible
<1>. QED  BY <1>1, <1>2, <1>3, <1>4 DEF IInv

\* The heap grows over free pages, without execute permission.
LEMMA BrkGrowIInv ==
    ASSUME IInv, NEW want \in BrkStart..(TopPage + 1), BrkGrow(want)
    PROVE  IInv'
<1>. DEFINE at == brk_current
            len == want - brk_current
<1>. USE DEF IInv
<1>1. at \in Page /\ len \in 1..TopPage /\ range_valid(at, len)
  BY MemoryAssumption DEF TypeOK, BrkGrow, Page, range_free, range_valid
<1>2. SetPages(at, len, {"r", "w"}, Flags({"r", "w"}), "anon") /\ UNCHANGED <<changed, queued>>
  BY DEF BrkGrow
<1>3. Flags({"r", "w"}) \in SUBSET {"m", "r", "w", "x"} /\ "x" \notin Flags({"r", "w"})
  BY DEF Flags
<1>. HIDE DEF at, len
<1>4. TypeOK'
  <2>1. brk_current' \in BrkStart..(TopPage + 1) /\ UNCHANGED <<exec_eligible, queued>>
    BY DEF BrkGrow
  <2>. QED  BY <1>1, <1>2, <1>3, <2>1, SetPagesTyped DEF TypeOK
<1>5. HostAgrees'
  BY <1>1, <1>2, SetPagesAgrees
<1>6. StaleIsQueued' /\ FreshIsExecutable'
  <2>1. \A p \in Range(at, len) : pages[p] = {}
    BY DEF BrkGrow, range_free, Free, at, len
  <2>2. \A j \in Jits, p \in Page : cache'[j][p] = "stale" => cache[j][p] = "stale"
    BY <1>2, <2>1 DEF SetPages, FreshIsExecutable, TypeOK
  <2>3. StaleIsQueued'
    BY <1>2, <2>2 DEF StaleIsQueued
  <2>. QED  BY <1>2, <2>3, SetPagesFresh
<1>7. UNCHANGED <<exec_eligible, file_mappings, textrel_ranges>>
  BY DEF BrkGrow
<1>8. \A p \in Page : IF p \in Range(at, len)
                      THEN backing'[p] = "anon" /\ "x" \notin pages'[p]
                      ELSE backing'[p] = backing[p] /\ pages'[p] = pages[p]
  BY <1>2, <1>3 DEF SetPages
<1>9. RecordsTyped' /\ GuestCodeOnly' /\ ForeignIneligible'
  BY <1>7, <1>8, MemoryAssumption DEF RecordsTyped, GuestCodeOnly, ForeignIneligible
<1>10. RecordsMatchMemory'
  <2>1. Range(at, len) \subseteq Heap
    BY <1>1, MemoryAssumption DEF TypeOK, Range, Heap, Page, range_valid, at
  <2>2. \A r \in file_mappings \cup textrel_ranges : \A p \in Range(r.start, r.len) \ Heap :
            p \in Page /\ backing'[p] = backing[p]
    BY <1>8, <2>1 DEF RecordsTyped
  <2>. QED  BY <1>7, <2>2 DEF RecordsMatchMemory
<1>. QED  BY <1>4, <1>5, <1>6, <1>9, <1>10

\* The heap shrinks: its pages are unmapped, records and eligibility stay.
LEMMA BrkShrinkIInv ==
    ASSUME IInv, NEW want \in BrkStart..(TopPage + 1), BrkShrink(want)
    PROVE  IInv'
<1>. DEFINE at == want
            len == brk_current - want
<1>. USE DEF IInv
<1>1. at \in Page /\ len \in 1..TopPage /\ range_valid(at, len)
  BY MemoryAssumption DEF TypeOK, BrkShrink, Page, range_valid
<1>2. /\ SetPages(at, len, {}, {}, "none") /\ changed' = Range(at, len)
      /\ Unlocked /\ UNCHANGED queued
  BY DEF BrkShrink, unmap, SetRange
<1>3. Range(at, len) \subseteq Heap
  BY <1>1, MemoryAssumption DEF TypeOK, Range, Heap, Page, range_valid
<1>. HIDE DEF at, len
<1>4. TypeOK'
  <2>1. brk_current' \in BrkStart..(TopPage + 1) /\ UNCHANGED <<exec_eligible, queued>>
    BY DEF BrkShrink
  <2>. QED  BY <1>1, <1>2, <2>1, SetPagesTyped DEF TypeOK
<1>5. HostAgrees'
  BY <1>1, <1>2, SetPagesAgrees
<1>6. StaleIsQueued' /\ FreshIsExecutable'
  BY <1>2, SetPagesStale, SetPagesFresh
<1>7. UNCHANGED <<exec_eligible, file_mappings, textrel_ranges>>
  BY DEF BrkShrink
<1>8. \A p \in Page : IF p \in Range(at, len)
                      THEN backing'[p] = "none" /\ pages'[p] = {}
                      ELSE backing'[p] = backing[p] /\ pages'[p] = pages[p]
  BY <1>2 DEF SetPages
<1>9. RecordsTyped' /\ GuestCodeOnly' /\ ForeignIneligible'
  BY <1>7, <1>8, MemoryAssumption DEF RecordsTyped, GuestCodeOnly, ForeignIneligible
<1>10. RecordsMatchMemory'
  <2>1. \A r \in file_mappings \cup textrel_ranges : \A p \in Range(r.start, r.len) \ Heap :
            p \in Page /\ backing'[p] = backing[p]
    BY <1>8, <1>3 DEF RecordsTyped
  <2>. QED  BY <1>7, <2>1 DEF RecordsMatchMemory
<1>. QED  BY <1>4, <1>5, <1>6, <1>9, <1>10

\* munmap: the pages may be executable again, and no record names them.
LEMMA MunmapIInv ==
    ASSUME IInv, NEW at \in Page, NEW len \in 1..TopPage, Munmap(at, len)
    PROVE  IInv'
<1>. USE DEF IInv
<1>1. range_valid(at, len) /\ Range(at, len) \subseteq Page
  BY RangeOfPages DEF Munmap
<1>2. /\ SetPages(at, len, {}, {}, "none") /\ changed' = Range(at, len)
      /\ Unlocked /\ UNCHANGED queued
  BY DEF Munmap, unmap, SetRange
<1>3. TypeOK'
  <2>1. exec_eligible' \subseteq Page /\ UNCHANGED <<brk_current, queued>>
    BY <1>1 DEF Munmap, set_exec_eligibility, TypeOK
  <2>. QED  BY <1>1, <1>2, <2>1, SetPagesTyped DEF TypeOK
<1>4. HostAgrees'
  BY <1>2, SetPagesAgrees
<1>5. StaleIsQueued' /\ FreshIsExecutable'
  BY <1>2, SetPagesStale, SetPagesFresh
<1>6. \A p \in Page : IF p \in Range(at, len)
                      THEN backing'[p] = "none" /\ pages'[p] = {}
                      ELSE /\ backing'[p] = backing[p] /\ pages'[p] = pages[p]
                           /\ p \in exec_eligible' <=> p \in exec_eligible
  BY <1>2 DEF SetPages, Munmap, set_exec_eligibility
<1>7. /\ file_mappings' \subseteq file_mappings /\ textrel_ranges' \subseteq textrel_ranges
      /\ \A r \in file_mappings' \cup textrel_ranges' : Range(r.start, r.len) \cap Range(at, len) = {}
  BY DEF Munmap, forget_mappings, KeptMappings, KeptTextrel, Overlaps
<1>8. RecordsTyped'
  BY <1>7 DEF RecordsTyped
<1>9. GuestCodeOnly'
  BY <1>6 DEF GuestCodeOnly
<1>10. \A r \in file_mappings' \cup textrel_ranges' : \A p \in Range(r.start, r.len) :
           p \in Page /\ backing'[p] = backing[p]
  BY <1>6, <1>7 DEF RecordsTyped
<1>11. ForeignIneligible'
  <2>1. \A p \in Page : backing'[p] \in Foreign => p \notin exec_eligible'
    BY <1>6, MemoryAssumption DEF ForeignIneligible
  <2>. QED  BY <2>1, <1>7, <1>10 DEF ForeignIneligible
<1>12. RecordsMatchMemory'
  BY <1>7, <1>10 DEF RecordsMatchMemory
<1>. QED  BY <1>3, <1>4, <1>5, <1>8, <1>9, <1>11, <1>12

\* mprotect: pages stay what they were mapped from; a page of a refused file is
\* not eligible and so cannot become executable.
LEMMA MprotectIInv ==
    ASSUME IInv, NEW at \in Page, NEW len \in 1..TopPage, NEW prot \in Prots, Mprotect(at, len, prot)
    PROVE  IInv'
<1>. USE DEF IInv
<1>1. prot \in SUBSET {"r", "w", "x"} /\ range_valid(at, len) /\ accessible(at, len)
  BY MemoryAssumption DEF Mprotect, accessible
<1>2. /\ SetPages(at, len, prot, Flags(prot), "same") /\ changed' = Range(at, len)
      /\ Unlocked /\ UNCHANGED queued
  BY DEF Mprotect, protect, SetRange
<1>3. UNCHANGED <<exec_eligible, file_mappings, textrel_ranges, brk_current, queued>>
  BY DEF Mprotect
<1>4. TypeOK'
  <2>1. Flags(prot) \in SUBSET {"m", "r", "w", "x"}
    BY <1>1, HostProtOfFlags
  <2>. QED  BY <1>1, <1>2, <1>3, <2>1, SetPagesTyped DEF TypeOK
<1>5. HostAgrees'
  BY <1>1, <1>2, SetPagesAgrees
<1>6. StaleIsQueued' /\ FreshIsExecutable'
  BY <1>2, SetPagesStale, SetPagesFresh
<1>7. \A p \in Page : /\ backing'[p] = backing[p]
                      /\ pages'[p] = IF p \in Range(at, len) THEN Flags(prot) ELSE pages[p]
  BY <1>2 DEF SetPages
<1>8. GuestCodeOnly'
  <2>1. ASSUME NEW p \in Page, p \in Range(at, len), "x" \in pages'[p]
        PROVE  backing'[p] \notin Foreign
    <3>1. "x" \in prot
      BY <2>1, <1>7 DEF Flags
    <3>2. p \in exec_eligible
      BY <2>1, <3>1 DEF Mprotect, may_execute_range
    <3>. QED  BY <3>2, <1>7 DEF ForeignIneligible
  <2>. QED  BY <2>1, <1>7 DEF GuestCodeOnly
<1>9. RecordsTyped' /\ ForeignIneligible'
  BY <1>3, <1>7 DEF RecordsTyped, ForeignIneligible
<1>10. RecordsMatchMemory'
  BY <1>3, <1>7 DEF RecordsMatchMemory, RecordsTyped
<1>. QED  BY <1>4, <1>5, <1>6, <1>8, <1>9, <1>10

\* mmap2: the pages come from one source, whose eligibility and record are new.
LEMMA Mmap2IInv ==
    ASSUME IInv, NEW mode \in {"fixed", "noreplace", "hint"}, NEW addr \in Page, NEW len \in 1..TopPage,
           NEW prot \in Prots, NEW source \in Files \cup {"anon"}, Mmap2(mode, addr, len, prot, source)
    PROVE  IInv'
<1>. USE DEF IInv
<1>. DEFINE executable_file == source = "anon" \/ guest_executable_allowed(source)
            textrel == source \in Textrel /\ "x" \in prot
            page_prot == IF textrel THEN prot \cup {"w"} ELSE prot
<1>1. PICK at \in Placed(mode, addr, len) :
        /\ Unlocked
        /\ "x" \in prot => executable_file
        /\ map_at(at, len, page_prot, source)
        /\ set_exec_eligibility(at, len, executable_file)
        /\ file_mappings' = KeptMappings(at, len) \cup
              (IF source = "anon" THEN {} ELSE {[start |-> at, len |-> len, file |-> source]})
        /\ textrel_ranges' = KeptTextrel(at, len) \cup
              (IF textrel THEN {[start |-> at, len |-> len, prot |-> prot]} ELSE {})
        /\ UNCHANGED <<brk_current, queued>>
  BY DEF Mmap2
<1>2. at \in Page /\ range_valid(at, len) /\ Range(at, len) \subseteq Page
  BY PlacedFits, RangeOfPages
<1>3. /\ page_prot \in SUBSET {"r", "w", "x"}
      /\ "x" \in page_prot <=> "x" \in prot
  BY MemoryAssumption
<1>4. /\ Flags(page_prot) \in SUBSET {"m", "r", "w", "x"}
      /\ "x" \in Flags(page_prot) <=> "x" \in prot
  BY <1>3, HostProtOfFlags
<1>5. SetPages(at, len, page_prot, Flags(page_prot), source) /\ changed' = Range(at, len)
  BY <1>1 DEF map_at, SetRange
<1>6. executable_file <=> source \notin Foreign
  BY MemoryAssumption DEF guest_executable_allowed
<1>. HIDE DEF page_prot, executable_file
<1>7. TypeOK'
  <2>1. exec_eligible' \subseteq Page
    BY <1>1, <1>2 DEF set_exec_eligibility, TypeOK
  <2>. QED  BY <1>1, <1>2, <1>3, <1>4, <1>5, <2>1, SetPagesTyped DEF TypeOK
<1>8. HostAgrees'
  BY <1>2, <1>3, <1>5, SetPagesAgrees
<1>9. StaleIsQueued' /\ FreshIsExecutable'
  BY <1>1, <1>5, SetPagesStale, SetPagesFresh
<1>10. \A p \in Page : IF p \in Range(at, len)
                       THEN /\ backing'[p] = source /\ pages'[p] = Flags(page_prot)
                            /\ p \in exec_eligible' <=> executable_file
                       ELSE /\ backing'[p] = backing[p] /\ pages'[p] = pages[p]
                            /\ p \in exec_eligible' <=> p \in exec_eligible
  <2>1. source # "same"
    BY MemoryAssumption
  <2>. QED  BY <1>1, <1>5, <2>1 DEF SetPages, set_exec_eligibility
<1>11. GuestCodeOnly'
  BY <1>1, <1>4, <1>6, <1>10 DEF GuestCodeOnly
<1>12. \A r \in KeptMappings(at, len) \cup KeptTextrel(at, len) : \A p \in Range(r.start, r.len) :
           p \in Page /\ p \notin Range(at, len) /\ backing'[p] = backing[p]
  BY <1>10 DEF KeptMappings, KeptTextrel, Overlaps, RecordsTyped
<1>13. /\ KeptMappings(at, len) \subseteq file_mappings
       /\ KeptTextrel(at, len) \subseteq textrel_ranges
  BY DEF KeptMappings, KeptTextrel
<1>14. \A r \in file_mappings' : r \in KeptMappings(at, len) \/
           (source # "anon" /\ r = [start |-> at, len |-> len, file |-> source])
  BY <1>1
<1>15. \A r \in textrel_ranges' : r \in KeptTextrel(at, len) \/
           (textrel /\ r = [start |-> at, len |-> len, prot |-> prot])
  BY <1>1
<1>16. RecordsTyped'
  BY <1>2, <1>13, <1>14, <1>15 DEF RecordsTyped
<1>17. ForeignIneligible'
  <2>1. \A p \in Page : backing'[p] \in Foreign => p \notin exec_eligible'
    BY <1>6, <1>10 DEF ForeignIneligible
  <2>2. ASSUME NEW r \in textrel_ranges', NEW p \in Range(r.start, r.len) \cap Page
        PROVE  backing'[p] \notin Foreign
    <3>1. CASE r \in KeptTextrel(at, len)
      BY <3>1, <1>12, <1>13 DEF ForeignIneligible
    <3>2. CASE textrel /\ r = [start |-> at, len |-> len, prot |-> prot]
      BY <3>2, <1>10, MemoryAssumption
    <3>. QED  BY <1>15, <3>1, <3>2
  <2>. QED  BY <2>1, <2>2 DEF ForeignIneligible
<1>18. RecordsMatchMemory'
  <2>1. ASSUME NEW r \in file_mappings', NEW p \in Range(r.start, r.len) \ Heap
        PROVE  backing'[p] = r.file
    <3>1. CASE r \in KeptMappings(at, len)
      BY <3>1, <1>12, <1>13 DEF RecordsMatchMemory
    <3>2. CASE r = [start |-> at, len |-> len, file |-> source]
      BY <3>2, <1>2, <1>10
    <3>. QED  BY <1>14, <3>1, <3>2
  <2>2. ASSUME NEW r \in textrel_ranges', NEW p \in Range(r.start, r.len) \ Heap
        PROVE  backing'[p] \in Textrel
    <3>1. CASE r \in KeptTextrel(at, len)
      BY <3>1, <1>12, <1>13 DEF RecordsMatchMemory
    <3>2. CASE textrel /\ r = [start |-> at, len |-> len, prot |-> prot]
      BY <3>2, <1>2, <1>10
    <3>. QED  BY <1>15, <3>1, <3>2
  <2>. QED  BY <2>1, <2>2 DEF RecordsMatchMemory
<1>. QED  BY <1>7, <1>8, <1>9, <1>11, <1>16, <1>17, <1>18

\* A sealed page gets the protection of a window that covers it.
LEMMA OriginalProtOf ==
    ASSUME NEW sealed, \A r \in sealed : r.prot \in Prots, NEW p \in Covered(sealed)
    PROVE  OriginalProt(sealed, p) \in Prots
<1>1. \E r \in sealed : p \in Range(r.start, r.len)
  BY DEF Covered
<1>2. PICK r \in sealed : /\ p \in Range(r.start, r.len)
                          /\ OriginalProt(sealed, p) = r.prot
  BY <1>1 DEF OriginalProt
<1>. QED  BY <1>2

\* Sealing: mapped pages of files that may be executed lose the write permission
\* they had for text relocation.
LEMMA SealTextrelIInv ==
    ASSUME IInv, SealTextrel
    PROVE  IInv'
<1>. USE DEF IInv
<1>1. PICK sealed \in SUBSET textrel_ranges :
        /\ Unlocked
        /\ \A r \in sealed : Sealable(r)
        /\ textrel_ranges' = {} \/ UNCHANGED textrel_ranges
        /\ pages' = [p \in Page |-> IF p \in Covered(sealed) THEN Flags(OriginalProt(sealed, p)) ELSE pages[p]]
        /\ host' = [p \in Page |-> IF p \in Covered(sealed) THEN HostProt(OriginalProt(sealed, p)) ELSE host[p]]
        /\ cache' = [j \in Jits |-> [p \in Page |->
               IF p \in Covered(sealed) /\ cache[j][p] # "none" THEN "stale" ELSE cache[j][p]]]
        /\ changed' = Covered(sealed)
        /\ UNCHANGED <<backing, exec_eligible, file_mappings, brk_current, queued>>
  BY DEF SealTextrel
<1>2. Covered(sealed) \subseteq Page
  BY DEF Covered, RecordsTyped
<1>3. ASSUME NEW p \in Covered(sealed)
      PROVE  /\ pages[p] # {} /\ backing[p] \notin Foreign
             /\ OriginalProt(sealed, p) \in SUBSET {"r", "w", "x"}
  <2>1. PICK r \in sealed : p \in Range(r.start, r.len)
    BY DEF Covered
  <2>2. pages[p] # {}
    BY <1>1, <2>1 DEF Sealable, accessible, Free
  <2>3. backing[p] \notin Foreign
    BY <1>2, <2>1 DEF ForeignIneligible
  <2>4. OriginalProt(sealed, p) \in Prots
    BY OriginalProtOf DEF RecordsTyped
  <2>. QED  BY <2>2, <2>3, <2>4, MemoryAssumption
<1>4. \A p \in Covered(sealed) :
        LET prot == OriginalProt(sealed, p) IN
        /\ HostProt(Flags(prot)) = HostProt(prot)
        /\ HostProt(prot) \in SUBSET {"r", "w"}
        /\ Flags(prot) \in SUBSET {"m", "r", "w", "x"}
        /\ Flags(prot) # {}
  BY <1>3, HostProtOfFlags
<1>5. TypeOK'
  <2>1. pages' \in [Page -> SUBSET {"m", "r", "w", "x"}]
    BY <1>1, <1>4 DEF TypeOK
  <2>2. host' \in [Page -> SUBSET {"r", "w"}]
    BY <1>1, <1>4 DEF TypeOK
  <2>3. cache' \in [Jits -> [Page -> {"none", "fresh", "stale"}]]
    BY <1>1 DEF TypeOK
  <2>. QED  BY <1>1, <1>2, <2>1, <2>2, <2>3 DEF TypeOK
<1>6. HostAgrees'
  <2>. SUFFICES ASSUME NEW p \in Page
                PROVE  host'[p] = HostProt(pages'[p]) /\ (pages'[p] = {} <=> backing'[p] = "none")
    BY DEF HostAgrees, Free
  <2>1. CASE p \in Covered(sealed)
    BY <2>1, <1>1, <1>3, <1>4 DEF HostAgrees, Free
  <2>2. CASE p \notin Covered(sealed)
    BY <2>2, <1>1 DEF HostAgrees, Free
  <2>. QED  BY <2>1, <2>2
<1>7. GuestCodeOnly'
  BY <1>1, <1>3 DEF GuestCodeOnly
<1>8. StaleIsQueued' /\ FreshIsExecutable'
  BY <1>1 DEF StaleIsQueued, FreshIsExecutable, Unlocked, TypeOK
<1>9. RecordsTyped' /\ ForeignIneligible' /\ RecordsMatchMemory'
  BY <1>1 DEF RecordsTyped, ForeignIneligible, RecordsMatchMemory
<1>. QED  BY <1>5, <1>6, <1>7, <1>8, <1>9

\* The steps of the invalidation and of the JITs leave the pages alone.
LEMMA JitIInv ==
    ASSUME IInv, Invalidate \/ \E j \in Jits : RunJit(j) \/ \E p \in Page : MemoryReadCode(j, p)
    PROVE  IInv'
<1>. USE DEF IInv
<1>1. UNCHANGED <<pages, host, backing, exec_eligible, file_mappings, textrel_ranges, brk_current>>
  BY Zenon DEF Invalidate, RunJit, MemoryReadCode
<1>2. RecordsTyped' /\ HostAgrees' /\ GuestCodeOnly' /\ ForeignIneligible' /\ RecordsMatchMemory'
  BY <1>1 DEF RecordsTyped, HostAgrees, Free, GuestCodeOnly, ForeignIneligible, RecordsMatchMemory
<1>3. CASE Invalidate
  <2>1. TypeOK'
    BY <1>3, <1>1 DEF Invalidate, TypeOK
  <2>2. StaleIsQueued' /\ FreshIsExecutable'
    BY <1>3 DEF Invalidate, StaleIsQueued, FreshIsExecutable, TypeOK
  <2>. QED  BY <1>2, <2>1, <2>2
<1>4. ASSUME NEW j \in Jits, RunJit(j)
      PROVE  TypeOK' /\ StaleIsQueued' /\ FreshIsExecutable'
  <2>1. TypeOK'
    BY <1>4, <1>1 DEF RunJit, TypeOK
  <2>2. StaleIsQueued'
    BY <1>4 DEF RunJit, StaleIsQueued, TypeOK
  <2>3. FreshIsExecutable'
    BY <1>4 DEF RunJit, FreshIsExecutable, TypeOK
  <2>. QED  BY <2>1, <2>2, <2>3
<1>5. ASSUME NEW j \in Jits, NEW p \in Page, MemoryReadCode(j, p)
      PROVE  TypeOK' /\ StaleIsQueued' /\ FreshIsExecutable'
  <2>1. TypeOK'
    BY <1>5, <1>1 DEF MemoryReadCode, TypeOK
  <2>2. StaleIsQueued'
    BY <1>5 DEF MemoryReadCode, StaleIsQueued, TypeOK
  <2>3. FreshIsExecutable'
    BY <1>5 DEF MemoryReadCode, FreshIsExecutable, TypeOK
  <2>. QED  BY <2>1, <2>2, <2>3
<1>. QED  BY <1>2, <1>3, <1>4, <1>5

-----------------------------------------------------------------------------
LEMMA NextIInv ==
    ASSUME IInv, [Next]_vars
    PROVE  IInv'
<1>1. ASSUME NEW want \in BrkStart..(TopPage + 1), BrkGrow(want) \/ BrkShrink(want)
      PROVE  IInv'
  BY <1>1, BrkGrowIInv, BrkShrinkIInv
<1>2. ASSUME NEW at \in Page, NEW len \in 1..TopPage, Munmap(at, len)
      PROVE  IInv'
  BY <1>2, MunmapIInv
<1>3. ASSUME NEW at \in Page, NEW len \in 1..TopPage, NEW prot \in Prots, Mprotect(at, len, prot)
      PROVE  IInv'
  BY <1>3, MprotectIInv
<1>4. ASSUME NEW at \in Page, NEW len \in 1..TopPage, NEW mode \in {"fixed", "noreplace", "hint"},
             NEW prot \in Prots, NEW source \in Files \cup {"anon"}, Mmap2(mode, at, len, prot, source)
      PROVE  IInv'
  BY <1>4, Mmap2IInv, Zenon
<1>5. CASE UNCHANGED vars
  BY <1>5 DEF IInv, vars, TypeOK, RecordsTyped, HostAgrees, Free, GuestCodeOnly, ForeignIneligible,
              StaleIsQueued, FreshIsExecutable, RecordsMatchMemory
<1>. QED  BY <1>1, <1>2, <1>3, <1>4, <1>5, SealTextrelIInv, JitIInv DEF Next

LEMMA SpecIInv == Spec => []IInv
BY InitIInv, NextIInv, PTL DEF Spec

\* The page tables and the records beside them keep their types under every
\* sequence of memory system calls, for any sizes.
THEOREM MemoryTypeCorrect == Spec => []TypeOK
<1>1. IInv => TypeOK
  BY DEF IInv
<1>. QED  BY <1>1, SpecIInv, PTL

\* Whatever brk, mmap2, munmap, mprotect and seal_textrel_ranges did, for any sizes
\* and any number of JITs: the flags the bridge checks and the host's protection of
\* a page agree, no page of a file is executable that guest_executable_allowed
\* refuses, a stale translation is queued for removal or its system call is still in
\* mm_mutex, a current one is of an executable page, and the recorded mappings and relocation windows are true.
THEOREM MemoryAlwaysSafe == Spec => []MemorySafe
<1>1. IInv => MemorySafe
  BY DEF IInv, MemorySafe
<1>. QED  BY <1>1, SpecIInv, PTL
-----------------------------------------------------------------------------
(***************************************************************************)
(* What HostGl keeps for all threads (GlObjects): sync handles, mapped     *)
(* buffers and uniform layouts, for any numbers of threads, sync objects   *)
(* and heap blocks.                                                        *)
(***************************************************************************)
Contents == {"old", "new", "junk"}

ObjectTypes ==
    /\ sync_objects \in Seq(SyncPointers \cup {"null"}) /\ sync_live \subseteq SyncPointers
    /\ mapped \subseteq Threads
    /\ store \in [Threads -> Contents] /\ meant \in [Threads -> Contents]
    /\ heap \in [GuestBlocks -> Contents \cup {"free", "text"}]
    /\ held \in [Threads -> GuestBlocks \cup {"null"}]
    /\ strings \in [Threads -> GuestBlocks \cup {"null"}]
    /\ DOMAIN pc = Threads
    /\ \A t \in Threads : pc[t].at \in {"idle", "delete", "wait", "map", "insert", "unmap", "flush"}

\* The table of sync objects, object by object.
SyncInv ==
    /\ \A i, j \in DOMAIN sync_objects : i # j /\ sync_objects[i] # "null" => sync_objects[i] # sync_objects[j]
    /\ \A i \in DOMAIN sync_objects : sync_objects[i] # "null" => sync_objects[i] \in sync_live
    /\ \A i \in DOMAIN sync_objects, t \in Threads : pc[t].at = "delete" => pc[t].sync # sync_objects[i]
    /\ \A t \in Threads : pc[t].at = "delete" => pc[t].sync \in sync_live
    /\ \A t, u \in Threads : pc[t].at = "delete" /\ pc[u].at = "delete" /\ pc[t].sync = pc[u].sync => t = u
    /\ \A s \in sync_live : \/ \E i \in DOMAIN sync_objects : sync_objects[i] = s
                            \/ \E t \in Threads : pc[t].at = "delete" /\ pc[t].sync = s
    /\ \A t \in Threads : pc[t].at = "wait" /\ ~pc[t].under => pc[t].sync \in sync_live

Mapping(t) == IF pc[t].at = "unmap" THEN pc[t].mapping ELSE mappings
Enters(t) == pc[t].at \in {"map", "insert"}

\* A thread on its way into glMapBufferRange has no mapping, and there is none.
EntersAlone(t) ==
    Enters(t) => held[t] = "null" /\ mappings = NoMapping /\ \A u \in Threads : Enters(u) => u = t

\* A thread with a mirror has the entry of the target, or has taken it out to unmap; the
\* mirror holds what the buffer should, and so does the buffer when it may only be read.
MirrorHeld(t) ==
    held[t] # "null" =>
        /\ t \in mapped /\ heap[held[t]] = meant[t]
        /\ Mapping(t).guest = held[t] /\ Mapping(t).data = t
        /\ Mapping(t).access = "read" => store[t] = meant[t]

MirrorComes(t) ==
    pc[t].at = "insert" =>
        /\ t \in mapped /\ pc[t].guest \in GuestBlocks /\ heap[pc[t].guest] = meant[t]
        /\ pc[t].access = "read" => store[t] = meant[t]

MirrorGone(t) == held[t] = "null" /\ pc[t].at # "insert" => t \notin mapped /\ store[t] = meant[t]

InCallWith(t) ==
    /\ pc[t].at \in {"unmap", "flush"} => held[t] # "null"
    /\ pc[t].at = "flush" => pc[t].mapping = mappings

\* The entry is of a thread that has not begun to unmap.
EntryOwned ==
    mappings # NoMapping =>
        \E t \in Threads : mappings.data = t /\ held[t] # "null" /\ pc[t].at # "unmap"

\* No block is two mirrors, and every block in use is a mirror or a driver string.
BlocksDistinct ==
    /\ \A t, u \in Threads : held[t] # "null" /\ held[t] = held[u] => t = u
    /\ \A t, u \in Threads : pc[t].at = "insert" /\ held[u] # "null" => pc[t].guest # held[u]
    /\ \A g \in GuestBlocks : heap[g] \in Contents =>
          \E t \in Threads : held[t] = g \/ (pc[t].at = "insert" /\ pc[t].guest = g)

MapInv ==
    /\ \A t \in Threads : EntersAlone(t) /\ MirrorHeld(t) /\ MirrorComes(t) /\ MirrorGone(t) /\ InCallWith(t)
    /\ EntryOwned /\ BlocksDistinct

UniformInv == DOMAIN uniforms = Threads /\ UniformsFresh

ObjectInv == ObjectTypes /\ SyncInv /\ (~raced => MapInv) /\ UniformInv

LEMMA ObjectInit == ASSUME NullIsNothing, ObjectsInit PROVE ObjectInv
<1>. USE DEF ObjectsInit, Null
<1>1. /\ sync_objects = <<>> /\ sync_live = {} /\ mapped = {} /\ mappings = NoMapping
      /\ \A t \in Threads : /\ pc[t] = Idle /\ held[t] = "null" /\ store[t] = "old" /\ meant[t] = "old"
                            /\ uniforms[t] = Unknown
      /\ \A g \in GuestBlocks : heap[g] = "free"
  BY Zenon
<1>2. ObjectTypes
  BY DEF ObjectTypes, Contents, Idle
<1>3. \A t \in Threads : pc[t].at = "idle"
  BY <1>1, Zenon DEF Idle
<1>4. SyncInv
  BY <1>1, <1>3 DEF SyncInv
<1>5. MapInv
  BY <1>1, <1>3, Zenon DEF MapInv, EntersAlone, Enters, MirrorHeld, MirrorComes, MirrorGone, InCallWith, EntryOwned,
       BlocksDistinct, Contents
<1>6. UniformInv
  BY <1>1, Zenon DEF UniformInv, UniformsFresh
<1>. QED  BY <1>2, <1>4, <1>5, <1>6, Zenon DEF ObjectInv

\* pc of every other thread stays.
PcSet(t, w) == DOMAIN pc' = Threads /\ pc'[t] = w /\ \A u \in Threads \ {t} : pc'[u] = pc[u]

LEMMA GotoIs == ASSUME ObjectInv, NEW t \in Threads, NEW w, Goto(t, w) PROVE PcSet(t, w)
BY Zenon DEF ObjectInv, ObjectTypes, Goto, PcSet

\* The parts that a step leaves alone: what a thread does elsewhere is nothing to the sync
\* table, and what it does with sync objects is nothing to the mappings.
LEMMA SyncKept ==
    ASSUME SyncInv, sync_objects' = sync_objects, sync_live' = sync_live,
           \A u \in Threads : pc[u].at = "delete" => pc'[u] = pc[u],
           \A u \in Threads : pc'[u].at \in {"delete", "wait"} => pc'[u] = pc[u]
    PROVE  SyncInv'
<1>1. \A u \in Threads : pc'[u].at = "delete" <=> pc[u].at = "delete"
  BY Zenon
<1>2. \A u \in Threads : pc'[u].at = "delete" => pc'[u].sync = pc[u].sync
  BY Zenon
<1>3. \A u \in Threads : pc'[u].at = "wait" => pc'[u] = pc[u]
  BY Zenon
<1>4. \A t \in Threads : pc'[t].at = "wait" /\ ~pc'[t].under => pc'[t].sync \in sync_live
  BY <1>3, Zenon DEF SyncInv
<1>5. \A s \in sync_live : \/ \E i \in DOMAIN sync_objects : sync_objects[i] = s
                           \/ \E t \in Threads : pc'[t].at = "delete" /\ pc'[t].sync = s
  <2>1. ASSUME NEW s \in sync_live, NEW t \in Threads, pc[t].at = "delete" /\ pc[t].sync = s
        PROVE  pc'[t].at = "delete" /\ pc'[t].sync = s
    BY <1>1, <1>2, <2>1, Zenon
  <2>. QED  BY <2>1, Zenon DEF SyncInv
<1>6. \A i \in DOMAIN sync_objects, t \in Threads : pc'[t].at = "delete" => pc'[t].sync # sync_objects[i]
  BY <1>1, <1>2 DEF SyncInv
<1>7. \A t \in Threads : pc'[t].at = "delete" => pc'[t].sync \in sync_live
  BY <1>1, <1>2, Zenon DEF SyncInv
<1>8. \A t, u \in Threads : pc'[t].at = "delete" /\ pc'[u].at = "delete" /\ pc'[t].sync = pc'[u].sync => t = u
  BY <1>1, <1>2 DEF SyncInv
<1>. QED  BY <1>4, <1>5, <1>6, <1>7, <1>8, ZenonT(30) DEF SyncInv

MapAts == {"map", "insert", "unmap", "flush"}

LEMMA MapKept ==
    ASSUME MapInv, mappings' = mappings, mapped' = mapped, store' = store, held' = held, meant' = meant,
           heap' = heap, \A u \in Threads : pc[u].at \in MapAts \/ pc'[u].at \in MapAts => pc'[u] = pc[u]
    PROVE  MapInv'
<1>1. \A u \in Threads, a \in MapAts : pc'[u].at = a <=> pc[u].at = a
  BY Zenon
<1>2. \A u \in Threads : pc'[u].at \in MapAts => pc'[u] = pc[u]
  BY Zenon
<1>3. \A u \in Threads : /\ pc'[u].at = "map" <=> pc[u].at = "map"
                         /\ pc'[u].at = "insert" <=> pc[u].at = "insert"
                         /\ pc'[u].at = "unmap" <=> pc[u].at = "unmap"
                         /\ pc'[u].at = "flush" <=> pc[u].at = "flush"
  BY <1>1, Zenon DEF MapAts
<1>4. \A u \in Threads : /\ pc[u].at = "insert" => pc'[u] = pc[u]
                         /\ pc[u].at = "unmap" => pc'[u] = pc[u]
                         /\ pc[u].at = "flush" => pc'[u] = pc[u]
  BY Zenon DEF MapAts
<1>5. ASSUME NEW t \in Threads
      PROVE  EntersAlone(t)' /\ MirrorHeld(t)' /\ MirrorComes(t)' /\ MirrorGone(t)' /\ InCallWith(t)'
  <2>1. EntersAlone(t) /\ MirrorHeld(t) /\ MirrorComes(t) /\ MirrorGone(t) /\ InCallWith(t)
    BY Zenon DEF MapInv
  <2>2. EntersAlone(t)'
    BY <1>3, <2>1, Zenon DEF EntersAlone, Enters
  <2>3. Mapping(t)' = Mapping(t)
    BY <1>3, <1>4, Zenon DEF Mapping
  <2>4. MirrorHeld(t)'
    BY <2>1, <2>3, Zenon DEF MirrorHeld
  <2>5. MirrorComes(t)' /\ MirrorGone(t)'
    BY <1>3, <1>4, <2>1, Zenon DEF MirrorComes, MirrorGone
  <2>6. InCallWith(t)'
    BY <1>3, <1>4, <2>1, Zenon DEF InCallWith
  <2>. QED  BY <2>2, <2>4, <2>5, <2>6, Zenon
<1>6. EntryOwned'
  BY <1>3, Zenon DEF MapInv, EntryOwned
<1>7. BlocksDistinct'
  <2>1. \A t, u \in Threads : pc'[t].at = "insert" /\ held[u] # "null" => pc'[t].guest # held[u]
    <3>1. ASSUME NEW t \in Threads, NEW u \in Threads, pc'[t].at = "insert", held[u] # "null"
          PROVE  pc'[t].guest # held[u]
      <4>1. pc[t].at = "insert" /\ pc'[t] = pc[t]
        BY <1>3, <1>4, <3>1, Zenon
      <4>2. pc[t].guest # held[u]
        BY <3>1, <4>1, Zenon DEF MapInv, BlocksDistinct
      <4>. QED  BY <4>1, <4>2, Zenon
    <3>. QED  BY <3>1, Zenon
  <2>2. \A g \in GuestBlocks : heap[g] \in Contents =>
          \E t \in Threads : held[t] = g \/ (pc'[t].at = "insert" /\ pc'[t].guest = g)
    <3>1. ASSUME NEW g \in GuestBlocks, heap[g] \in Contents
          PROVE  \E t \in Threads : held[t] = g \/ (pc'[t].at = "insert" /\ pc'[t].guest = g)
      <4>1. PICK t \in Threads : held[t] = g \/ (pc[t].at = "insert" /\ pc[t].guest = g)
        BY <3>1, Zenon DEF MapInv, BlocksDistinct
      <4>2. pc[t].at = "insert" => pc'[t] = pc[t]
        BY <1>4, Zenon
      <4>. QED  BY <4>1, <4>2, Zenon
    <3>. QED  BY <3>1, Zenon
  <2>. QED  BY <2>1, <2>2, ZenonT(30) DEF MapInv, BlocksDistinct
<1>. QED  BY <1>5, <1>6, <1>7, Zenon DEF MapInv

LEMMA UniformKept == ASSUME UniformInv, UNCHANGED programVars PROVE UniformInv'
BY Zenon DEF UniformInv, UniformsFresh, programVars

LEMMA IdleIs == Idle.at = "idle"
BY Zenon DEF Idle

\* What a call on sync objects leaves alone.
SyncFrame ==
    /\ mappings' = mappings /\ mapped' = mapped /\ store' = store /\ held' = held /\ meant' = meant
    /\ raced' = raced /\ layout' = layout /\ uniforms' = uniforms /\ relinked' = relinked
    /\ heap' = heap /\ strings' = strings

SyncAts == {"idle", "delete", "wait"}

LEMMA SyncStepInv ==
    ASSUME ObjectInv, SyncFrame, SyncInv', DOMAIN pc' = Threads,
           sync_objects' \in Seq(SyncPointers \cup {"null"}), sync_live' \subseteq SyncPointers,
           \A u \in Threads : pc[u].at \in SyncAts /\ pc'[u].at \in SyncAts
    PROVE  ObjectInv'
<1>1. ObjectTypes'
  BY Zenon DEF ObjectInv, ObjectTypes, SyncFrame, SyncAts
<1>2. UniformInv'
  BY UniformKept, Zenon DEF ObjectInv, SyncFrame, programVars
<1>3. \A u \in Threads : pc[u].at \notin MapAts /\ pc'[u].at \notin MapAts
  BY Zenon DEF SyncAts, MapAts
<1>4. ASSUME ~raced' PROVE MapInv'
  <2>1. MapInv
    BY <1>4, Zenon DEF ObjectInv, SyncFrame
  <2>. QED  BY <1>3, <2>1, MapKept, Zenon DEF SyncFrame
<1>. QED  BY <1>1, <1>2, <1>4, Zenon DEF ObjectInv

AtSyncs == \A u \in Threads : pc[u].at \in SyncAts

\* The table with s put at i.
SyncPutAt(i, s) ==
    /\ DOMAIN sync_objects' = DOMAIN sync_objects \cup {i}
    /\ sync_objects'[i] = s
    /\ \A j \in DOMAIN sync_objects \ {i} : sync_objects'[j] = sync_objects[j]

LEMMA RegisterSyncAt ==
    ASSUME NullIsNothing, ObjectInv, NEW s \in SyncPointers, register_sync(s)
    PROVE  /\ sync_objects' \in Seq(SyncPointers \cup {"null"})
           /\ \E i \in Nat : SyncPutAt(i, s) /\ (i \in DOMAIN sync_objects => sync_objects[i] = "null")
<1>. DEFINE T == SyncPointers \cup {"null"}
<1>0. sync_objects \in Seq(T)
  BY Zenon DEF ObjectInv, ObjectTypes
<1>1. PICK i \in 1..(Len(sync_objects) + 1) :
        /\ FirstFree(i)
        /\ sync_objects' = IF i \in DOMAIN sync_objects THEN [sync_objects EXCEPT ![i] = s]
                           ELSE Append(sync_objects, s)
  BY Zenon DEF register_sync
<1>2. i \in Nat /\ (i \in DOMAIN sync_objects \/ i = Len(sync_objects) + 1)
  BY <1>0
<1>3. CASE i \notin DOMAIN sync_objects
  <2>1. sync_objects' = Append(sync_objects, s) /\ i = Len(sync_objects) + 1
    BY <1>1, <1>2, <1>3, Zenon
  <2>2. /\ sync_objects' \in Seq(T) /\ Len(sync_objects') = Len(sync_objects) + 1
        /\ sync_objects'[Len(sync_objects) + 1] = s
        /\ \A j \in 1..Len(sync_objects) : sync_objects'[j] = sync_objects[j]
    BY <1>0, <2>1
  <2>3. SyncPutAt(i, s)
    BY <1>0, <2>1, <2>2 DEF SyncPutAt
  <2>. QED  BY <1>2, <1>3, <2>2, <2>3, Zenon
<1>4. CASE i \in DOMAIN sync_objects
  <2>1. sync_objects[i] = "null" /\ sync_objects' = [sync_objects EXCEPT ![i] = s]
    BY <1>1, <1>4, Zenon DEF FirstFree, Null
  <2>2. sync_objects' \in Seq(T)
    BY <1>0, <1>4, <2>1
  <2>3. SyncPutAt(i, s)
    BY <1>4, <2>1 DEF SyncPutAt
  <2>. QED  BY <1>2, <2>1, <2>2, <2>3, Zenon
<1>. QED  BY <1>3, <1>4, Zenon

LEMMA FenceSyncInv ==
    ASSUME NullIsNothing, ObjectInv, AtSyncs, NEW t \in Threads, glFenceSync(t)
    PROVE  ObjectInv'
<1>0. PICK s \in SyncPointers \ sync_live : sync_live' = sync_live \cup {s} /\ register_sync(s)
  BY Zenon DEF glFenceSync
<1>1. SyncFrame /\ pc' = pc
  BY Zenon DEF glFenceSync, SyncFrame, mapVars, programVars
<1>2. sync_objects' \in Seq(SyncPointers \cup {"null"})
  BY <1>0, RegisterSyncAt, Zenon
<1>3. PICK i \in Nat : SyncPutAt(i, s) /\ (i \in DOMAIN sync_objects => sync_objects[i] = "null")
  BY <1>0, RegisterSyncAt, Zenon
<1>. DEFINE D == DOMAIN sync_objects
<1>4. /\ DOMAIN sync_objects' = D \cup {i} /\ sync_objects'[i] = s
      /\ \A j \in D \ {i} : sync_objects'[j] = sync_objects[j]
      /\ \A j \in D : sync_objects[j] # s
      /\ s # "null" /\ s \notin sync_live /\ s \in sync_live' /\ \A x \in sync_live : x \in sync_live'
      /\ \A x \in sync_live' : x = s \/ x \in sync_live
  <2>1. \A j \in D : sync_objects[j] # s
    <3>1. \A j \in D : sync_objects[j] # "null" => sync_objects[j] \in sync_live
      BY Zenon DEF ObjectInv, SyncInv
    <3>2. s \notin sync_live /\ s # "null"
      BY <1>0, Zenon DEF NullIsNothing
    <3>. QED  BY <3>1, <3>2, Zenon
  <2>. QED  BY <1>0, <1>3, <2>1, Zenon DEF SyncPutAt, NullIsNothing
<1>. HIDE DEF D
<1>5. SyncInv
  BY Zenon DEF ObjectInv
<1>6. \A j, k \in DOMAIN sync_objects' : j # k /\ sync_objects'[j] # "null" => sync_objects'[j] # sync_objects'[k]
  <2>1. \A j, k \in D : j # k /\ sync_objects[j] # "null" => sync_objects[j] # sync_objects[k]
    BY <1>5, Zenon DEF SyncInv, D
  <2>2. ASSUME NEW j \in DOMAIN sync_objects', NEW k \in DOMAIN sync_objects', j # k, sync_objects'[j] # "null"
        PROVE  sync_objects'[j] # sync_objects'[k]
    <3>1. CASE j = i
      BY <1>4, <2>2, <3>1, Zenon
    <3>2. CASE k = i
      BY <1>4, <2>2, <3>2, Zenon
    <3>3. CASE j # i /\ k # i
      BY <1>4, <2>1, <2>2, <3>3, Zenon
    <3>. QED  BY <3>1, <3>2, <3>3, Zenon
  <2>. QED  BY <2>2, Zenon
<1>7. \A j \in DOMAIN sync_objects' : sync_objects'[j] # "null" => sync_objects'[j] \in sync_live'
  BY <1>4, <1>5 DEF SyncInv, D
<1>8. \A j \in DOMAIN sync_objects', u \in Threads : pc[u].at = "delete" => pc[u].sync # sync_objects'[j]
  BY <1>4, <1>5 DEF SyncInv, D
<1>9. ASSUME NEW x \in sync_live'
      PROVE  \/ \E j \in DOMAIN sync_objects' : sync_objects'[j] = x
             \/ \E u \in Threads : pc[u].at = "delete" /\ pc[u].sync = x
  <2>1. CASE x = s
    BY <1>4, <2>1, Zenon
  <2>2. CASE x # s
    <3>1. x \in sync_live
      BY <1>4, <2>2, Zenon
    <3>2. CASE \E j \in D : sync_objects[j] = x
      <4>1. PICK j \in D : sync_objects[j] = x
        BY <3>2, Zenon
      <4>2. j # i
        BY <1>3, <3>1, <4>1, Zenon DEF ObjectInv, ObjectTypes, NullIsNothing, D
      <4>. QED  BY <1>4, <4>1, <4>2, Zenon
    <3>3. CASE \E u \in Threads : pc[u].at = "delete" /\ pc[u].sync = x
      BY <3>3, Zenon
    <3>. QED  BY <1>5, <3>1, <3>2, <3>3, Zenon DEF SyncInv, D
  <2>. QED  BY <2>1, <2>2, Zenon
<1>10. SyncInv'
  <2>1. /\ \A u \in Threads : pc[u].at = "delete" => pc[u].sync \in sync_live'
        /\ \A u \in Threads : pc[u].at = "wait" /\ ~pc[u].under => pc[u].sync \in sync_live'
    BY <1>4, <1>5, Zenon DEF SyncInv
  <2>2. \A u, v \in Threads : pc[u].at = "delete" /\ pc[v].at = "delete" /\ pc[u].sync = pc[v].sync => u = v
    BY <1>5, Zenon DEF SyncInv
  <2>. QED  BY <1>1, <1>6, <1>7, <1>8, <1>9, <2>1, <2>2, Zenon DEF SyncInv
<1>11. sync_live' \subseteq SyncPointers /\ DOMAIN pc' = Threads
  BY <1>0, <1>1, Zenon DEF ObjectInv, ObjectTypes
<1>12. \A u \in Threads : pc[u].at \in SyncAts /\ pc'[u].at \in SyncAts
  BY <1>1, Zenon DEF AtSyncs
<1>. QED  BY <1>1, <1>2, <1>10, <1>11, <1>12, SyncStepInv, Zenon

LEMMA DeleteSyncInv ==
    ASSUME NullIsNothing, ObjectInv, AtSyncs, NEW t \in Threads, NEW h \in DOMAIN sync_objects,
           glDeleteSync(t, h)
    PROVE  ObjectInv'
<1>. DEFINE s == sync_objects[h]
<1>0. s # "null" /\ sync_objects' = [sync_objects EXCEPT ![h] = "null"] /\ sync_live' = sync_live
      /\ pc[t] = Idle /\ PcSet(t, [at |-> "delete", sync |-> s])
  <2>1. lookup_sync(h) = s
    BY Zenon DEF lookup_sync
  <2>. QED  BY <2>1, GotoIs, Zenon DEF glDeleteSync, Null, release_sync
<1>1. SyncFrame
  BY Zenon DEF glDeleteSync, SyncFrame, mapVars, programVars
<1>2. sync_objects' \in Seq(SyncPointers \cup {"null"})
  <2>1. sync_objects \in Seq(SyncPointers \cup {"null"})
    BY Zenon DEF ObjectInv, ObjectTypes
  <2>. QED  BY <1>0, <2>1
<1>3. /\ DOMAIN sync_objects' = DOMAIN sync_objects /\ sync_objects'[h] = "null"
      /\ \A j \in DOMAIN sync_objects \ {h} : sync_objects'[j] = sync_objects[j]
  BY <1>0, Zenon
<1>4. SyncInv /\ s \in sync_live
  BY <1>0, Zenon DEF ObjectInv, SyncInv
<1>5. /\ pc[t].at = "idle" /\ pc'[t].at = "delete" /\ pc'[t].sync = s
      /\ \A u \in Threads \ {t} : pc'[u] = pc[u]
  BY <1>0, IdleIs DEF PcSet
<1>. HIDE DEF s
<1>6. \A u \in Threads : pc'[u].at = "delete" => u = t \/ (pc[u].at = "delete" /\ pc[u].sync = pc'[u].sync)
  BY <1>5, Zenon
<1>7. \A j \in DOMAIN sync_objects, u \in Threads : pc'[u].at = "delete" => pc'[u].sync # sync_objects'[j]
  <2>1. \A j \in DOMAIN sync_objects : sync_objects'[j] # s
    BY <1>0, <1>3, <1>4, Zenon DEF SyncInv, s
  <2>2. \A j \in DOMAIN sync_objects, u \in Threads \ {t} : pc[u].at = "delete" => pc[u].sync # sync_objects'[j]
    <3>1. \A u \in Threads : pc[u].at = "delete" => pc[u].sync # "null"
      <4>1. "null" \notin sync_live
        BY Zenon DEF ObjectInv, ObjectTypes, NullIsNothing
      <4>2. \A u \in Threads : pc[u].at = "delete" => pc[u].sync \in sync_live
        BY <1>4, Zenon DEF SyncInv
      <4>. QED  BY <4>1, <4>2, Zenon
    <3>2. \A j \in DOMAIN sync_objects : sync_objects'[j] = "null" \/ sync_objects'[j] = sync_objects[j]
      BY <1>3, Zenon
    <3>3. \A j \in DOMAIN sync_objects, u \in Threads : pc[u].at = "delete" => pc[u].sync # sync_objects[j]
      BY <1>4, Zenon DEF SyncInv
    <3>4. ASSUME NEW j \in DOMAIN sync_objects, NEW u \in Threads, pc[u].at = "delete"
          PROVE  pc[u].sync # sync_objects'[j]
      <4>1. pc[u].sync # "null" /\ pc[u].sync # sync_objects[j]
        BY <3>1, <3>3, <3>4, Zenon
      <4>. QED  BY <3>2, <4>1, Zenon
    <3>. QED  BY <3>4, Zenon
  <2>. QED  BY <1>5, <2>1, <2>2, ZenonT(30)
<1>8. \A u, v \in Threads : pc'[u].at = "delete" /\ pc'[v].at = "delete" /\ pc'[u].sync = pc'[v].sync => u = v
  <2>1. \A u \in Threads : pc[u].at = "delete" => pc[u].sync # s
    BY <1>4, Zenon DEF SyncInv, s
  <2>2. ASSUME NEW u \in Threads, NEW v \in Threads, u # t, v # t, pc'[u].at = "delete", pc'[v].at = "delete",
               pc'[u].sync = pc'[v].sync
        PROVE  u = v
    <3>1. pc'[u] = pc[u] /\ pc'[v] = pc[v]
      BY <1>5, <2>2, Zenon
    <3>2. pc[u].at = "delete" /\ pc[v].at = "delete" /\ pc[u].sync = pc[v].sync
      BY <2>2, <3>1, Zenon
    <3>. QED  BY <1>4, <3>2, Zenon DEF SyncInv
  <2>3. ASSUME NEW u \in Threads, u # t, pc'[u].at = "delete" PROVE pc'[u].sync # pc'[t].sync
    BY <1>5, <2>1, <2>3, Zenon
  <2>. QED  BY <2>2, <2>3, Zenon
<1>9. ASSUME NEW x \in sync_live
      PROVE  \/ \E j \in DOMAIN sync_objects : sync_objects'[j] = x
             \/ \E u \in Threads : pc'[u].at = "delete" /\ pc'[u].sync = x
  <2>1. CASE x = s
    BY <1>5, <2>1, Zenon
  <2>2. CASE \E j \in DOMAIN sync_objects : sync_objects[j] = x /\ x # s
    BY <1>3, <2>2, Zenon DEF s
  <2>3. CASE \E u \in Threads : pc[u].at = "delete" /\ pc[u].sync = x
    <3>1. PICK u \in Threads : pc[u].at = "delete" /\ pc[u].sync = x
      BY <2>3, Zenon
    <3>2. u # t
      BY <1>5, <3>1, Zenon
    <3>. QED  BY <1>5, <3>1, <3>2, Zenon
  <2>. QED  BY <1>4, <2>1, <2>2, <2>3, Zenon DEF SyncInv
<1>10. SyncInv'
  <2>1. \A j, k \in DOMAIN sync_objects : j # k /\ sync_objects'[j] # "null" => sync_objects'[j] # sync_objects'[k]
    BY <1>3, <1>4 DEF SyncInv
  <2>2. \A j \in DOMAIN sync_objects : sync_objects'[j] # "null" => sync_objects'[j] \in sync_live
    BY <1>3, <1>4, Zenon DEF SyncInv
  <2>3. \A u \in Threads : pc'[u].at = "delete" => pc'[u].sync \in sync_live
    BY <1>4, <1>5, Zenon DEF SyncInv
  <2>4. \A u \in Threads : pc'[u].at = "wait" /\ ~pc'[u].under => pc'[u].sync \in sync_live
    BY <1>4, <1>5, Zenon DEF SyncInv
  <2>. QED  BY <1>0, <1>3, <1>7, <1>8, <1>9, <2>1, <2>2, <2>3, <2>4, Zenon DEF SyncInv
<1>11. sync_live' \subseteq SyncPointers /\ DOMAIN pc' = Threads
  BY <1>0, Zenon DEF ObjectInv, ObjectTypes, PcSet
<1>12. \A u \in Threads : pc[u].at \in SyncAts /\ pc'[u].at \in SyncAts
  BY <1>5, Zenon DEF AtSyncs, SyncAts
<1>. QED  BY <1>1, <1>2, <1>10, <1>11, <1>12, SyncStepInv, Zenon

LEMMA DeleteInDriverInv ==
    ASSUME ObjectInv, AtSyncs, NEW t \in Threads, DeleteInDriver(t)
    PROVE  ObjectInv'
<1>. DEFINE s == pc[t].sync
            Hit(u) == pc[u].at = "wait" /\ pc[u].sync = s
<1>0. pc[t].at = "delete" /\ sync_live' = sync_live \ {s} /\ sync_objects' = sync_objects
      /\ pc' = [u \in Threads |-> IF u = t THEN Idle
                                  ELSE IF Hit(u) THEN [pc[u] EXCEPT !.under = TRUE] ELSE pc[u]]
  BY Zenon DEF DeleteInDriver
<1>1. SyncFrame
  BY Zenon DEF DeleteInDriver, SyncFrame, mapVars, programVars
<1>2. pc'[t].at = "idle" /\ \A u \in Threads \ {t} : ~Hit(u) => pc'[u] = pc[u]
  BY <1>0, IdleIs, Zenon
<1>3. ASSUME NEW u \in Threads \ {t}, Hit(u) PROVE pc'[u].at = "wait" /\ (~pc'[u].under => pc[u].sync # s)
  <2>1. pc'[u] = [pc[u] EXCEPT !.under = TRUE]
    BY <1>0, <1>3, Zenon
  <2>. QED  BY <1>3, <2>1
<1>4. SyncInv /\ s \in sync_live
  BY <1>0, Zenon DEF ObjectInv, SyncInv
<1>. HIDE DEF s
<1>5. \A u \in Threads : pc'[u].at = "delete" <=> u # t /\ pc[u].at = "delete"
  BY <1>2, <1>3, Zenon
<1>6. \A u \in Threads : pc'[u].at = "delete" => u # t /\ pc'[u] = pc[u] /\ pc[u].sync # s
  BY <1>0, <1>2, <1>4, <1>5 DEF SyncInv, s
<1>7. \A j \in DOMAIN sync_objects : sync_objects[j] # s
  BY <1>0, <1>4, Zenon DEF SyncInv, s
<1>8. ASSUME NEW x \in sync_live'
      PROVE  \/ \E j \in DOMAIN sync_objects : sync_objects[j] = x
             \/ \E u \in Threads : pc'[u].at = "delete" /\ pc'[u].sync = x
  <2>1. x \in sync_live /\ x # s
    BY <1>0, Zenon
  <2>2. CASE \E u \in Threads : pc[u].at = "delete" /\ pc[u].sync = x
    <3>1. PICK u \in Threads : pc[u].at = "delete" /\ pc[u].sync = x
      BY <2>2, Zenon
    <3>2. u # t
      BY <2>1, <3>1, Zenon DEF s
    <3>. QED  BY <1>5, <1>6, <3>1, <3>2, Zenon
  <2>. QED  BY <1>4, <2>1, <2>2, Zenon DEF SyncInv
<1>9. \A u \in Threads : pc'[u].at = "wait" /\ ~pc'[u].under => pc'[u].sync \in sync_live'
  <2>1. ASSUME NEW u \in Threads, pc'[u].at = "wait", ~pc'[u].under PROVE pc'[u].sync \in sync_live'
    <3>1. u # t
      BY <1>2, <2>1, Zenon
    <3>2. ~Hit(u)
      BY <1>3, <2>1, <3>1, Zenon
    <3>3. pc'[u] = pc[u]
      BY <1>2, <3>1, <3>2, Zenon
    <3>. QED  BY <1>0, <1>4, <2>1, <3>2, <3>3, Zenon DEF SyncInv
  <2>. QED  BY <2>1, Zenon
<1>10. SyncInv'
  <2>0. \A u \in Threads : pc'[u].at = "delete" => pc[u].at = "delete" /\ pc'[u].sync = pc[u].sync /\ pc[u].sync # s
    BY <1>5, <1>6, Zenon
  <2>1. \A j \in DOMAIN sync_objects : sync_objects[j] # "null" => sync_objects[j] \in sync_live'
    BY <1>0, <1>4, <1>7, Zenon DEF SyncInv
  <2>2. \A j \in DOMAIN sync_objects, u \in Threads : pc'[u].at = "delete" => pc'[u].sync # sync_objects[j]
    <3>1. ASSUME NEW j \in DOMAIN sync_objects, NEW u \in Threads, pc'[u].at = "delete"
          PROVE  pc'[u].sync # sync_objects[j]
      <4>1. pc[u].at = "delete" /\ pc'[u].sync = pc[u].sync
        BY <2>0, <3>1, Zenon
      <4>2. pc[u].sync # sync_objects[j]
        BY <1>4, <4>1, Zenon DEF SyncInv
      <4>. QED  BY <4>1, <4>2, Zenon
    <3>. QED  BY <3>1, Zenon
  <2>3. \A u \in Threads : pc'[u].at = "delete" => pc'[u].sync \in sync_live'
    BY <1>0, <1>4, <2>0, Zenon DEF SyncInv
  <2>4. \A u, v \in Threads : pc'[u].at = "delete" /\ pc'[v].at = "delete" /\ pc'[u].sync = pc'[v].sync => u = v
    <3>1. ASSUME NEW u \in Threads, NEW v \in Threads, pc'[u].at = "delete", pc'[v].at = "delete",
                 pc'[u].sync = pc'[v].sync
          PROVE  u = v
      <4>1. pc[u].at = "delete" /\ pc'[u].sync = pc[u].sync
        BY <2>0, <3>1, Zenon
      <4>2. pc[v].at = "delete" /\ pc'[v].sync = pc[v].sync
        BY <2>0, <3>1, Zenon
      <4>3. pc[u].sync = pc[v].sync
        BY <3>1, <4>1, <4>2, Zenon
      <4>. QED  BY <1>4, <4>1, <4>2, <4>3, Zenon DEF SyncInv
    <3>. QED  BY <3>1, Zenon
  <2>5. \A i, j \in DOMAIN sync_objects : i # j /\ sync_objects[i] # "null" => sync_objects[i] # sync_objects[j]
    BY <1>4, Zenon DEF SyncInv
  <2>6. sync_objects' = sync_objects
    BY <1>0, Zenon
  <2>. QED  BY <2>6, <1>8, <1>9, <2>1, <2>2, <2>3, <2>4, <2>5, ZenonT(30) DEF SyncInv
<1>11. /\ sync_live' \subseteq SyncPointers /\ DOMAIN pc' = Threads
       /\ sync_objects' \in Seq(SyncPointers \cup {"null"})
  BY <1>0, Zenon DEF ObjectInv, ObjectTypes
<1>12. \A u \in Threads : pc[u].at \in SyncAts /\ pc'[u].at \in SyncAts
  BY <1>2, <1>3, Zenon DEF AtSyncs, SyncAts
<1>. QED  BY <1>1, <1>10, <1>11, <1>12, SyncStepInv, Zenon

LEMMA WaitSyncInv ==
    ASSUME ObjectInv, AtSyncs, NEW t \in Threads,
           \/ \E h \in DOMAIN sync_objects : resolve_sync(t, h)
           \/ WaitInDriver(t)
    PROVE  ObjectInv'
<1>. DEFINE w(h) == [at |-> "wait", sync |-> sync_objects[h], under |-> FALSE]
<1>0. sync_objects' = sync_objects /\ sync_live' = sync_live /\ SyncFrame
  BY Zenon DEF resolve_sync, WaitInDriver, SyncFrame, syncVars, mapVars,
       programVars
<1>1. CASE WaitInDriver(t)
  <2>1. pc[t].at = "wait" /\ PcSet(t, Idle)
    BY <1>1, GotoIs, Zenon DEF WaitInDriver
  <2>2. pc'[t].at = "idle" /\ DOMAIN pc' = Threads /\ \A u \in Threads \ {t} : pc'[u] = pc[u]
    BY <2>1, IdleIs, Zenon DEF PcSet
  <2>3. SyncInv'
    <3>1. SyncInv
      BY Zenon DEF ObjectInv
    <3>2. /\ \A u \in Threads : pc[u].at = "delete" => pc'[u] = pc[u]
          /\ \A u \in Threads : pc'[u].at \in {"delete", "wait"} => pc'[u] = pc[u]
      BY <2>1, <2>2, Zenon
    <3>. QED  BY <1>0, <3>1, <3>2, SyncKept, Zenon
  <2>4. \A u \in Threads : pc[u].at \in SyncAts /\ pc'[u].at \in SyncAts
    BY <2>2, Zenon DEF AtSyncs, SyncAts
  <2>5. sync_objects' \in Seq(SyncPointers \cup {"null"}) /\ sync_live' \subseteq SyncPointers
    BY <1>0, Zenon DEF ObjectInv, ObjectTypes
  <2>. QED  BY <1>0, <2>2, <2>3, <2>4, <2>5, SyncStepInv, Zenon
<1>2. ASSUME NEW h \in DOMAIN sync_objects, resolve_sync(t, h) PROVE ObjectInv'
  <2>1. sync_objects[h] # "null" /\ pc[t] = Idle /\ PcSet(t, w(h))
    <3>1. lookup_sync(h) = sync_objects[h]
      BY Zenon DEF lookup_sync
    <3>. QED  BY <1>2, <3>1, GotoIs, Zenon DEF resolve_sync, Null
  <2>2. /\ pc[t].at = "idle" /\ pc'[t].at = "wait" /\ pc'[t].sync = sync_objects[h]
        /\ DOMAIN pc' = Threads /\ \A u \in Threads \ {t} : pc'[u] = pc[u]
    BY <2>1, IdleIs DEF PcSet
  <2>3. SyncInv
    BY Zenon DEF ObjectInv
  <2>4. SyncInv'
    <3>1. \A u \in Threads : pc'[u].at = "delete" <=> pc[u].at = "delete"
      BY <2>2, Zenon
    <3>2. \A u \in Threads : pc[u].at = "delete" => pc'[u].sync = pc[u].sync
      BY <2>2, Zenon
    <3>3. \A u \in Threads : pc'[u].at = "wait" /\ ~pc'[u].under => pc'[u].sync \in sync_live
      <4>1. sync_objects[h] \in sync_live
        BY <2>1, <2>3, Zenon DEF SyncInv
      <4>2. \A u \in Threads : pc[u].at = "wait" /\ ~pc[u].under => pc[u].sync \in sync_live
        BY <2>3, Zenon DEF SyncInv
      <4>3. ASSUME NEW u \in Threads \ {t}, pc'[u].at = "wait" /\ ~pc'[u].under PROVE pc'[u].sync \in sync_live
        BY <2>2, <4>2, <4>3, Zenon
      <4>. QED  BY <2>2, <4>1, <4>3, Zenon
    <3>4. \A i \in DOMAIN sync_objects, u \in Threads : pc'[u].at = "delete" => pc'[u].sync # sync_objects[i]
      BY <2>3, <3>1, <3>2, ZenonT(30) DEF SyncInv
    <3>5. \A u, v \in Threads : pc'[u].at = "delete" /\ pc'[v].at = "delete" /\ pc'[u].sync = pc'[v].sync => u = v
      <4>1. ASSUME NEW u \in Threads, NEW v \in Threads,
                   pc'[u].at = "delete" /\ pc'[v].at = "delete" /\ pc'[u].sync = pc'[v].sync
            PROVE  u = v
        <5>1. pc[u].at = "delete" /\ pc[v].at = "delete" /\ pc[u].sync = pc[v].sync
          BY <3>1, <3>2, <4>1, Zenon
        <5>. QED  BY <2>3, <5>1, Zenon DEF SyncInv
      <4>. QED  BY <4>1, Zenon
    <3>6. \A s \in sync_live : \/ \E i \in DOMAIN sync_objects : sync_objects[i] = s
                               \/ \E u \in Threads : pc'[u].at = "delete" /\ pc'[u].sync = s
      BY <2>3, <3>1, <3>2, Zenon DEF SyncInv
    <3>7. \A u \in Threads : pc'[u].at = "delete" => pc'[u].sync \in sync_live
      BY <2>3, <3>1, <3>2, Zenon DEF SyncInv
    <3>8. /\ \A i, j \in DOMAIN sync_objects : i # j /\ sync_objects[i] # "null" => sync_objects[i] # sync_objects[j]
          /\ \A i \in DOMAIN sync_objects : sync_objects[i] # "null" => sync_objects[i] \in sync_live
      BY <2>3, Zenon DEF SyncInv
    <3>. QED  BY <1>0, <3>8, <3>3, <3>4, <3>5, <3>6, <3>7, ZenonT(30) DEF SyncInv
  <2>5. \A u \in Threads : pc[u].at \in SyncAts /\ pc'[u].at \in SyncAts
    BY <2>2, Zenon DEF AtSyncs, SyncAts
  <2>6. sync_objects' \in Seq(SyncPointers \cup {"null"}) /\ sync_live' \subseteq SyncPointers
    BY <1>0, Zenon DEF ObjectInv, ObjectTypes
  <2>. QED  BY <1>0, <2>2, <2>4, <2>5, <2>6, SyncStepInv, Zenon
<1>. QED  BY <1>1, <1>2, Zenon

\* What a call on mapped buffers leaves alone.
MapFrame ==
    /\ sync_objects' = sync_objects /\ sync_live' = sync_live
    /\ layout' = layout /\ uniforms' = uniforms /\ relinked' = relinked

LEMMA MapStepInv ==
    ASSUME ObjectInv, MapFrame, ObjectTypes', ~raced' => MapInv', NEW t \in Threads,
           pc[t].at \notin {"delete", "wait"}, pc'[t].at \notin {"delete", "wait"},
           \A u \in Threads \ {t} : pc'[u] = pc[u]
    PROVE  ObjectInv'
<1>1. UniformInv'
  BY UniformKept, Zenon DEF ObjectInv, MapFrame, programVars
<1>2. SyncInv'
  <2>1. SyncInv
    BY Zenon DEF ObjectInv
  <2>2. /\ \A u \in Threads : pc[u].at = "delete" => pc'[u] = pc[u]
        /\ \A u \in Threads : pc'[u].at \in {"delete", "wait"} => pc'[u] = pc[u]
    BY Zenon
  <2>. QED  BY <2>1, <2>2, SyncKept, Zenon DEF MapFrame
<1>. QED  BY <1>1, <1>2, Zenon DEF ObjectInv

\* A thread of which a step changes nothing that the invariant says of it.
ThreadSame(u) ==
    /\ pc'[u] = pc[u] /\ held'[u] = held[u] /\ store'[u] = store[u] /\ meant'[u] = meant[u]
    /\ u \in mapped' <=> u \in mapped
    /\ held[u] # "null" => heap'[held[u]] = heap[held[u]]
    /\ held[u] # "null" => pc[u].at = "unmap" \/ mappings' = mappings
    /\ pc[u].at = "insert" => heap'[pc[u].guest] = heap[pc[u].guest]

ThreadInv(u) == MirrorHeld(u) /\ MirrorComes(u) /\ MirrorGone(u) /\ InCallWith(u)

LEMMA ThreadKept == ASSUME MapInv, NEW u \in Threads, ThreadSame(u) PROVE ThreadInv(u)'
<1>1. MirrorHeld(u) /\ MirrorComes(u) /\ MirrorGone(u) /\ InCallWith(u)
  BY Zenon DEF MapInv
<1>2. held[u] # "null" => Mapping(u)' = Mapping(u)
  BY Zenon DEF Mapping, ThreadSame
<1>3. MirrorHeld(u)'
  BY <1>1, <1>2, ZenonT(30) DEF MirrorHeld, ThreadSame
<1>4. MirrorComes(u)'
  BY <1>1 DEF MirrorComes, ThreadSame
<1>5. MirrorGone(u)'
  BY <1>1, Zenon DEF MirrorGone, ThreadSame
<1>6. InCallWith(u)'
  BY <1>1, Zenon DEF InCallWith, ThreadSame
<1>. QED  BY <1>3, <1>4, <1>5, <1>6, Zenon DEF ThreadInv

LEMMA MapInvFrom ==
    ASSUME \A u \in Threads : EntersAlone(u)' /\ ThreadInv(u)', EntryOwned', BlocksDistinct'
    PROVE  MapInv'
BY Zenon DEF MapInv, ThreadInv

\* What the invariant says of one thread, and of the others when that one is inside.
LEMMA InsideAlone ==
    ASSUME MapInv, NEW t \in Threads, Enters(t)
    PROVE  /\ held[t] = "null" /\ mappings = NoMapping
           /\ \A u \in Threads \ {t} : ~Enters(u) /\ pc[u].at # "insert"
           /\ \A u \in Threads : held[u] # "null" => pc[u].at = "unmap"
<1>1. held[t] = "null" /\ mappings = NoMapping /\ \A u \in Threads : Enters(u) => u = t
  BY Zenon DEF MapInv, EntersAlone
<1>2. \A u \in Threads \ {t} : ~Enters(u) /\ pc[u].at # "insert"
  BY <1>1, Zenon DEF Enters
<1>3. ASSUME NEW u \in Threads, held[u] # "null", pc[u].at # "unmap" PROVE FALSE
  <2>1. Mapping(u) = mappings /\ Mapping(u).guest = held[u]
    BY <1>3, Zenon DEF MapInv, MirrorHeld, Mapping
  <2>2. NoMapping.guest = "null"
    BY Zenon DEF NoMapping, Null
  <2>. QED  BY <1>1, <1>3, <2>1, <2>2, Zenon
<1>. QED  BY <1>1, <1>2, <1>3, Zenon

\* The entry is that of the thread with a mirror which is not unmapping, and nobody enters.
LEMMA EntryOf ==
    ASSUME MapInv, NEW t \in Threads, held[t] # "null", pc[t].at # "unmap"
    PROVE  /\ mappings.guest = held[t] /\ mappings.data = t /\ mappings # NoMapping
           /\ t \in mapped /\ heap[held[t]] = meant[t] /\ (mappings.access = "read" => store[t] = meant[t])
           /\ \A u \in Threads : ~Enters(u) /\ pc[u].at # "insert"
           /\ \A u \in Threads \ {t} : held[u] # "null" => pc[u].at = "unmap"
<1>1. Mapping(t) = mappings
  BY Zenon DEF Mapping
<1>2. /\ mappings.guest = held[t] /\ mappings.data = t
      /\ t \in mapped /\ heap[held[t]] = meant[t] /\ (mappings.access = "read" => store[t] = meant[t])
  BY <1>1, Zenon DEF MapInv, MirrorHeld
<1>3. mappings # NoMapping
  <2>1. NoMapping.guest = "null"
    BY Zenon DEF NoMapping, Null
  <2>. QED  BY <1>2, <2>1, Zenon
<1>4. \A u \in Threads : ~Enters(u)
  BY <1>3, Zenon DEF MapInv, EntersAlone
<1>5. \A u \in Threads : pc[u].at # "insert"
  BY <1>4, Zenon DEF Enters
<1>6. ASSUME NEW u \in Threads \ {t}, held[u] # "null", pc[u].at # "unmap" PROVE FALSE
  <2>1. Mapping(u) = mappings /\ Mapping(u).data = u
    BY <1>6, Zenon DEF MapInv, MirrorHeld, Mapping
  <2>. QED  BY <1>2, <2>1, Zenon
<1>. QED  BY <1>2, <1>3, <1>4, <1>5, <1>6, Zenon

\* Blocks with mirrors are never free and never strings.
LEMMA MirrorContents ==
    ASSUME MapInv, ObjectTypes, NEW g \in GuestBlocks, heap[g] \notin Contents
    PROVE  /\ \A u \in Threads : held[u] # "null" => held[u] # g
           /\ \A u \in Threads : pc[u].at = "insert" => pc[u].guest # g
<1>1. \A u \in Threads : meant[u] \in Contents
  BY Zenon DEF ObjectTypes
<1>2. \A u \in Threads : held[u] # "null" => heap[held[u]] = meant[u]
  BY Zenon DEF MapInv, MirrorHeld
<1>3. \A u \in Threads : pc[u].at = "insert" => heap[pc[u].guest] = meant[u]
  BY Zenon DEF MapInv, MirrorComes
<1>. QED  BY <1>1, <1>2, <1>3, Zenon

LEMMA ObjectParts == ASSUME ObjectInv, ~raced PROVE MapInv /\ ObjectTypes
BY Zenon DEF ObjectInv

LEMMA BlocksKept ==
    ASSUME BlocksDistinct, held' = held, heap' = heap,
           \A u \in Threads : pc[u].at = "insert" \/ pc'[u].at = "insert" => pc'[u] = pc[u]
    PROVE  BlocksDistinct'
<1>1. \A u \in Threads : pc'[u].at = "insert" <=> pc[u].at = "insert"
  BY Zenon
<1>2. \A t, u \in Threads : pc'[t].at = "insert" /\ held[u] # "null" => pc'[t].guest # held[u]
  BY <1>1 DEF BlocksDistinct
<1>3. \A g \in GuestBlocks : heap[g] \in Contents =>
        \E t \in Threads : held[t] = g \/ (pc'[t].at = "insert" /\ pc'[t].guest = g)
  BY <1>1 DEF BlocksDistinct
<1>. QED  BY <1>2, <1>3, ZenonT(30) DEF BlocksDistinct

\* Types: the program counters are typed when the moving thread's is.
LEMMA PcTyped ==
    ASSUME ObjectTypes, NEW t \in Threads, NEW w, PcSet(t, w),
           w.at \in {"idle", "delete", "wait", "map", "insert", "unmap", "flush"}
    PROVE  /\ DOMAIN pc' = Threads
           /\ \A u \in Threads : pc'[u].at \in {"idle", "delete", "wait", "map", "insert", "unmap", "flush"}
BY Zenon DEF ObjectTypes, PcSet

LEMMA FindMappingInv ==
    ASSUME ObjectInv, ~raced, NEW t \in Threads, NEW a, find_mapping(t, a)
    PROVE  ObjectInv'
<1>. DEFINE w == [at |-> "map", access |-> a]
<1>0. /\ pc[t] = Idle /\ held[t] = "null" /\ mappings = NoMapping
      /\ PcSet(t, w) /\ raced' = (raced \/ \E u \in Threads \ {t} : pc[u].at \in {"map", "insert"})
      /\ mappings' = mappings /\ mapped' = mapped /\ store' = store /\ held' = held /\ meant' = meant
      /\ heap' = heap /\ strings' = strings
  BY GotoIs, Zenon DEF find_mapping, Null
<1>1. MapFrame
  BY Zenon DEF find_mapping, MapFrame, syncVars, programVars
<1>2. MapInv /\ ObjectTypes
  BY ObjectParts, Zenon
<1>3. w.at = "map"
  OBVIOUS
<1>4. /\ pc[t].at = "idle" /\ pc'[t].at = "map" /\ \A u \in Threads \ {t} : pc'[u] = pc[u]
  BY <1>0, <1>3, IdleIs, Zenon DEF PcSet
<1>5. ObjectTypes'
  <2>1. /\ DOMAIN pc' = Threads
        /\ \A u \in Threads : pc'[u].at \in {"idle", "delete", "wait", "map", "insert", "unmap", "flush"}
    BY <1>0, <1>2, <1>3, PcTyped, Zenon
  <2>. QED  BY <1>0, <1>1, <1>2, <2>1, Zenon DEF ObjectTypes, MapFrame
<1>6. ASSUME ~raced' PROVE MapInv'
  <2>1. \A u \in Threads \ {t} : ~Enters(u)
    BY <1>0, <1>6, Zenon DEF Enters
  <2>2. \A u \in Threads \ {t} : ~Enters(u)'
    BY <1>4, <2>1, Zenon DEF Enters
  <2>3. \A u \in Threads : EntersAlone(u)'
    BY <1>0, <2>2, Zenon DEF EntersAlone
  <2>4. ASSUME NEW u \in Threads \ {t} PROVE ThreadInv(u)'
    <3>1. ThreadSame(u)
      BY <1>0, <1>4, Zenon DEF ThreadSame
    <3>. QED  BY <1>2, <3>1, ThreadKept, Zenon
  <2>5. ThreadInv(t)'
    <3>1. MirrorHeld(t)' /\ MirrorComes(t)'
      BY <1>0, <1>4, Zenon DEF MirrorHeld, MirrorComes
    <3>2. MirrorGone(t)'
      BY <1>0, <1>2, <1>4 DEF MirrorGone, MapInv
    <3>3. InCallWith(t)'
      BY <1>4, Zenon DEF InCallWith
    <3>. QED  BY <3>1, <3>2, <3>3, Zenon DEF ThreadInv
  <2>6. EntryOwned'
    BY <1>0, Zenon DEF EntryOwned
  <2>7. BlocksDistinct'
    <3>1. \A u \in Threads : pc[u].at = "insert" \/ pc'[u].at = "insert" => pc'[u] = pc[u]
      BY <1>4, Zenon
    <3>. QED  BY <1>0, <1>2, <3>1, BlocksKept, Zenon DEF MapInv
  <2>. QED  BY <2>3, <2>4, <2>5, <2>6, <2>7, MapInvFrom, Zenon
<1>7. pc[t].at \notin {"delete", "wait"} /\ pc'[t].at \notin {"delete", "wait"}
  BY <1>4, Zenon
<1>. QED  BY <1>1, <1>4, <1>5, <1>6, <1>7, MapStepInv, Zenon

LEMMA MapFailsInv ==
    ASSUME ObjectInv, ~raced, NEW t \in Threads, MapInDriver(t), Goto(t, Idle),
           mapped' = mapped, heap' = heap, meant' = meant
    PROVE  ObjectInv'
<1>0. /\ pc[t].at = "map" /\ PcSet(t, Idle) /\ raced' = raced /\ strings' = strings
      /\ mappings' = mappings /\ store' = store /\ held' = held
  BY GotoIs, Zenon DEF MapInDriver
<1>1. MapFrame
  BY Zenon DEF MapInDriver, MapFrame, syncVars, programVars
<1>2. MapInv /\ ObjectTypes
  BY ObjectParts, Zenon
<1>4. /\ pc'[t].at = "idle" /\ \A u \in Threads \ {t} : pc'[u] = pc[u]
  BY <1>0, IdleIs, Zenon DEF PcSet
<1>5. ObjectTypes'
  <2>1. /\ DOMAIN pc' = Threads
        /\ \A u \in Threads : pc'[u].at \in {"idle", "delete", "wait", "map", "insert", "unmap", "flush"}
    BY <1>0, <1>2, IdleIs, PcTyped, Zenon
  <2>. QED  BY <1>0, <1>1, <1>2, <2>1, Zenon DEF ObjectTypes, MapFrame
<1>6. MapInv'
  <2>0. Enters(t)
    BY <1>0, Zenon DEF Enters
  <2>1. /\ held[t] = "null" /\ mappings = NoMapping /\ \A u \in Threads \ {t} : ~Enters(u)
    BY <1>2, <2>0, InsideAlone, Zenon
  <2>2. \A u \in Threads : ~Enters(u)'
    BY <1>4, <2>1, Zenon DEF Enters
  <2>3. \A u \in Threads : EntersAlone(u)'
    BY <2>2, Zenon DEF EntersAlone
  <2>4. ASSUME NEW u \in Threads \ {t} PROVE ThreadInv(u)'
    <3>1. ThreadSame(u)
      BY <1>0, <1>4, Zenon DEF ThreadSame
    <3>. QED  BY <1>2, <3>1, ThreadKept, Zenon
  <2>5. ThreadInv(t)'
    <3>1. MirrorHeld(t)' /\ MirrorComes(t)'
      BY <1>0, <1>4, <2>1 DEF MirrorHeld, MirrorComes
    <3>2. MirrorGone(t)'
      BY <1>0, <1>2, <1>4 DEF MirrorGone, MapInv
    <3>3. InCallWith(t)'
      BY <1>4, Zenon DEF InCallWith
    <3>. QED  BY <3>1, <3>2, <3>3, ZenonT(30) DEF ThreadInv
  <2>6. EntryOwned'
    BY <1>0, <2>1, Zenon DEF EntryOwned
  <2>7. BlocksDistinct'
    <3>1. \A u \in Threads : pc[u].at = "insert" \/ pc'[u].at = "insert" => pc'[u] = pc[u]
      BY <1>0, <1>4, Zenon
    <3>. QED  BY <1>0, <1>2, <3>1, BlocksKept, Zenon DEF MapInv
  <2>. QED  BY <2>3, <2>4, <2>5, <2>6, <2>7, MapInvFrom, Zenon
<1>7. pc[t].at \notin {"delete", "wait"} /\ pc'[t].at \notin {"delete", "wait"}
  BY <1>0, <1>4, Zenon
<1>. QED  BY <1>1, <1>4, <1>5, <1>6, <1>7, MapStepInv, Zenon

\* The driver's contents, or anything when they are invalidated.
Filled(t) == IF pc[t].access = "invalidate" THEN "junk" ELSE store[t]

LEMMA MapSucceedsInv ==
    ASSUME NullIsNothing, ObjectInv, ~raced, NEW t \in Threads, MapInDriver(t), NEW g \in FreeBlocks,
           mapped' = mapped \cup {t}, heap' = [heap EXCEPT ![g] = Filled(t)],
           meant' = [meant EXCEPT ![t] = Filled(t)],
           Goto(t, [at |-> "insert", guest |-> g, access |-> pc[t].access])
    PROVE  ObjectInv'
<1>. DEFINE w == [at |-> "insert", guest |-> g, access |-> pc[t].access]
            f == Filled(t)
<1>0. /\ pc[t].at = "map" /\ PcSet(t, w) /\ raced' = raced /\ strings' = strings
      /\ mappings' = mappings /\ store' = store /\ held' = held
  BY GotoIs, Zenon DEF MapInDriver
<1>1. MapFrame
  BY Zenon DEF MapInDriver, MapFrame, syncVars, programVars
<1>2. MapInv /\ ObjectTypes
  BY ObjectParts, Zenon
<1>3. w.at = "insert" /\ w.guest = g /\ w.access = pc[t].access
  OBVIOUS
<1>4. /\ pc'[t].at = "insert" /\ pc'[t].guest = g /\ pc'[t].access = pc[t].access
      /\ \A u \in Threads \ {t} : pc'[u] = pc[u]
  BY <1>0, <1>3, Zenon DEF PcSet
<1>8. g \in GuestBlocks /\ heap[g] = "free" /\ "free" \notin Contents
  BY Zenon DEF FreeBlocks, Contents
<1>9. f \in Contents /\ (pc[t].access = "read" => f = store[t])
  BY <1>2, Zenon DEF Filled, Contents, ObjectTypes
<1>. HIDE DEF f, w
<1>10. /\ heap'[g] = f /\ \A x \in GuestBlocks \ {g} : heap'[x] = heap[x]
       /\ meant'[t] = f /\ \A u \in Threads \ {t} : meant'[u] = meant[u]
       /\ meant' \in [Threads -> Contents] /\ heap' \in [GuestBlocks -> Contents \cup {"free", "text"}]
  BY <1>2, <1>8, <1>9, Zenon DEF ObjectTypes, f
<1>11. /\ \A u \in Threads : held[u] # "null" => held[u] # g
       /\ \A u \in Threads : held[u] # "null" => held[u] \in GuestBlocks
  <2>1. \A u \in Threads : held[u] # "null" => held[u] # g
    BY <1>2, <1>8, MirrorContents, Zenon
  <2>2. \A u \in Threads : held[u] \in GuestBlocks \cup {"null"}
    BY <1>2, Zenon DEF ObjectTypes
  <2>. QED  BY <2>1, <2>2, Zenon
<1>5. ObjectTypes'
  <2>1. /\ DOMAIN pc' = Threads
        /\ \A u \in Threads : pc'[u].at \in {"idle", "delete", "wait", "map", "insert", "unmap", "flush"}
    BY <1>0, <1>2, <1>3, PcTyped
  <2>. QED  BY <1>0, <1>1, <1>2, <1>10, <2>1, ZenonT(30) DEF ObjectTypes, MapFrame
<1>6. MapInv'
  <2>0. Enters(t)
    BY <1>0 DEF Enters
  <2>1. /\ held[t] = "null" /\ mappings = NoMapping
        /\ \A u \in Threads \ {t} : ~Enters(u) /\ pc[u].at # "insert"
    BY <1>2, <2>0, InsideAlone, Zenon
  <2>2. \A u \in Threads \ {t} : ~Enters(u)'
    BY <1>4, <2>1, Zenon DEF Enters
  <2>3. \A u \in Threads : EntersAlone(u)'
    BY <1>0, <2>1, <2>2, Zenon DEF EntersAlone
  <2>4. ASSUME NEW u \in Threads \ {t} PROVE ThreadInv(u)'
    <3>1. ThreadSame(u)
      BY <1>0, <1>4, <1>10, <1>11, <2>1, Zenon DEF ThreadSame
    <3>. QED  BY <1>2, <3>1, ThreadKept, Zenon
  <2>5. ThreadInv(t)'
    <3>1. MirrorHeld(t)' /\ MirrorGone(t)'
      BY <1>0, <1>4, <2>1, ZenonT(30) DEF MirrorHeld, MirrorGone
    <3>2. MirrorComes(t)'
      BY <1>0, <1>4, <1>8, <1>9, <1>10 DEF MirrorComes
    <3>3. InCallWith(t)'
      BY <1>4, Zenon DEF InCallWith
    <3>. QED  BY <3>1, <3>2, <3>3, Zenon DEF ThreadInv
  <2>6. EntryOwned'
    BY <1>0, <2>1, Zenon DEF EntryOwned
  <2>7. BlocksDistinct'
    <3>1. \A v, u \in Threads : held[v] # "null" /\ held[v] = held[u] => v = u
      BY <1>2, Zenon DEF MapInv, BlocksDistinct
    <3>2. \A v, u \in Threads : pc'[v].at = "insert" /\ held[u] # "null" => pc'[v].guest # held[u]
      BY <1>4, <1>11, <2>1, Zenon
    <3>3. ASSUME NEW x \in GuestBlocks, heap'[x] \in Contents
          PROVE  \E v \in Threads : held[v] = x \/ (pc'[v].at = "insert" /\ pc'[v].guest = x)
      <4>1. CASE x = g
        BY <1>4, <4>1, Zenon
      <4>2. CASE x # g
        <5>1. heap[x] \in Contents
          BY <1>10, <3>3, <4>2, Zenon
        <5>2. \E v \in Threads : held[v] = x \/ (pc[v].at = "insert" /\ pc[v].guest = x)
          BY <1>2, <5>1, Zenon DEF MapInv, BlocksDistinct
        <5>3. \A v \in Threads : pc[v].at # "insert"
          BY <1>0, <2>1, Zenon
        <5>. QED  BY <5>2, <5>3, Zenon
      <4>. QED  BY <4>1, <4>2, Zenon
    <3>. QED  BY <1>0, <3>1, <3>2, <3>3, Zenon DEF BlocksDistinct
  <2>. QED  BY <2>3, <2>4, <2>5, <2>6, <2>7, MapInvFrom, ZenonT(30)
<1>7. pc[t].at \notin {"delete", "wait"} /\ pc'[t].at \notin {"delete", "wait"}
  BY <1>0, <1>4, Zenon
<1>. QED  BY <1>1, <1>4, <1>5, <1>6, <1>7, MapStepInv, Zenon

LEMMA InsertMappingInv ==
    ASSUME NullIsNothing, ObjectInv, ~raced, NEW t \in Threads, InsertMapping(t)
    PROVE  ObjectInv'
<1>. DEFINE g == pc[t].guest
            m == [guest |-> g, data |-> t, access |-> pc[t].access]
<1>0. /\ pc[t].at = "insert" /\ PcSet(t, Idle) /\ raced' = raced /\ strings' = strings
      /\ mappings' = m /\ store' = store /\ held' = [held EXCEPT ![t] = g] /\ mapped' = mapped
      /\ meant' = meant /\ heap' = heap
  BY GotoIs, Zenon DEF InsertMapping
<1>1. MapFrame
  BY Zenon DEF InsertMapping, MapFrame, syncVars, programVars
<1>2. MapInv /\ ObjectTypes
  BY ObjectParts, Zenon
<1>3. m.guest = g /\ m.data = t /\ m.access = pc[t].access
  OBVIOUS
<1>4. pc'[t].at = "idle" /\ \A u \in Threads \ {t} : pc'[u] = pc[u]
  BY <1>0, IdleIs, Zenon DEF PcSet
<1>8. /\ t \in mapped /\ g \in GuestBlocks /\ heap[g] = meant[t] /\ (pc[t].access = "read" => store[t] = meant[t])
  BY <1>0, <1>2, Zenon DEF MapInv, MirrorComes
<1>9. g # "null"
  BY <1>8, Zenon DEF NullIsNothing
<1>. HIDE DEF m, g
<1>10. /\ held'[t] = g /\ \A u \in Threads \ {t} : held'[u] = held[u]
       /\ held' \in [Threads -> GuestBlocks \cup {"null"}]
  BY <1>0, <1>2, <1>8, Zenon DEF ObjectTypes
<1>5. ObjectTypes'
  <2>1. /\ DOMAIN pc' = Threads
        /\ \A u \in Threads : pc'[u].at \in {"idle", "delete", "wait", "map", "insert", "unmap", "flush"}
    BY <1>0, <1>2, IdleIs, PcTyped, Zenon
  <2>. QED  BY <1>0, <1>1, <1>2, <1>10, <2>1, Zenon DEF ObjectTypes, MapFrame
<1>6. MapInv'
  <2>0. Enters(t)
    BY <1>0, Zenon DEF Enters
  <2>1. /\ held[t] = "null" /\ mappings = NoMapping
        /\ \A u \in Threads \ {t} : ~Enters(u) /\ pc[u].at # "insert"
        /\ \A u \in Threads : held[u] # "null" => pc[u].at = "unmap"
    BY <1>2, <2>0, InsideAlone, Zenon
  <2>2. \A u \in Threads : ~Enters(u)'
    BY <1>4, <2>1, Zenon DEF Enters
  <2>3. \A u \in Threads : EntersAlone(u)'
    BY <2>2, Zenon DEF EntersAlone
  <2>4. ASSUME NEW u \in Threads \ {t} PROVE ThreadInv(u)'
    <3>1. ThreadSame(u)
      BY <1>0, <1>4, <1>10, <2>1, Zenon DEF ThreadSame
    <3>. QED  BY <1>2, <3>1, ThreadKept, Zenon
  <2>5. ThreadInv(t)'
    <3>0. Mapping(t)' = m
      BY <1>0, <1>4, Zenon DEF Mapping
    <3>1. MirrorHeld(t)'
      BY <1>0, <1>3, <1>8, <1>10, <3>0, Zenon DEF MirrorHeld
    <3>2. MirrorComes(t)' /\ MirrorGone(t)' /\ InCallWith(t)'
      BY <1>4, <1>9, <1>10, Zenon DEF MirrorComes, MirrorGone, InCallWith
    <3>. QED  BY <3>1, <3>2, Zenon DEF ThreadInv
  <2>6. EntryOwned'
    BY <1>0, <1>3, <1>4, <1>9, <1>10, Zenon DEF EntryOwned
  <2>7. BlocksDistinct'
    <3>0. \A u \in Threads : held[u] # "null" => g # held[u]
      BY <1>0, <1>2, Zenon DEF MapInv, BlocksDistinct, g
    <3>1. \A v, u \in Threads : held'[v] # "null" /\ held'[v] = held'[u] => v = u
      <4>1. \A v, u \in Threads : held[v] # "null" /\ held[v] = held[u] => v = u
        BY <1>2, Zenon DEF MapInv, BlocksDistinct
      <4>. QED  BY <1>9, <1>10, <3>0, <4>1, Zenon
    <3>2. \A v \in Threads : pc'[v].at # "insert"
      BY <1>4, <2>1, Zenon
    <3>3. ASSUME NEW x \in GuestBlocks, heap[x] \in Contents PROVE \E v \in Threads : held'[v] = x
      <4>1. PICK v \in Threads : held[v] = x \/ (pc[v].at = "insert" /\ pc[v].guest = x)
        BY <1>2, <3>3, Zenon DEF MapInv, BlocksDistinct
      <4>2. CASE v = t
        <5>1. x # "null"
          BY Zenon DEF NullIsNothing
        <5>. QED  BY <1>10, <2>1, <4>1, <4>2, <5>1, Zenon DEF g
      <4>3. CASE v # t
        BY <1>10, <2>1, <4>1, <4>3, Zenon
      <4>. QED  BY <4>2, <4>3, Zenon
    <3>. QED  BY <1>0, <3>1, <3>2, <3>3, Zenon DEF BlocksDistinct
  <2>. QED  BY <2>3, <2>4, <2>5, <2>6, <2>7, MapInvFrom, Zenon
<1>7. pc[t].at \notin {"delete", "wait"} /\ pc'[t].at \notin {"delete", "wait"}
  BY <1>0, <1>4, Zenon
<1>. QED  BY <1>1, <1>4, <1>5, <1>6, <1>7, MapStepInv, Zenon

LEMMA GuestWritesInv ==
    ASSUME ObjectInv, ~raced, NEW t \in Threads, GuestWrites(t, "new")
    PROVE  ObjectInv'
<1>. DEFINE g == held[t]
<1>0. /\ pc[t] = Idle /\ g # "null" /\ (mappings.guest = g => mappings.access # "read")
      /\ heap' = [heap EXCEPT ![g] = "new"] /\ meant' = [meant EXCEPT ![t] = "new"]
      /\ pc' = pc /\ raced' = raced /\ strings' = strings /\ mappings' = mappings /\ store' = store
      /\ held' = held /\ mapped' = mapped
  BY Zenon DEF GuestWrites, Null
<1>1. MapFrame
  BY Zenon DEF GuestWrites, MapFrame, syncVars, programVars
<1>2. MapInv /\ ObjectTypes
  BY ObjectParts, Zenon
<1>3. pc[t].at = "idle"
  BY <1>0, IdleIs, Zenon
<1>4. /\ mappings.guest = g /\ mappings.data = t /\ mappings # NoMapping /\ t \in mapped
      /\ \A u \in Threads : ~Enters(u) /\ pc[u].at # "insert"
  <2>1. pc[t].at # "unmap"
    BY <1>3, Zenon
  <2>. QED  BY <1>0, <1>2, <2>1, EntryOf, Zenon
<1>8. g \in GuestBlocks /\ \A u \in Threads : held[u] \in GuestBlocks \cup {"null"}
  BY <1>0, <1>2, Zenon DEF ObjectTypes
<1>. HIDE DEF g
<1>9. /\ heap'[g] = "new" /\ \A x \in GuestBlocks \ {g} : heap'[x] = heap[x]
      /\ meant'[t] = "new" /\ \A u \in Threads \ {t} : meant'[u] = meant[u]
      /\ meant' \in [Threads -> Contents] /\ heap' \in [GuestBlocks -> Contents \cup {"free", "text"}]
  BY <1>0, <1>2, <1>8 DEF ObjectTypes, Contents
<1>5. ObjectTypes'
  BY <1>0, <1>1, <1>2, <1>9, Zenon DEF ObjectTypes, MapFrame
<1>10. \A u \in Threads \ {t} : held[u] # "null" => held[u] # g
  BY <1>0, <1>2, Zenon DEF MapInv, BlocksDistinct, g
<1>6. MapInv'
  <2>3. \A u \in Threads : EntersAlone(u)'
    BY <1>0, <1>4, Zenon DEF EntersAlone, Enters
  <2>4. ASSUME NEW u \in Threads \ {t} PROVE ThreadInv(u)'
    <3>1. ThreadSame(u)
      BY <1>0, <1>4, <1>8, <1>9, <1>10, Zenon DEF ThreadSame
    <3>. QED  BY <1>2, <3>1, ThreadKept, Zenon
  <2>5. ThreadInv(t)'
    <3>0. Mapping(t)' = mappings
      BY <1>0, <1>3, Zenon DEF Mapping
    <3>1. MirrorHeld(t)'
      BY <1>0, <1>4, <1>9, <3>0, Zenon DEF MirrorHeld, g
    <3>2. MirrorComes(t)' /\ MirrorGone(t)' /\ InCallWith(t)'
      BY <1>0, <1>3, Zenon DEF MirrorComes, MirrorGone, InCallWith, g
    <3>. QED  BY <3>1, <3>2, Zenon DEF ThreadInv
  <2>6. EntryOwned'
    BY <1>0, <1>2, Zenon DEF EntryOwned, MapInv
  <2>7. BlocksDistinct'
    <3>1. ASSUME NEW x \in GuestBlocks, heap'[x] \in Contents
          PROVE  \E v \in Threads : held[v] = x \/ (pc[v].at = "insert" /\ pc[v].guest = x)
      <4>1. CASE x = g
        BY <4>1, Zenon DEF g
      <4>2. CASE x # g
        BY <1>2, <1>9, <3>1, <4>2, Zenon DEF MapInv, BlocksDistinct
      <4>. QED  BY <4>1, <4>2, Zenon
    <3>. QED  BY <1>0, <1>2, <3>1, Zenon DEF BlocksDistinct, MapInv
  <2>. QED  BY <2>3, <2>4, <2>5, <2>6, <2>7, MapInvFrom, Zenon
<1>7. pc[t].at \notin {"delete", "wait"} /\ pc'[t].at \notin {"delete", "wait"}
  BY <1>0, <1>3, Zenon
<1>. QED  BY <1>0, <1>1, <1>5, <1>6, <1>7, MapStepInv, Zenon

LEMMA UnmapMirroredInv ==
    ASSUME ObjectInv, ~raced, NEW t \in Threads, unmap_mirrored(t)
    PROVE  ObjectInv'
<1>. DEFINE w == [at |-> "unmap", mapping |-> mappings]
<1>0. /\ pc[t] = Idle /\ held[t] # "null" /\ PcSet(t, w) /\ mappings' = NoMapping
      /\ raced' = raced /\ strings' = strings /\ store' = store /\ meant' = meant /\ heap' = heap
      /\ held' = held /\ mapped' = mapped
  BY GotoIs, Zenon DEF unmap_mirrored, Null
<1>1. MapFrame
  BY Zenon DEF unmap_mirrored, MapFrame, syncVars, programVars
<1>2. MapInv /\ ObjectTypes
  BY ObjectParts, Zenon
<1>3. w.at = "unmap" /\ w.mapping = mappings
  OBVIOUS
<1>4. /\ pc[t].at = "idle" /\ pc'[t].at = "unmap" /\ pc'[t].mapping = mappings
      /\ \A u \in Threads \ {t} : pc'[u] = pc[u]
  BY <1>0, <1>3, IdleIs, Zenon DEF PcSet
<1>8. /\ mappings.guest = held[t] /\ mappings.data = t /\ t \in mapped /\ heap[held[t]] = meant[t]
      /\ (mappings.access = "read" => store[t] = meant[t])
      /\ \A u \in Threads : ~Enters(u) /\ pc[u].at # "insert"
      /\ \A u \in Threads \ {t} : held[u] # "null" => pc[u].at = "unmap"
  <2>1. pc[t].at # "unmap"
    BY <1>4, Zenon
  <2>. QED  BY <1>0, <1>2, <2>1, EntryOf, Zenon
<1>5. ObjectTypes'
  <2>1. /\ DOMAIN pc' = Threads
        /\ \A u \in Threads : pc'[u].at \in {"idle", "delete", "wait", "map", "insert", "unmap", "flush"}
    BY <1>0, <1>2, <1>3, PcTyped, Zenon
  <2>. QED  BY <1>0, <1>1, <1>2, <2>1, Zenon DEF ObjectTypes, MapFrame
<1>6. MapInv'
  <2>3. \A u \in Threads : EntersAlone(u)'
    <3>1. \A u \in Threads : ~Enters(u)'
      BY <1>4, <1>8, Zenon DEF Enters
    <3>. QED  BY <3>1, Zenon DEF EntersAlone
  <2>4. ASSUME NEW u \in Threads \ {t} PROVE ThreadInv(u)'
    <3>1. ThreadSame(u)
      BY <1>0, <1>4, <1>8, Zenon DEF ThreadSame
    <3>. QED  BY <1>2, <3>1, ThreadKept, Zenon
  <2>5. ThreadInv(t)'
    <3>0. Mapping(t)' = mappings
      BY <1>4, Zenon DEF Mapping
    <3>1. MirrorHeld(t)'
      BY <1>0, <1>8, <3>0, Zenon DEF MirrorHeld
    <3>2. MirrorComes(t)' /\ MirrorGone(t)' /\ InCallWith(t)'
      BY <1>0, <1>4, Zenon DEF MirrorComes, MirrorGone, InCallWith
    <3>. QED  BY <3>1, <3>2, Zenon DEF ThreadInv
  <2>6. EntryOwned'
    BY <1>0, Zenon DEF EntryOwned
  <2>7. BlocksDistinct'
    <3>1. \A u \in Threads : pc[u].at = "insert" \/ pc'[u].at = "insert" => pc'[u] = pc[u]
      BY <1>4, Zenon
    <3>. QED  BY <1>0, <1>2, <3>1, BlocksKept, Zenon DEF MapInv
  <2>. QED  BY <2>3, <2>4, <2>5, <2>6, <2>7, MapInvFrom, Zenon
<1>7. pc[t].at \notin {"delete", "wait"} /\ pc'[t].at \notin {"delete", "wait"}
  BY <1>4, Zenon
<1>. QED  BY <1>1, <1>4, <1>5, <1>6, <1>7, MapStepInv, Zenon

LEMMA UnmapInDriverInv ==
    ASSUME NullIsNothing, ObjectInv, ~raced, NEW t \in Threads, UnmapInDriver(t)
    PROVE  ObjectInv'
<1>. DEFINE g == held[t]
            m == pc[t].mapping
<1>0. /\ pc[t].at = "unmap" /\ PcSet(t, Idle)
      /\ \/ /\ store' = IF m # NoMapping /\ m.access # "read"
                        THEN [store EXCEPT ![m.data] = heap[m.guest]] ELSE store
            /\ meant' = meant
         \/ store' = store /\ meant' = [meant EXCEPT ![t] = store[t]]
      /\ mapped' = mapped \ {t}
      /\ heap' = IF m # NoMapping THEN [heap EXCEPT ![m.guest] = "free"] ELSE heap
      /\ held' = [held EXCEPT ![t] = "null"]
      /\ raced' = raced /\ strings' = strings /\ mappings' = mappings
  BY GotoIs, Zenon DEF UnmapInDriver, Null
<1>1. MapFrame
  BY Zenon DEF UnmapInDriver, MapFrame, syncVars, programVars
<1>2. MapInv /\ ObjectTypes
  BY ObjectParts, Zenon
<1>4. pc'[t].at = "idle" /\ \A u \in Threads \ {t} : pc'[u] = pc[u]
  BY <1>0, IdleIs, Zenon DEF PcSet
<1>8. /\ g # "null" /\ m.guest = g /\ m.data = t /\ t \in mapped /\ heap[g] = meant[t]
      /\ (m.access = "read" => store[t] = meant[t])
  <2>1. g # "null"
    BY <1>0, <1>2, Zenon DEF MapInv, InCallWith
  <2>2. Mapping(t) = m
    BY <1>0, Zenon DEF Mapping
  <2>. QED  BY <1>2, <2>1, <2>2, Zenon DEF MapInv, MirrorHeld
<1>9. m # NoMapping
  <2>1. NoMapping.guest = "null"
    BY Zenon DEF NoMapping, Null
  <2>. QED  BY <1>8, <2>1, Zenon
<1>10. g \in GuestBlocks /\ \A u \in Threads : held[u] \in GuestBlocks \cup {"null"}
  BY <1>2, <1>8, Zenon DEF ObjectTypes
<1>11. /\ heap' = [heap EXCEPT ![g] = "free"]
       /\ \/ store' = [store EXCEPT ![t] = meant[t]] /\ meant' = meant
          \/ store' = store /\ meant' = [meant EXCEPT ![t] = store[t]]
  <2>1. heap' = [heap EXCEPT ![g] = "free"]
    BY <1>0, <1>8, <1>9, Zenon
  <2>2. CASE /\ store' = IF m # NoMapping /\ m.access # "read"
                         THEN [store EXCEPT ![m.data] = heap[m.guest]] ELSE store
             /\ meant' = meant
    <3>1. CASE m.access = "read"
      <4>1. store' = store
        BY <2>2, <3>1, Zenon
      <4>2. store = [store EXCEPT ![t] = meant[t]]
        BY <1>2, <1>8, <3>1, Zenon DEF ObjectTypes
      <4>. QED  BY <2>1, <2>2, <4>1, <4>2, Zenon
    <3>2. CASE m.access # "read"
      BY <1>8, <1>9, <2>1, <2>2, <3>2, Zenon
    <3>. QED  BY <3>1, <3>2, Zenon
  <2>. QED  BY <1>0, <2>1, <2>2, Zenon
<1>. HIDE DEF m, g
<1>12. /\ heap'[g] = "free" /\ \A x \in GuestBlocks \ {g} : heap'[x] = heap[x]
       /\ store'[t] = meant'[t]
       /\ \A u \in Threads \ {t} : store'[u] = store[u] /\ meant'[u] = meant[u] /\ held'[u] = held[u]
       /\ store' \in [Threads -> Contents] /\ meant' \in [Threads -> Contents]
       /\ heap' \in [GuestBlocks -> Contents \cup {"free", "text"}]
       /\ held'[t] = "null" /\ held' \in [Threads -> GuestBlocks \cup {"null"}]
  <2>1. /\ store \in [Threads -> Contents] /\ meant \in [Threads -> Contents]
        /\ held \in [Threads -> GuestBlocks \cup {"null"}] /\ heap \in [GuestBlocks -> Contents \cup {"free", "text"}]
    BY <1>2, Zenon DEF ObjectTypes
  <2>2. /\ heap'[g] = "free" /\ \A x \in GuestBlocks \ {g} : heap'[x] = heap[x]
        /\ heap' \in [GuestBlocks -> Contents \cup {"free", "text"}]
    BY <1>10, <1>11, <2>1, Zenon
  <2>3. /\ store'[t] = meant'[t]
        /\ \A u \in Threads \ {t} : store'[u] = store[u] /\ meant'[u] = meant[u]
        /\ store' \in [Threads -> Contents] /\ meant' \in [Threads -> Contents]
    <3>1. CASE store' = [store EXCEPT ![t] = meant[t]] /\ meant' = meant
      BY <2>1, <3>1, Zenon
    <3>2. CASE store' = store /\ meant' = [meant EXCEPT ![t] = store[t]]
      BY <2>1, <3>2, Zenon
    <3>. QED  BY <1>11, <3>1, <3>2, Zenon
  <2>4. /\ held'[t] = "null" /\ \A u \in Threads \ {t} : held'[u] = held[u]
        /\ held' \in [Threads -> GuestBlocks \cup {"null"}]
    BY <1>0, <2>1, Zenon
  <2>. QED  BY <2>2, <2>3, <2>4, Zenon
<1>5. ObjectTypes'
  <2>1. /\ DOMAIN pc' = Threads
        /\ \A u \in Threads : pc'[u].at \in {"idle", "delete", "wait", "map", "insert", "unmap", "flush"}
    BY <1>0, <1>2, IdleIs, PcTyped, Zenon
  <2>2. mapped' \subseteq Threads
    BY <1>0, <1>2, Zenon DEF ObjectTypes
  <2>. QED  BY <1>0, <1>1, <1>2, <1>12, <2>1, <2>2, Zenon DEF ObjectTypes, MapFrame
<1>13. \A u \in Threads \ {t} : held[u] # "null" => held[u] # g
  BY <1>2, <1>8, Zenon DEF MapInv, BlocksDistinct, g
<1>14. \A u \in Threads : pc[u].at = "insert" => pc[u].guest # g
  BY <1>2, <1>8, Zenon DEF MapInv, BlocksDistinct, g
<1>6. MapInv'
  <2>2. \A u \in Threads : Enters(u)' <=> Enters(u)
    BY <1>0, <1>4, Zenon DEF Enters
  <2>3. ASSUME NEW u \in Threads PROVE EntersAlone(u)'
    <3>1. EntersAlone(u)
      BY <1>2, Zenon DEF MapInv
    <3>2. Enters(u) => u # t
      BY <1>0, Zenon DEF Enters
    <3>. QED  BY <1>0, <1>12, <2>2, <3>1, <3>2, Zenon DEF EntersAlone
  <2>4. ASSUME NEW u \in Threads \ {t} PROVE ThreadInv(u)'
    <3>0. pc[u].at = "insert" => pc[u].guest \in GuestBlocks
      BY <1>2, Zenon DEF MapInv, MirrorComes
    <3>1. ThreadSame(u)
      BY <1>0, <1>4, <1>10, <1>12, <1>13, <1>14, <3>0, Zenon DEF ThreadSame
    <3>. QED  BY <1>2, <3>1, ThreadKept, Zenon
  <2>5. ThreadInv(t)'
    <3>1. MirrorHeld(t)' /\ MirrorGone(t)'
      BY <1>0, <1>4, <1>12, Zenon DEF MirrorHeld, MirrorGone
    <3>2. MirrorComes(t)' /\ InCallWith(t)'
      BY <1>4, Zenon DEF MirrorComes, InCallWith
    <3>. QED  BY <3>1, <3>2, Zenon DEF ThreadInv
  <2>6. EntryOwned'
    <3>1. ASSUME mappings # NoMapping
          PROVE  \E u \in Threads : mappings.data = u /\ held'[u] # "null" /\ pc'[u].at # "unmap"
      <4>1. PICK u \in Threads : mappings.data = u /\ held[u] # "null" /\ pc[u].at # "unmap"
        BY <1>2, <3>1, Zenon DEF MapInv, EntryOwned
      <4>2. u \in Threads \ {t}
        BY <1>0, <4>1, Zenon
      <4>. QED  BY <1>4, <1>12, <4>1, <4>2, Zenon
    <3>. QED  BY <1>0, <3>1, Zenon DEF EntryOwned
  <2>7. BlocksDistinct'
    <3>0. /\ \A v, u \in Threads : held[v] # "null" /\ held[v] = held[u] => v = u
          /\ \A v, u \in Threads : pc[v].at = "insert" /\ held[u] # "null" => pc[v].guest # held[u]
      BY <1>2, Zenon DEF MapInv, BlocksDistinct
    <3>1. \A v, u \in Threads : held'[v] # "null" /\ held'[v] = held'[u] => v = u
      <4>1. \A u \in Threads : held'[u] # "null" => u # t /\ held'[u] = held[u]
        BY <1>12, Zenon
      <4>. QED  BY <3>0, <4>1, Zenon
    <3>2. \A v, u \in Threads : pc'[v].at = "insert" /\ held'[u] # "null" => pc'[v].guest # held'[u]
      <4>1. \A u \in Threads : held'[u] # "null" => held'[u] = held[u]
        BY <1>12, Zenon
      <4>2. \A v \in Threads : pc'[v].at = "insert" => pc'[v] = pc[v]
        BY <1>4, Zenon
      <4>3. ASSUME NEW v \in Threads, NEW u \in Threads, pc'[v].at = "insert" /\ held'[u] # "null"
            PROVE  pc'[v].guest # held'[u]
        <5>1. pc'[v] = pc[v] /\ held'[u] = held[u]
          BY <4>1, <4>2, <4>3, Zenon
        <5>2. pc[v].at = "insert" /\ held[u] # "null"
          BY <4>3, <5>1, Zenon
        <5>3. pc[v].guest # held[u]
          BY <3>0, <5>2, Zenon
        <5>. QED  BY <5>1, <5>3, Zenon
      <4>. QED  BY <4>3, Zenon
    <3>3. ASSUME NEW x \in GuestBlocks, heap'[x] \in Contents
          PROVE  \E v \in Threads : held'[v] = x \/ (pc'[v].at = "insert" /\ pc'[v].guest = x)
      <4>1. x # g
        BY <1>12, <3>3 DEF Contents
      <4>2. PICK v \in Threads : held[v] = x \/ (pc[v].at = "insert" /\ pc[v].guest = x)
        BY <1>2, <1>12, <3>3, <4>1, Zenon DEF MapInv, BlocksDistinct
      <4>3. v # t
        BY <1>0, <4>1, <4>2, Zenon DEF g
      <4>. QED  BY <1>4, <1>12, <4>2, <4>3, Zenon
    <3>. QED  BY <3>1, <3>2, <3>3, Zenon DEF BlocksDistinct
  <2>. QED  BY <2>3, <2>4, <2>5, <2>6, <2>7, MapInvFrom, Zenon
<1>7. pc[t].at \notin {"delete", "wait"} /\ pc'[t].at \notin {"delete", "wait"}
  BY <1>0, <1>4, Zenon
<1>. QED  BY <1>1, <1>4, <1>5, <1>6, <1>7, MapStepInv, Zenon

LEMMA FlushMappedInv ==
    ASSUME ObjectInv, ~raced, NEW t \in Threads, glFlushMappedBufferRange(t)
    PROVE  ObjectInv'
<1>. DEFINE w == [at |-> "flush", mapping |-> mappings]
<1>0. /\ pc[t] = Idle /\ held[t] # "null" /\ PcSet(t, w) /\ mappings' = mappings
      /\ raced' = raced /\ strings' = strings /\ store' = store /\ meant' = meant /\ heap' = heap
      /\ held' = held /\ mapped' = mapped
  BY GotoIs, Zenon DEF glFlushMappedBufferRange, Null, mapVars
<1>1. MapFrame
  BY Zenon DEF glFlushMappedBufferRange, MapFrame, syncVars, programVars
<1>2. MapInv /\ ObjectTypes
  BY ObjectParts, Zenon
<1>3. w.at = "flush" /\ w.mapping = mappings
  OBVIOUS
<1>4. /\ pc[t].at = "idle" /\ pc'[t].at = "flush" /\ pc'[t].mapping = mappings
      /\ \A u \in Threads \ {t} : pc'[u] = pc[u]
  BY <1>0, <1>3, IdleIs, Zenon DEF PcSet
<1>5. ObjectTypes'
  <2>1. /\ DOMAIN pc' = Threads
        /\ \A u \in Threads : pc'[u].at \in {"idle", "delete", "wait", "map", "insert", "unmap", "flush"}
    BY <1>0, <1>2, <1>3, PcTyped, Zenon
  <2>. QED  BY <1>0, <1>1, <1>2, <2>1, Zenon DEF ObjectTypes, MapFrame
<1>6. MapInv'
  <2>2. \A u \in Threads : Enters(u)' <=> Enters(u)
    BY <1>4 DEF Enters
  <2>3. \A u \in Threads : EntersAlone(u)'
    BY <1>0, <1>2, <2>2, Zenon DEF EntersAlone, MapInv
  <2>4. ASSUME NEW u \in Threads \ {t} PROVE ThreadInv(u)'
    <3>1. ThreadSame(u)
      BY <1>0, <1>4, Zenon DEF ThreadSame
    <3>. QED  BY <1>2, <3>1, ThreadKept, Zenon
  <2>5. ThreadInv(t)'
    <3>0. Mapping(t)' = Mapping(t)
      BY <1>0, <1>4, Zenon DEF Mapping
    <3>1. MirrorHeld(t)'
      BY <1>0, <1>2, <3>0, Zenon DEF MirrorHeld, MapInv
    <3>2. MirrorComes(t)' /\ MirrorGone(t)' /\ InCallWith(t)'
      BY <1>0, <1>4, Zenon DEF MirrorComes, MirrorGone, InCallWith
    <3>. QED  BY <3>1, <3>2, Zenon DEF ThreadInv
  <2>6. EntryOwned'
    BY <1>0, <1>2, <1>4 DEF EntryOwned, MapInv
  <2>7. BlocksDistinct'
    <3>1. \A u \in Threads : pc[u].at = "insert" \/ pc'[u].at = "insert" => pc'[u] = pc[u]
      BY <1>4, Zenon
    <3>. QED  BY <1>0, <1>2, <3>1, BlocksKept, Zenon DEF MapInv
  <2>. QED  BY <2>3, <2>4, <2>5, <2>6, <2>7, MapInvFrom, Zenon
<1>7. pc[t].at \notin {"delete", "wait"} /\ pc'[t].at \notin {"delete", "wait"}
  BY <1>4, Zenon
<1>. QED  BY <1>1, <1>4, <1>5, <1>6, <1>7, MapStepInv, Zenon

LEMMA FlushInDriverInv ==
    ASSUME ObjectInv, ~raced, NEW t \in Threads, FlushInDriver(t)
    PROVE  ObjectInv'
<1>. DEFINE m == pc[t].mapping
<1>0. /\ pc[t].at = "flush" /\ PcSet(t, Idle)
      /\ \/ store' = IF m.access # "read" THEN [store EXCEPT ![m.data] = heap[m.guest]] ELSE store
         \/ store' = store
      /\ raced' = raced /\ strings' = strings /\ mappings' = mappings /\ meant' = meant /\ heap' = heap
      /\ held' = held /\ mapped' = mapped
  BY GotoIs, Zenon DEF FlushInDriver
<1>1. MapFrame
  BY Zenon DEF FlushInDriver, MapFrame, syncVars, programVars
<1>2. MapInv /\ ObjectTypes
  BY ObjectParts, Zenon
<1>4. pc'[t].at = "idle" /\ \A u \in Threads \ {t} : pc'[u] = pc[u]
  BY <1>0, IdleIs, Zenon DEF PcSet
<1>8. held[t] # "null" /\ m = mappings
  BY <1>0, <1>2, Zenon DEF MapInv, InCallWith
<1>9. /\ m.guest = held[t] /\ m.data = t /\ heap[held[t]] = meant[t]
      /\ (m.access = "read" => store[t] = meant[t])
      /\ \A u \in Threads : ~Enters(u) /\ pc[u].at # "insert"
  <2>1. pc[t].at # "unmap"
    BY <1>0, Zenon
  <2>. QED  BY <1>2, <1>8, <2>1, EntryOf, Zenon
<1>10. store' = [store EXCEPT ![t] = meant[t]] \/ store' = store
  <2>1. CASE m.access = "read"
    BY <1>0, <2>1, Zenon
  <2>2. CASE m.access # "read"
    BY <1>0, <1>9, <2>2, Zenon
  <2>. QED  BY <2>1, <2>2, Zenon
<1>. HIDE DEF m
<1>11. /\ store'[t] = meant[t] \/ store'[t] = store[t]
       /\ \A u \in Threads \ {t} : store'[u] = store[u]
       /\ store' \in [Threads -> Contents]
  <2>1. store \in [Threads -> Contents] /\ meant[t] \in Contents
    BY <1>2, Zenon DEF ObjectTypes
  <2>. QED  BY <1>10, <2>1, Zenon
<1>5. ObjectTypes'
  <2>1. /\ DOMAIN pc' = Threads
        /\ \A u \in Threads : pc'[u].at \in {"idle", "delete", "wait", "map", "insert", "unmap", "flush"}
    BY <1>0, <1>2, IdleIs, PcTyped, Zenon
  <2>. QED  BY <1>0, <1>1, <1>2, <1>11, <2>1, Zenon DEF ObjectTypes, MapFrame
<1>6. MapInv'
  <2>2. \A u \in Threads : ~Enters(u)'
    BY <1>4, <1>9 DEF Enters
  <2>3. \A u \in Threads : EntersAlone(u)'
    BY <2>2, Zenon DEF EntersAlone
  <2>4. ASSUME NEW u \in Threads \ {t} PROVE ThreadInv(u)'
    <3>1. ThreadSame(u)
      BY <1>0, <1>4, <1>11, Zenon DEF ThreadSame
    <3>. QED  BY <1>2, <3>1, ThreadKept, Zenon
  <2>5. ThreadInv(t)'
    <3>0. Mapping(t)' = Mapping(t)
      BY <1>0, <1>4, Zenon DEF Mapping
    <3>1. MirrorHeld(t)'
      BY <1>0, <1>2, <1>11, <3>0, Zenon DEF MirrorHeld, MapInv
    <3>2. MirrorComes(t)' /\ MirrorGone(t)' /\ InCallWith(t)'
      BY <1>0, <1>4, <1>8, Zenon DEF MirrorComes, MirrorGone, InCallWith
    <3>. QED  BY <3>1, <3>2, Zenon DEF ThreadInv
  <2>6. EntryOwned'
    BY <1>0, <1>2, <1>4, Zenon DEF EntryOwned, MapInv
  <2>7. BlocksDistinct'
    <3>1. \A u \in Threads : pc[u].at = "insert" \/ pc'[u].at = "insert" => pc'[u] = pc[u]
      BY <1>0, <1>4, Zenon
    <3>. QED  BY <1>0, <1>2, <3>1, BlocksKept, Zenon DEF MapInv
  <2>. QED  BY <2>3, <2>4, <2>5, <2>6, <2>7, MapInvFrom, Zenon
<1>7. pc[t].at \notin {"delete", "wait"} /\ pc'[t].at \notin {"delete", "wait"}
  BY <1>0, <1>4, Zenon
<1>. QED  BY <1>1, <1>4, <1>5, <1>6, <1>7, MapStepInv, Zenon

LEMMA GetStringInv ==
    ASSUME ObjectInv, ~raced, NEW t \in Threads, glGetString(t)
    PROVE  ObjectInv'
<1>0. /\ pc[t] = Idle /\ pc' = pc /\ mappings' = mappings
      /\ raced' = raced /\ store' = store /\ meant' = meant /\ held' = held /\ mapped' = mapped
  BY Zenon DEF glGetString, mapVars
<1>3. PICK g \in FreeBlocks : strings' = [strings EXCEPT ![t] = g] /\ heap' = [heap EXCEPT ![g] = "text"]
  BY Zenon DEF glGetString
<1>1. MapFrame
  BY Zenon DEF glGetString, MapFrame, syncVars, programVars
<1>2. MapInv /\ ObjectTypes
  BY ObjectParts, Zenon
<1>4. g \in GuestBlocks /\ heap[g] \notin Contents /\ "text" \notin Contents
  BY Zenon DEF FreeBlocks, Contents
<1>8. /\ heap'[g] = "text" /\ \A x \in GuestBlocks \ {g} : heap'[x] = heap[x]
      /\ heap' \in [GuestBlocks -> Contents \cup {"free", "text"}] /\ strings' \in [Threads -> GuestBlocks \cup {"null"}]
  BY <1>2, <1>3, <1>4, Zenon DEF ObjectTypes
<1>9. /\ \A u \in Threads : held[u] # "null" => held[u] # g
      /\ \A u \in Threads : pc[u].at = "insert" => pc[u].guest # g
      /\ \A u \in Threads : held[u] \in GuestBlocks \cup {"null"}
      /\ \A u \in Threads : pc[u].at = "insert" => pc[u].guest \in GuestBlocks
  <2>1. /\ \A u \in Threads : held[u] # "null" => held[u] # g
        /\ \A u \in Threads : pc[u].at = "insert" => pc[u].guest # g
    BY <1>2, <1>4, MirrorContents, Zenon
  <2>2. \A u \in Threads : held[u] \in GuestBlocks \cup {"null"}
    BY <1>2, Zenon DEF ObjectTypes
  <2>3. \A u \in Threads : pc[u].at = "insert" => pc[u].guest \in GuestBlocks
    BY <1>2, Zenon DEF MapInv, MirrorComes
  <2>. QED  BY <2>1, <2>2, <2>3, Zenon
<1>5. ObjectTypes'
  BY <1>0, <1>1, <1>2, <1>8, Zenon DEF ObjectTypes, MapFrame
<1>6. MapInv'
  <2>3. \A u \in Threads : EntersAlone(u)'
    BY <1>0, <1>2, Zenon DEF EntersAlone, Enters, MapInv
  <2>4. ASSUME NEW u \in Threads PROVE ThreadInv(u)'
    <3>1. ThreadSame(u)
      BY <1>0, <1>8, <1>9, Zenon DEF ThreadSame
    <3>. QED  BY <1>2, <3>1, ThreadKept, Zenon
  <2>6. EntryOwned'
    BY <1>0, <1>2, Zenon DEF EntryOwned, MapInv
  <2>7. BlocksDistinct'
    <3>1. \A x \in GuestBlocks : heap'[x] \in Contents => heap[x] \in Contents
      BY <1>4, <1>8, Zenon
    <3>. QED  BY <1>0, <1>2, <3>1, Zenon DEF BlocksDistinct, MapInv
  <2>. QED  BY <2>3, <2>4, <2>6, <2>7, MapInvFrom, Zenon
<1>7. pc[t].at \notin {"delete", "wait"} /\ pc'[t].at \notin {"delete", "wait"}
  BY <1>0, IdleIs, Zenon
<1>. QED  BY <1>0, <1>1, <1>5, <1>6, <1>7, MapStepInv, Zenon

LEMMA ProgramsInv ==
    ASSUME ObjectInv, NEW t \in Threads, invalidate_uniforms(t) \/ uniform_elements(t)
    PROVE  ObjectInv'
<1>0. /\ mappings' = mappings /\ mapped' = mapped /\ store' = store /\ held' = held /\ meant' = meant
      /\ raced' = raced /\ heap' = heap /\ strings' = strings /\ pc' = pc
      /\ sync_objects' = sync_objects /\ sync_live' = sync_live
  BY Zenon DEF invalidate_uniforms, uniform_elements, syncVars, mapVars
<1>1. ObjectTypes'
  BY <1>0, Zenon DEF ObjectInv, ObjectTypes
<1>2. SyncInv'
  BY <1>0, SyncKept, Zenon DEF ObjectInv
<1>3. ~raced' => MapInv'
  BY <1>0, MapKept, Zenon DEF ObjectInv
<1>4. DOMAIN uniforms = Threads /\ UniformsFresh
  BY Zenon DEF ObjectInv, UniformInv
<1>5. CASE invalidate_uniforms(t)
  <2>1. /\ uniforms' = [uniforms EXCEPT ![t] = Unknown]
        /\ relinked' = (relinked \ {t}) \cup {u \in Threads \ {t} : uniforms[u] # Unknown}
    BY <1>5, Zenon DEF invalidate_uniforms
  <2>2. /\ DOMAIN uniforms' = Threads /\ uniforms'[t] = Unknown
        /\ \A u \in Threads \ {t} : uniforms'[u] = uniforms[u]
    BY <1>4, <2>1, Zenon
  <2>3. UniformsFresh'
    BY <2>1, <2>2, Zenon DEF UniformsFresh, Unknown
  <2>. QED  BY <1>1, <1>2, <1>3, <2>2, <2>3, Zenon DEF ObjectInv, UniformInv
<1>6. CASE uniform_elements(t)
  <2>1. uniforms' = [uniforms EXCEPT ![t] = layout] /\ layout' = layout /\ relinked' = relinked
    BY <1>6, Zenon DEF uniform_elements
  <2>2. /\ DOMAIN uniforms' = Threads /\ uniforms'[t] = layout
        /\ \A u \in Threads \ {t} : uniforms'[u] = uniforms[u]
    BY <1>4, <2>1, Zenon
  <2>3. UniformsFresh'
    BY <1>4, <2>1, <2>2, Zenon DEF UniformsFresh, Unknown
  <2>. QED  BY <1>1, <1>2, <1>3, <2>2, <2>3, Zenon DEF ObjectInv, UniformInv
<1>. QED  BY <1>5, <1>6, Zenon

LEMMA ObjectNext == ASSUME NullIsNothing, ObjectInv, [ObjectsNext]_(objectVars) PROVE ObjectInv'
<1>1. ASSUME UNCHANGED objectVars PROVE ObjectInv'
  <2>1. /\ mappings' = mappings /\ mapped' = mapped /\ store' = store /\ held' = held /\ meant' = meant
        /\ raced' = raced /\ heap' = heap /\ strings' = strings /\ pc' = pc
        /\ sync_objects' = sync_objects /\ sync_live' = sync_live /\ UNCHANGED programVars
    BY <1>1, Zenon DEF objectVars, programVars
  <2>2. ObjectTypes'
    BY <2>1, Zenon DEF ObjectInv, ObjectTypes
  <2>3. SyncInv'
    BY <2>1, SyncKept, Zenon DEF ObjectInv
  <2>4. ~raced' => MapInv'
    BY <2>1, MapKept, Zenon DEF ObjectInv
  <2>5. UniformInv'
    BY <2>1, UniformKept, Zenon DEF ObjectInv
  <2>. QED  BY <2>2, <2>3, <2>4, <2>5, Zenon DEF ObjectInv
<1>2. ASSUME NEW t \in Threads, Syncs(t) PROVE ObjectInv'
  <2>1. AtSyncs
    BY <1>2, Zenon DEF Syncs, AtSyncs, SyncAts
  <2>2. CASE glFenceSync(t)
    BY <2>1, <2>2, FenceSyncInv, Zenon
  <2>3. ASSUME NEW h \in DOMAIN sync_objects, glDeleteSync(t, h) PROVE ObjectInv'
    BY <2>1, <2>3, DeleteSyncInv, Zenon
  <2>4. ASSUME NEW h \in DOMAIN sync_objects, resolve_sync(t, h) PROVE ObjectInv'
    BY <2>1, <2>4, WaitSyncInv, Zenon
  <2>5. CASE DeleteInDriver(t)
    BY <2>1, <2>5, DeleteInDriverInv, Zenon
  <2>6. CASE WaitInDriver(t)
    BY <2>1, <2>6, WaitSyncInv, Zenon
  <2>. QED  BY <1>2, <2>2, <2>3, <2>4, <2>5, <2>6, Zenon DEF Syncs
<1>3. ASSUME NEW t \in Threads, Maps(t) PROVE ObjectInv'
  <2>1. ~raced
    BY <1>3, Zenon DEF Maps
  <2>2. ASSUME NEW a \in Accesses, find_mapping(t, a) PROVE ObjectInv'
    BY <2>1, <2>2, FindMappingInv, Zenon
  <2>3. CASE MapInDriver(t)
    <3>1. CASE Goto(t, Idle) /\ mapped' = mapped /\ heap' = heap /\ meant' = meant
      BY <2>1, <2>3, <3>1, MapFailsInv, Zenon
    <3>2. ASSUME NEW g \in FreeBlocks,
                 mapped' = mapped \cup {t}, heap' = [heap EXCEPT ![g] = Filled(t)],
                 meant' = [meant EXCEPT ![t] = Filled(t)],
                 Goto(t, [at |-> "insert", guest |-> g, access |-> pc[t].access])
          PROVE  ObjectInv'
      BY <2>1, <2>3, <3>2, MapSucceedsInv, Zenon
    <3>. QED  BY <2>3, <3>1, <3>2, Zenon DEF MapInDriver, Filled
  <2>4. CASE InsertMapping(t)
    BY <2>1, <2>4, InsertMappingInv, Zenon
  <2>5. CASE GuestWrites(t, "new")
    BY <2>1, <2>5, GuestWritesInv, Zenon
  <2>6. CASE unmap_mirrored(t)
    BY <2>1, <2>6, UnmapMirroredInv, Zenon
  <2>7. CASE UnmapInDriver(t)
    BY <2>1, <2>7, UnmapInDriverInv, Zenon
  <2>8. CASE glFlushMappedBufferRange(t)
    BY <2>1, <2>8, FlushMappedInv, Zenon
  <2>9. CASE FlushInDriver(t)
    BY <2>1, <2>9, FlushInDriverInv, Zenon
  <2>10. CASE glGetString(t)
    BY <2>1, <2>10, GetStringInv, Zenon
  <2>. QED  BY <1>3, <2>2, <2>3, <2>4, <2>5, <2>6, <2>7, <2>8, <2>9, <2>10, Zenon DEF Maps
<1>4. ASSUME NEW t \in Threads, Programs(t) PROVE ObjectInv'
  BY <1>4, ProgramsInv, Zenon DEF Programs
<1>. QED  BY <1>1, <1>2, <1>3, <1>4, Zenon DEF ObjectsNext

LEMMA ObjectInvSafe == ASSUME NullIsNothing, ObjectInv PROVE ObjectsSafe
<1>. USE DEF Null
<1>1. ObjectsTypeOK
  BY Zenon DEF ObjectInv, ObjectTypes, Contents, ObjectsTypeOK
<1>2. SyncInv /\ ObjectTypes
  BY Zenon DEF ObjectInv
<1>3. SyncTable
  <2>1. \A x : x \in Deleting <=> \E t \in Threads : pc[t].at = "delete" /\ pc[t].sync = x
    BY Zenon DEF Deleting
  <2>2. \A x : x \in Entries <=> x # "null" /\ \E i \in DOMAIN sync_objects : sync_objects[i] = x
    BY Zenon DEF Entries
  <2>3. Entries \cap Deleting = {}
    BY <1>2, <2>1, <2>2 DEF SyncInv
  <2>4. \A x \in sync_live : x # "null"
    BY <1>2, Zenon DEF ObjectTypes, NullIsNothing
  <2>5. \A x : x \in sync_live <=> x \in Entries \/ x \in Deleting
    BY <1>2, <2>1, <2>2, <2>4 DEF SyncInv
  <2>6. Entries \cup Deleting = sync_live
    BY <2>5, Zenon
  <2>. QED  BY <1>2, <2>3, <2>6, Zenon DEF SyncInv, SyncTable
<1>4. WaitsOnLive
  BY <1>2, Zenon DEF SyncInv, WaitsOnLive
<1>5. ASSUME ~raced PROVE MirrorOwned /\ WrittenBack /\ NothingLeaks
  <2>1. MapInv
    BY <1>5, Zenon DEF ObjectInv
  <2>2. ASSUME NEW t \in Threads, held[t] # "null", pc[t].at # "unmap"
        PROVE  /\ mappings # NoMapping /\ mappings.guest = held[t] /\ mappings.data = t
               /\ heap[held[t]] \notin {"free", "text"}
    <3>1. heap[held[t]] = meant[t] /\ meant[t] \in Contents
      BY <1>2, <2>1, <2>2, EntryOf, Zenon DEF ObjectTypes
    <3>2. heap[held[t]] \notin {"free", "text"}
      BY <3>1, Zenon DEF Contents
    <3>. QED  BY <2>1, <2>2, <3>2, EntryOf, Zenon
  <2>3. \A t \in Threads : held[t] = "null" /\ pc[t] = Idle => t \notin mapped /\ store[t] = meant[t]
    BY <2>1, IdleIs, Zenon DEF MapInv, MirrorGone
  <2>4. ASSUME \A t \in Threads : held[t] = "null" /\ pc[t] = Idle
        PROVE  mapped = {} /\ mappings = NoMapping /\ \A g \in GuestBlocks : heap[g] \in {"free", "text"}
    <3>1. mapped = {}
      BY <1>2, <2>3, <2>4, Zenon DEF ObjectTypes
    <3>2. mappings = NoMapping
      BY <2>1, <2>4, Zenon DEF MapInv, EntryOwned
    <3>3. \A g \in GuestBlocks : heap[g] \notin Contents
      <4>1. \A t \in Threads : pc[t].at # "insert"
        BY <2>4, IdleIs
      <4>. QED  BY <2>1, <2>4, <4>1, Zenon DEF MapInv, BlocksDistinct, NullIsNothing
    <3>4. \A g \in GuestBlocks : heap[g] \in Contents \cup {"free", "text"}
      BY <1>2, Zenon DEF ObjectTypes
    <3>. QED  BY <3>1, <3>2, <3>3, <3>4, Zenon
  <2>. QED  BY <2>2, <2>3, <2>4, Zenon DEF MirrorOwned, WrittenBack, NothingLeaks
<1>6. MirrorOwned /\ WrittenBack /\ NothingLeaks
  BY <1>5, Zenon DEF MirrorOwned, WrittenBack, NothingLeaks
<1>. QED  BY <1>1, <1>3, <1>4, <1>6, Zenon DEF ObjectsSafe, ObjectInv, UniformInv

\* For any numbers of render threads, sync objects and heap blocks: every sync handle names one
\* live driver object and none is deleted twice; a mapped pointer stays allocated, is the one the
\* thread's flush and unmap use, and what was written through it is in the buffer once it is
\* unmapped, with nothing left over, as long as no two threads were inside glMapBufferRange; and
\* the cached uniform layout is stale only where another thread linked the program again.
THEOREM ObjectsStayOwned == ObjectsSpec => []ObjectsSafe
<1>. USE ObjectsAssumption
<1>1. ObjectsInit => ObjectInv
  BY ObjectInit, Zenon
<1>2. ObjectInv /\ [ObjectsNext]_(objectVars) => ObjectInv'
  BY ObjectNext, Zenon
<1>3. ObjectInv => ObjectsSafe
  BY ObjectInvSafe, Zenon
<1>. QED  BY <1>1, <1>2, <1>3, PTL DEF ObjectsSpec
=============================================================================
