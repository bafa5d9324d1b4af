----------------------------- MODULE GuestMemory -----------------------------
(***************************************************************************)
(* The 4 GiB guest address space (core/src/guest_memory.cpp), the memory   *)
(* system calls over it (brk, mmap2, munmap, mprotect in                   *)
(* core/src/syscalls.cpp) and what Process keeps beside it                 *)
(* (core/src/process.cpp): which pages may become executable, which file a *)
(* page came from, which mappings wait for text relocation, and the        *)
(* translated code of every JIT.                                           *)
(*                                                                         *)
(* A page is a number; addresses inside a page and page_round_up are       *)
(* abstracted, so lengths count pages.  A system call holds mm_mutex from  *)
(* its checks to the end of invalidate(); JITs translate without it, so    *)
(* the change of the pages and the invalidation are two steps.             *)
(***************************************************************************)
EXTENDS Integers, FiniteSets

CONSTANTS TopPage,    \* pages are 1 .. TopPage; page 0 stays below kLowestAllocPage
          MmapLimit,  \* mmap_limit: the last page find_free may use
          BrkStart,   \* brk_start: the first page of the heap
          Files,      \* files a guest maps
          Foreign,    \* files guest_executable_allowed refuses
          Textrel,    \* files elf_has_textrel_marker accepts
          Prots,      \* protections a guest asks for, subsets of {"r", "w", "x"}
          Jits        \* threads_ and borrowers_

ASSUME MemoryAssumption ==
    /\ TopPage \in Nat /\ MmapLimit \in 1..TopPage /\ BrkStart \in 1..TopPage
    /\ {"anon", "none", "same"} \cap Files = {}
    /\ Foreign \subseteq Files /\ Textrel \subseteq Files \ Foreign
    /\ Prots \subseteq SUBSET {"r", "w", "x"}

VARIABLES pages,           \* pages_: the flags of each page
          host,            \* the host protection of the page in the reservation
          backing,         \* what the host kernel mapped there: a file, "anon" or "none"
          exec_eligible,   \* pages that may become executable
          file_mappings,   \* recorded file mappings
          textrel_ranges,  \* mappings still open for text relocation
          brk_current,     \* first page above the heap
          changed,         \* pages of the running system call, {} when mm_mutex is free
          cache,           \* per JIT and page: "none", "fresh" or "stale" translation
          queued           \* per JIT: pages whose invalidation its next Run() applies

vars == <<pages, host, backing, exec_eligible, file_mappings, textrel_ranges,
          brk_current, changed, cache, queued>>

Page == 1..TopPage

(* host_prot: the JIT reads guest code through host memory.                *)
HostProt(prot) ==
    (IF prot \cap {"r", "x", "w"} # {} THEN {"r"} ELSE {}) \cup (prot \cap {"w"})

Range(at, len) == at..(at + len - 1)

range_valid(at, len) == len > 0 /\ at + len - 1 <= TopPage

Free(p) == pages[p] = {}

accessible(at, len) == range_valid(at, len) /\ \A p \in Range(at, len) : ~Free(p)

range_free(at, len) == range_valid(at, len) /\ \A p \in Range(at, len) : Free(p)

(* find_free scans down from the limit: the highest free range, if any.     *)
find_free(len) ==
    LET fits == {at \in Page : at + len - 1 <= MmapLimit /\ range_free(at, len)}
    IN  {at \in fits : \A b \in fits : b <= at}

Overlaps(r, at, len) == Range(r.start, r.len) \cap Range(at, len) # {}

may_execute_range(at, len) == Range(at, len) \subseteq exec_eligible

guest_executable_allowed(f) == f \notin Foreign

(* Every page of the range gets the same flags, host protection and source; *)
(* translations made from it no longer describe it.                         *)
SetPages(at, len, prot, flags, source) ==
    LET R == Range(at, len) IN
    /\ pages' = [p \in Page |-> IF p \in R THEN flags ELSE pages[p]]
    /\ host' = [p \in Page |-> IF p \in R THEN HostProt(prot) ELSE host[p]]
    /\ backing' = [p \in Page |-> IF p \in R /\ source # "same" THEN source ELSE backing[p]]
    /\ cache' = [j \in Jits |-> [p \in Page |->
                    IF p \in R /\ cache[j][p] # "none" THEN "stale" ELSE cache[j][p]]]

(* The same, with the range to be invalidated before mm_mutex is free.      *)
SetRange(at, len, prot, flags, source) ==
    /\ SetPages(at, len, prot, flags, source)
    /\ changed' = Range(at, len)

Flags(prot) == prot \cup {"m"}

map_at(at, len, prot, source) == SetRange(at, len, prot, Flags(prot), source)

unmap(at, len) == SetRange(at, len, {}, {}, "none")

protect(at, len, prot) == SetRange(at, len, prot, Flags(prot), "same")

set_exec_eligibility(at, len, allowed) ==
    exec_eligible' = IF allowed THEN exec_eligible \cup Range(at, len)
                                ELSE exec_eligible \ Range(at, len)

KeptMappings(at, len) == {r \in file_mappings : ~Overlaps(r, at, len)}

KeptTextrel(at, len) == {r \in textrel_ranges : ~Overlaps(r, at, len)}

forget_mappings(at, len) ==
    /\ file_mappings' = KeptMappings(at, len)
    /\ textrel_ranges' = KeptTextrel(at, len)

Init ==
    /\ pages = [p \in Page |-> {}] /\ host = [p \in Page |-> {}]
    /\ backing = [p \in Page |-> "none"]
    /\ exec_eligible = Page
    /\ file_mappings = {} /\ textrel_ranges = {}
    /\ brk_current = BrkStart
    /\ changed = {}
    /\ cache = [j \in Jits |-> [p \in Page |-> "none"]]
    /\ queued = [j \in Jits |-> {}]

(* mm_mutex is free. *)
Unlocked == changed = {}

(* brk: a heap that cannot grow stays where it is (the guest sees the old   *)
(* break).  Growing invalidates nothing.  Shrinking unmaps and invalidates, *)
(* but leaves eligibility and the recorded mappings alone.                  *)
BrkGrow(want) ==
    /\ Unlocked
    /\ want > brk_current /\ want - 1 <= MmapLimit
    /\ range_free(brk_current, want - brk_current)
    /\ SetPages(brk_current, want - brk_current, {"r", "w"}, Flags({"r", "w"}), "anon")
    /\ brk_current' = want
    /\ UNCHANGED <<exec_eligible, file_mappings, textrel_ranges, changed, queued>>

BrkShrink(want) ==
    /\ Unlocked
    /\ BrkStart <= want /\ want < brk_current
    /\ unmap(want, brk_current - want)
    /\ brk_current' = want
    /\ UNCHANGED <<exec_eligible, file_mappings, textrel_ranges, queued>>

(* The address mmap2 settles on, if any.  A hint is taken when the range is *)
(* free, below the limit.                                                   *)
Placed(mode, addr, len) ==
    CASE mode = "fixed" -> {at \in {addr} : range_valid(at, len)}
      [] mode = "noreplace" -> {at \in {addr} : range_free(at, len)}
      [] mode = "hint" -> IF addr + len - 1 <= MmapLimit /\ range_free(addr, len)
                          THEN {addr} ELSE find_free(len)

(* mmap2 of a file or of anonymous memory.  A file that is not guest code   *)
(* may be mapped, but not executable (ENOEXEC); legacy code with text       *)
(* relocations is also writable until seal_textrel_ranges.                  *)
Mmap2(mode, addr, len, prot, source) ==
    LET executable_file == source = "anon" \/ guest_executable_allowed(source)
        textrel == source \in Textrel /\ "x" \in prot
    IN
    \E at \in Placed(mode, addr, len) :
    /\ Unlocked
    /\ "x" \in prot => executable_file
    /\ map_at(at, len, IF textrel THEN prot \cup {"w"} ELSE prot, source)
    /\ set_exec_eligibility(at, len, executable_file)
    /\ file_mappings' = KeptMappings(at, len) \cup
           (IF source = "anon" THEN {} ELSE {[start |-> at, len |-> len, file |-> source]})
    /\ textrel_ranges' = KeptTextrel(at, len) \cup
           (IF textrel THEN {[start |-> at, len |-> len, prot |-> prot]} ELSE {})
    /\ UNCHANGED <<brk_current, queued>>

Munmap(addr, len) ==
    /\ Unlocked /\ range_valid(addr, len)
    /\ unmap(addr, len)
    /\ set_exec_eligibility(addr, len, TRUE)
    /\ forget_mappings(addr, len)
    /\ UNCHANGED <<brk_current, queued>>

Mprotect(addr, len, prot) ==
    /\ Unlocked /\ accessible(addr, len)
    /\ "x" \in prot => may_execute_range(addr, len)
    /\ protect(addr, len, prot)
    /\ UNCHANGED <<exec_eligible, file_mappings, textrel_ranges, brk_current, queued>>

(* seal_textrel_ranges closes the relocation windows one after another and  *)
(* empties the list; it stops at the first range that is no longer mapped,  *)
(* and then keeps the list.  The order of the list is abstracted.           *)
Sealable(r) == accessible(r.start, r.len)

Covered(sealed) == UNION {Range(r.start, r.len) : r \in sealed}

OriginalProt(sealed, p) == (CHOOSE r \in sealed : p \in Range(r.start, r.len)).prot

SealTextrel == \E sealed \in SUBSET textrel_ranges :
    LET R == Covered(sealed) IN
    /\ Unlocked /\ sealed # {}
    /\ \A r \in sealed : Sealable(r)
    /\ \/ sealed = textrel_ranges /\ textrel_ranges' = {}
       \/ /\ \E r \in textrel_ranges \ sealed : ~Sealable(r)
          /\ UNCHANGED textrel_ranges
    /\ pages' = [p \in Page |-> IF p \in R THEN Flags(OriginalProt(sealed, p)) ELSE pages[p]]
    /\ host' = [p \in Page |-> IF p \in R THEN HostProt(OriginalProt(sealed, p)) ELSE host[p]]
    /\ cache' = [j \in Jits |-> [p \in Page |->
           IF p \in R /\ cache[j][p] # "none" THEN "stale" ELSE cache[j][p]]]
    /\ changed' = R
    /\ UNCHANGED <<backing, exec_eligible, file_mappings, brk_current, queued>>

(* Mistake: a second range replaces the one a JIT has not applied yet. *)
InvalidateLast ==
    /\ changed # {}
    /\ queued' = [j \in Jits |-> changed]
    /\ changed' = {}
    /\ UNCHANGED <<pages, host, backing, exec_eligible, file_mappings, textrel_ranges,
                   brk_current, cache>>

(* Process::invalidate queues the range on every JIT and mm_mutex is free.  *)
Invalidate ==
    /\ changed # {}
    /\ queued' = [j \in Jits |-> queued[j] \cup changed]
    /\ changed' = {}
    /\ UNCHANGED <<pages, host, backing, exec_eligible, file_mappings, textrel_ranges,
                   brk_current, cache>>

(* A JIT applies what is queued when Run() starts, then translates code     *)
(* through MemoryReadCode.                                                  *)
RunJit(j) ==
    /\ queued[j] # {}
    /\ cache' = [cache EXCEPT ![j] = [p \in Page |-> IF p \in queued[j] THEN "none" ELSE @[p]]]
    /\ queued' = [queued EXCEPT ![j] = {}]
    /\ UNCHANGED <<pages, host, backing, exec_eligible, file_mappings, textrel_ranges,
                   brk_current, changed>>

MemoryReadCode(j, p) ==
    /\ "x" \in pages[p] /\ cache[j][p] = "none"
    /\ cache' = [cache EXCEPT ![j][p] = "fresh"]
    /\ UNCHANGED <<pages, host, backing, exec_eligible, file_mappings, textrel_ranges,
                   brk_current, changed, queued>>

Next ==
    \/ \E want \in BrkStart..(TopPage + 1) : BrkGrow(want) \/ BrkShrink(want)
    \/ \E at \in Page, len \in 1..TopPage :
          \/ \E mode \in {"fixed", "noreplace", "hint"}, prot \in Prots,
                source \in Files \cup {"anon"} : Mmap2(mode, at, len, prot, source)
          \/ Munmap(at, len)
          \/ \E prot \in Prots : Mprotect(at, len, prot)
    \/ SealTextrel \/ Invalidate
    \/ \E j \in Jits : RunJit(j) \/ \E p \in Page : MemoryReadCode(j, p)

Spec == Init /\ [][Next]_vars

-----------------------------------------------------------------------------
(* Types of the page tables and of the records beside them.                 *)
TypeOK ==
    /\ pages \in [Page -> SUBSET {"m", "r", "w", "x"}]
    /\ host \in [Page -> SUBSET {"r", "w"}]
    /\ backing \in [Page -> Files \cup {"anon", "none"}]
    /\ exec_eligible \subseteq Page /\ changed \subseteq Page
    /\ brk_current \in BrkStart..(TopPage + 1)
    /\ cache \in [Jits -> [Page -> {"none", "fresh", "stale"}]]
    /\ queued \in [Jits -> SUBSET Page]

(* The flags the bridge checks and the protection the host enforces agree   *)
(* on every page, whatever sequence of maps, protects, seals and heap moves *)
(* led here: guest EXEC gives host READ, and unmapped pages are PROT_NONE.  *)
HostAgrees == \A p \in Page :
    host[p] = HostProt(pages[p]) /\ (Free(p) <=> backing[p] = "none")

(* Host code is never run as guest code: a page of a file that              *)
(* guest_executable_allowed refuses is never executable, neither by mmap2   *)
(* nor by a later mprotect over a range that touches it.                    *)
GuestCodeOnly == \A p \in Page : "x" \in pages[p] => backing[p] \notin Foreign

(* A JIT never keeps a translation of memory that has changed: the stale    *)
(* one is queued for removal before its next Run(), or the system call that *)
(* made it stale is still inside mm_mutex.                                  *)
StaleIsQueued == \A j \in Jits, p \in Page :
    cache[j][p] = "stale" => p \in queued[j] \cup changed

(* What a JIT takes for current it translated from a page that is still     *)
(* executable: a heap that grows, which invalidates nothing, never grows    *)
(* over a current translation.                                              *)
FreshIsExecutable == \A j \in Jits, p \in Page : cache[j][p] = "fresh" => "x" \in pages[p]

Heap == BrkStart..TopPage

(* Outside the heap, recorded mappings and open relocation windows lie on   *)
(* mapped pages of that file: crash reports name the right file, and        *)
(* seal_textrel_ranges never meets a page that is gone.                     *)
RecordsMatchMemory ==
    /\ \A r \in file_mappings : \A p \in Range(r.start, r.len) \ Heap : backing[p] = r.file
    /\ \A r \in textrel_ranges : \A p \in Range(r.start, r.len) \ Heap : backing[p] \in Textrel

(* What the page table says, what the host's mapping allows, what the JITs  *)
(* hold and what is recorded of mapped files agree, whatever calls change   *)
(* memory while guest threads run.                                          *)
MemorySafe ==
    HostAgrees /\ GuestCodeOnly /\ StaleIsQueued /\ FreshIsExecutable /\ RecordsMatchMemory
=============================================================================
