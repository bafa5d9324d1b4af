------------------------------ MODULE GuestElf ------------------------------
(***************************************************************************)
(* The ELF files of the guest: the in-place fixups of an imported library  *)
(* (core/src/elf_fixups.cpp), the size of its symbol table from the hash   *)
(* tables (core/src/elf_symbols.cpp) and the loading of an executable and  *)
(* its linker (core/src/elf_loader.cpp).                                   *)
(*                                                                         *)
(* Bytes are abstracted: a file is its dynamic table, its hash table or    *)
(* its segments in pages, with the damage each check looks for.  Dynamic   *)
(* entries are named by what the fixups make of them:                      *)
(*   path    DT_NEEDED with directories     name     DT_NEEDED basename    *)
(*   nobase  DT_NEEDED ending in a slash    textrel  DT_TEXTREL            *)
(*   flags_t DT_FLAGS with DF_TEXTREL       flags    DT_FLAGS without      *)
(*   marker  DT_ZB_TEXTREL with value 1     other    any other entry       *)
(*   marker0 DT_ZB_TEXTREL, another value                                  *)
(***************************************************************************)
EXTENDS Integers, Sequences, FiniteSets, FiniteSetsExt, SequencesExt, Functions

CONSTANTS MaxSlots,    \* slots of the dynamic table
          MaxSymbol,   \* kMaxSymbols, scaled down
          ElfPages     \* pages of the address space of a load

VARIABLES original,  \* the dynamic table of the file when the fixup starts
          table,     \* the dynamic table on disk
          writes,    \* entries still to be written: <<slot, entry>>
          status,    \* "idle", "writing", "unchanged", "changed", "skipped", "error",
                     \* "torn"
          scan,      \* a library whose exports are scanned
          phnum,     \* the library's program headers: "few" (up to 64), "many" (up to 1024)
          elf,       \* the executable of a load
          load,      \* load_elf at work on it, or on the linker
          space      \* the protection of every page; {} is a free page

elfVars == <<original, table, writes, status, scan, phnum, elf, load, space>>
loadVars == <<elf, load, space>>
fixupVars == <<original, table, writes, status, scan, phnum>>

Entries == {"path", "name", "nobase", "textrel", "flags_t", "flags", "marker", "marker0", "other",
            "null"}

-----------------------------------------------------------------------------
(* fix_guest_library.  Header checks: "skipped" files are not 32-bit ARM,   *)
(* "damaged" ones fail a check of the headers, before anything is written.  *)
Terminators(t) == {i \in DOMAIN t : t[i] = "null"}

Live(t) == IF Terminators(t) = {} THEN {} ELSE 1..(Min(Terminators(t)) - 1)

Fixed(e) == CASE e = "path" -> "name"
              [] e = "textrel" -> "marker"
              [] e = "flags_t" -> "flags"
              [] OTHER -> e

Changed(t) == {i \in Live(t) : Fixed(t[i]) # t[i]}

TextrelChanged(t) == \E i \in Live(t) : t[i] \in {"textrel", "flags_t"}

(* Whatever value a marker has that was there before.                       *)
MarkerAfter(t) == \E i \in Live(t) : Fixed(t[i]) \in {"marker", "marker0"}

NeedsSlot(t) == TextrelChanged(t) /\ ~MarkerAfter(t)

(* Mistake: the marker takes the slot before the terminator. *)
MarkerOverEntry(t) ==
    IF NeedsSlot(t) THEN <<<<Min(Terminators(t)) - 1, "marker">>>> ELSE <<>>

(* The marker takes the slot of the terminator, which moves one slot on.    *)
MarkerWrites(t) ==
    IF NeedsSlot(t) THEN <<<<Min(Terminators(t)), "marker">>, <<Min(Terminators(t)) + 1, "null">>>>
                    ELSE <<>>

(* changed_entries, in the order of the table.                              *)
Planned(t) ==
    [i \in 1..Cardinality(Changed(t)) |->
        LET at == SetToSortSeq(Changed(t), <)[i] IN <<at, Fixed(t[at])>>] \o MarkerWrites(t)

FixError(t) ==
    \/ Terminators(t) = {}
    \/ \E i \in Live(t) : t[i] = "nobase"
    \/ NeedsSlot(t) /\ Min(Terminators(t)) + 1 > Len(t)

fix_guest_library(header) ==
    /\ status = "idle" /\ original # <<>>
    /\ LET plan == Planned(table) IN
       \/ header = "foreign" /\ status' = "skipped" /\ writes' = <<>>
       \/ header = "damaged" /\ status' = "error" /\ writes' = <<>>
       \/ header = "good" /\ FixError(table) /\ status' = "error" /\ writes' = <<>>
       \/ /\ header = "good" /\ ~FixError(table)
          /\ status' = IF plan = <<>> THEN "unchanged" ELSE "writing"
          /\ writes' = plan
    /\ UNCHANGED <<original, table, scan, phnum, loadVars>>

(* write_exact of one entry; after the last fsync, which may fail.          *)
WriteEntry ==
    /\ status = "writing"
    /\ table' = [table EXCEPT ![Head(writes)[1]] = Head(writes)[2]]
    /\ writes' = Tail(writes)
    /\ status' \in IF Tail(writes) = <<>> THEN {"changed", "torn"} ELSE {"writing"}
    /\ UNCHANGED <<original, scan, phnum, loadVars>>

(* A write that fails ends the fixup with the entries before it written;    *)
(* the importer gives the staged copy up.                                   *)
WriteFails ==
    /\ status = "writing"
    /\ status' = "torn" /\ writes' = <<>>
    /\ UNCHANGED <<original, table, scan, phnum, loadVars>>

(* The importer runs the fixup again on the library it has fixed.           *)
FixAgain ==
    /\ status = "changed"
    /\ status' = "idle" /\ original' = table
    /\ UNCHANGED <<table, writes, scan, phnum, loadVars>>

(* elf_has_textrel_marker: what mmap2 asks before it maps code writable.    *)
elf_has_textrel_marker(t) ==
    /\ phnum = "few"
    /\ \E i \in DOMAIN t : t[i] = "marker" /\ \A j \in 1..i : t[j] # "null"

-----------------------------------------------------------------------------
(* The scan of the JNI exports.  A hash table has buckets, the first hashed *)
(* symbol, the symbols whose chain word ends a chain and the number of      *)
(* chain words in the file; 0 stands for a table that is refused.           *)
Starts(h) == {b \in ToSet(h.buckets) : b # 0}

(* The symbols the guest linker visits from one bucket.                     *)
Chain(h, symbol) ==
    {s \in symbol..(MaxSymbol - 1) : \A between \in symbol..(s - 1) : between \notin h.ends}

InFile(h, symbol) == symbol - h.offset < h.words

(* Every bucket is validated; only the chain of the highest is walked.      *)
gnu_symbol_count(h) ==
    LET walked == Chain(h, Max(Starts(h)))
        ends == walked \cap h.ends
    IN  IF \E b \in Starts(h) : b < h.offset \/ b >= MaxSymbol THEN 0
        ELSE IF Starts(h) = {} THEN h.offset
        ELSE IF ends = {} THEN 0
        ELSE IF InFile(h, Max(ends)) THEN Max(ends) + 1 ELSE 0

sysv_symbol_count(h) == IF h.chains <= MaxSymbol /\ h.chains <= h.words THEN h.chains ELSE 0

symbol_count(f) == IF f.sysv THEN sysv_symbol_count(f) ELSE gnu_symbol_count(f)

(* Symbol i (0 is the null symbol) has one of these names; "bad" is a name  *)
(* outside the string table, "local" any symbol that is not exported,       *)
(* "plain" an exported one that is no JNI name.                             *)
Names == {"JNI_OnLoad", "Java_f", "plain", "local", "bad"}
Wanted == {"JNI_OnLoad", "Java_f"}

Refused == <<"error">>

scan_elf32_jni_exports(f) ==
    LET count == symbol_count(f)
        seen == [i \in 1..count |-> IF i = 1 THEN "local" ELSE f.symbols[i - 1]]
    IN  IF count = 0 \/ count > Len(f.symbols) + 1 THEN Refused
        ELSE IF "bad" \in ToSet(seen) THEN Refused
        ELSE FoldLeft(LAMBDA out, n : IF n \in Wanted \ ToSet(out) THEN Append(out, n) ELSE out,
                      <<>>, seen)

Scans ==
    [sysv : {FALSE}, buckets : [1..2 -> 0..MaxSymbol], offset : {1, 2},
     ends : SUBSET (1..MaxSymbol), words : {1, MaxSymbol}, symbols : [1..2 -> Names]]
    \cup [sysv : {TRUE}, chains : 1..(MaxSymbol + 1), words : 1..MaxSymbol, symbols : [1..2 -> Names]]

NoScan == [symbols |-> <<>>]

-----------------------------------------------------------------------------
(* load_elf: segments [first, last, prot] in pages.                         *)
Pages == 1..ElfPages
Segments == {s \in [first : Pages, last : Pages, prot : {{"r"}, {"r", "w"}, {"x"}}] : s.first <= s.last}

(* The executable's segments and the page of its program headers, and the   *)
(* guest linker: one page of code.                                          *)
Executables == [segs : {{s, t} : s \in Segments, t \in Segments}, phdrs : 1..2, is_dyn : BOOLEAN]
Linker == [segs |-> {[first |-> 1, last |-> 1, prot |-> {"r", "x"}]}, phdrs |-> 1, is_dyn |-> TRUE]

(* kExecutableLimit is below kMmapLimit.                                    *)
Limit(file) == IF file = Linker THEN ElfPages ELSE ElfPages - 1

lo(file) == Min({s.first : s \in file.segs})
hi(file) == Max({s.last : s \in file.segs})
Span(file, bias) == (lo(file) + bias)..(hi(file) + bias)

(* The places of the span: find_free takes the highest for ET_DYN, which    *)
(* may not lie below lo; ET_EXEC has only its own.                          *)
Places(file) ==
    {b \in 0..ElfPages :
        /\ IF file.is_dyn THEN hi(file) + b <= Limit(file) ELSE b = 0
        /\ \A p \in Span(file, b) : p \in Pages /\ space[p] = {}}

(* "A page shared by adjacent segments gets the union of their permissions" *)
PageProt(p) ==
    UNION {s.prot : s \in {q \in load.file.segs : p - load.bias \in q.first..q.last}}

Unmapped == [p \in Pages |-> IF p \in Span(load.file, load.bias) THEN {} ELSE space[p]]

Failed == load' = [load EXCEPT !.step = "failed"]

(* The span is reserved writable and filled, unless no place is free, no    *)
(* executable segment holds the entry point or map_anon fails.              *)
Reserve ==
    /\ load.step = "map"
    /\ \/ Failed /\ UNCHANGED space
       \/ /\ Places(load.file) # {} /\ \E s \in load.file.segs : "x" \in s.prot
          /\ LET bias == Max(Places(load.file)) IN
             /\ load' = [load EXCEPT !.step = "protect", !.bias = bias, !.at = lo(load.file) + bias]
             /\ space' = [p \in Pages |-> IF p \in Span(load.file, bias) THEN {"r", "w"} ELSE space[p]]
    /\ UNCHANGED <<fixupVars, elf>>

(* One run of pages of the same protection; "Gaps must not remain mapped    *)
(* from the temporary writable reservation".  A failure unmaps the span.    *)
ProtectRun ==
    /\ load.step = "protect" /\ load.at \in Span(load.file, load.bias)
    /\ \/ Failed /\ space' = Unmapped
       \/ LET same == {p \in Span(load.file, load.bias) :
                          \A q \in load.at..p : PageProt(q) = PageProt(load.at)}
              run == {p \in same : p >= load.at}
          IN /\ space' = [p \in Pages |-> IF p \in run THEN PageProt(p) ELSE space[p]]
             /\ load' = [load EXCEPT !.at = Max(run) + 1]
    /\ UNCHANGED <<fixupVars, elf>>

(* The program headers have to be readable inside the span.                 *)
CheckHeaders ==
    LET at == load.file.phdrs + load.bias
        span == Span(load.file, load.bias)
    IN
    /\ load.step = "protect" /\ load.at \notin span
    /\ IF at \in span /\ "r" \in space[at]
       THEN load' = [load EXCEPT !.step = "loaded"] /\ UNCHANGED space
       ELSE Failed /\ space' = Unmapped
    /\ UNCHANGED <<fixupVars, elf>>

StartLoad(file) == [file |-> file, step |-> "map", bias |-> 0, at |-> 0, before |-> space]

(* Process::run loads the linker the executable names after it.             *)
LoadLinker ==
    /\ load.step = "loaded" /\ load.file = elf
    /\ load' = StartLoad(Linker)
    /\ UNCHANGED <<fixupVars, elf, space>>

NoLoad == [segs |-> {}]

-----------------------------------------------------------------------------
(* A behaviour fixes one library, or samples one scan or one load.          *)
Init ==
    /\ status = "idle" /\ writes = <<>>
    /\ \/ /\ original \in UNION {[1..n -> Entries] : n \in 1..MaxSlots}
          /\ phnum \in {"few", "many"}
          /\ scan = NoScan /\ elf = NoLoad
       \/ original = <<>> /\ scan \in Scans /\ elf = NoLoad /\ phnum = "few"
       \/ original = <<>> /\ scan = NoScan /\ elf \in Executables /\ phnum = "few"
    /\ table = original
    /\ space \in IF elf = NoLoad THEN {<<>>}
                ELSE {[p \in Pages |-> IF p \in used THEN {"used"} ELSE {}] : used \in {{}, {2}}}
    /\ load = IF elf = NoLoad THEN [step |-> "none"] ELSE StartLoad(elf)

Next ==
    \/ \E header \in {"good", "foreign", "damaged"} : fix_guest_library(header)
    \/ WriteEntry \/ WriteFails \/ FixAgain
    \/ Reserve \/ ProtectRun \/ CheckHeaders \/ LoadLinker

Spec == Init /\ [][Next]_elfVars

-----------------------------------------------------------------------------
(* The state of a fixup and its pending writes.                             *)
TypeOK ==
    /\ table \in Seq(Entries) /\ Len(table) = Len(original)
    /\ status \in {"idle", "writing", "unchanged", "changed", "skipped", "error", "torn"}
    /\ \A i \in DOMAIN writes : writes[i][1] \in DOMAIN table /\ writes[i][2] \in Entries

(* "The file is not written until the complete ELF structure has been       *)
(* validated and every requested fixup is known to fit" (elf_fixups.h): a   *)
(* library the fixup refuses or skips is untouched, and no write takes an   *)
(* entry the linker saw out of the live part of the table.                  *)
FixupIsSafe ==
    /\ status \in {"error", "skipped", "unchanged"} => table = original
    /\ \A i \in Live(original) : table[i] \in {original[i], Fixed(original[i])}

(* A finished fixup has done its work and needs no second one: every needed *)
(* name is a basename, a second run finds a valid table with nothing to     *)
(* change, and text relocations are announced by a marker.  mmap2 sees it   *)
(* if the library has at most 64 program headers, and unless the library    *)
(* brought a marker of another value along.  Both are findings:             *)
(* elf_has_textrel_marker promises to find every marker.                    *)
FixupIsComplete ==
    status = "changed" =>
        LET announced == TextrelChanged(original) \/ "marker" \in {original[i] : i \in Live(original)}
            foreign == \E i \in Live(original) : original[i] = "marker0"
        IN  /\ Changed(table) = {} /\ Planned(table) = <<>> /\ ~FixError(table)
            /\ elf_has_textrel_marker(table) => announced
            /\ announced => elf_has_textrel_marker(table) \/ phnum = "many" \/ foreign

(* A scan that succeeds misses no export: every JNI function the guest      *)
(* linker reaches from any bucket of the hash table is in the report, once, *)
(* although only one chain was walked.                                      *)
ExportsFound ==
    scan # NoScan =>
        LET report == scan_elf32_jni_exports(scan) IN
        report # Refused =>
            /\ IsInjective(report)
            /\ ~scan.sysv =>
                 \A b \in Starts(scan) : \A s \in Chain(scan, b) :
                    /\ InFile(scan, s) /\ s <= Len(scan.symbols)
                    /\ scan.symbols[s] \in Wanted => scan.symbols[s] \in ToSet(report)

(* A load maps exactly the pages of its segments or nothing: whichever step *)
(* fails, no page of the writable reservation stays behind, a finished load *)
(* leaves no gap mapped and no page with more than its segments' rights,    *)
(* and at no step does it touch a page that was in use: the linker goes     *)
(* beside the executable, if need be into its gaps.                         *)
LoadIsExact ==
    elf # NoLoad =>
        /\ load.step = "failed" => space = load.before
        /\ \A p \in Pages : load.before[p] # {} => space[p] = load.before[p]
        /\ load.step = "loaded" =>
              \A p \in Pages : load.before[p] = {} =>
                  /\ space[p] = PageProt(p)
                  /\ space[p] # {} => p \in Span(load.file, load.bias)
=============================================================================
