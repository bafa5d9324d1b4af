--------------------------- MODULE RuntimeReport ----------------------------
(***************************************************************************)
(* RuntimeReport and its ReportWriter (core/src/runtime_report.cpp): what  *)
(* a run of a guest leaves behind, also when the process dies.             *)
(*                                                                         *)
(* The module has two topics.  "file": threads note facts under the mutex  *)
(* of the report and run the observer after it; the observer rewrites the  *)
(* file under a mutex of its own.  A note adds a line, adds one and takes  *)
(* the oldest opened path away (the table of them has one place here), or  *)
(* moves a counter.  "tables": what the bounded tables of the report hold  *)
(* after a sequence of notes of one kind, against the whole sequence; the  *)
(* six detail tables are one kind.                                         *)
(***************************************************************************)
EXTENDS Naturals, Sequences, FiniteSets, SequencesExt

CONSTANTS Reporters,   \* threads
          MaxFacts,    \* bound: lines noted (topic "file")
          MaxNotes,    \* bound: notes made (topic "tables")
          Cap          \* the size of the table

VARIABLES
    report_topic,
    \* topic "file"
    facts,         \* the lines of the report, numbered as they come
    made,          \* how many there have been
    opened_path,   \* the one for the path in opened_paths_, or 0
    early,         \* the lines noted before set_observer
    observed,      \* set_observer was called
    reporting,     \* per thread: how far its note has come
    writer,        \* the thread that holds ReportWriter::mutex_, with the text it writes
    temporary,     \* the file path.tmp
    report_file,   \* the file
    last_,         \* when it was last written: "never", "recent" or "old"
    write_failed,  \* history: a write failed since the last good one
    dead,          \* the process died
    \* topic "tables"
    notes,         \* history: the notes made
    rows           \* the table

lines == <<facts, made, opened_path, early>>
fileVars == <<lines, observed, reporting, writer, temporary, report_file, last_, write_failed, dead>>
reportVars == <<report_topic, fileVars, notes, rows>>

Out == "out"
NoFile == [whole |-> FALSE, facts |-> {}]
NoWriter == [thread |-> "none", text |-> {}, step |-> "none"]

FileInit ==
    /\ facts = {} /\ made = 0 /\ opened_path = 0 /\ early = {} /\ observed = FALSE
    /\ reporting = [t \in Reporters |-> Out]
    /\ writer = NoWriter /\ temporary = NoFile
    /\ report_file = [whole |-> TRUE, facts |-> {}]   \* write_runtime_report_to wrote it once
    /\ last_ = "never" /\ write_failed = FALSE /\ dead = FALSE
-----------------------------------------------------------------------------
Alive == report_topic = "file" /\ ~dead
At(t, steps) == reporting[t] \in steps
Returns(t) == reporting' = [reporting EXCEPT ![t] = Out]
Rest == <<report_topic, observed, notes, rows, dead>>

(* A note_* method: the report under its mutex, then the observer it found  *)
(* there, if any.                                                           *)
Noted(t, structural) ==
    /\ Alive /\ At(t, {"out"})
    /\ reporting' = [reporting EXCEPT ![t] =
                        IF ~observed THEN "out" ELSE IF structural THEN "structural" ELSE "counter"]
    /\ UNCHANGED <<writer, temporary, report_file, last_, write_failed, Rest>>

NewLine(gone) ==
    /\ made < MaxFacts /\ made' = made + 1
    /\ facts' = (facts \cup {made'}) \ {gone}
    /\ early' = IF observed THEN early ELSE early \cup {made'}

NoteLine(t) == Noted(t, TRUE) /\ NewLine(0) /\ UNCHANGED opened_path

(* note_guest_open of a path that is not in the table: the oldest leaves.   *)
NoteOpen(t) == Noted(t, TRUE) /\ NewLine(opened_path) /\ opened_path' = made'

(* A call or a load that the full list has no room for counts as structural *)
(* although the report has no new line.                                     *)
NoteUnlisted(t) == Noted(t, TRUE) /\ UNCHANGED lines

NoteCounter(t) == Noted(t, FALSE) /\ UNCHANGED lines

(* write_runtime_report_to, after its first write.                          *)
set_observer ==
    /\ Alive /\ ~observed /\ observed' = TRUE
    /\ UNCHANGED <<lines, reporting, writer, temporary, report_file, last_, write_failed, report_topic, notes, rows, dead>>

(* last_ starts at the least time there is, and the time since then cannot  *)
(* be represented: until the first write the answer may be either.          *)
Throttled(t) ==
    At(t, {"counter"}) /\ (last_ = "recent" \/ last_ = "never")

(* ReportWriter::operator(): the interval is kept for counters only.        *)
ObserveSkip(t) ==
    /\ Alive /\ At(t, {"structural", "counter"}) /\ writer = NoWriter
    /\ Throttled(t)
    /\ Returns(t)
    /\ UNCHANGED <<lines, writer, temporary, report_file, last_, write_failed, Rest>>

Text(t) == facts

ObserveWrite(t) ==
    /\ Alive /\ At(t, {"structural", "counter"}) /\ writer = NoWriter
    /\ ~Throttled(t) \/ last_ = "never"
    /\ last_' = "recent"
    /\ writer' = [thread |-> t, text |-> Text(t), step |-> "open"]
    /\ reporting' = [reporting EXCEPT ![t] = "writing"]
    /\ UNCHANGED <<lines, temporary, report_file, write_failed, Rest>>

WriterAt(step) == Alive /\ writer.step = step

(* write_now: the temporary is truncated, written, synced and renamed over  *)
(* the file.                                                                *)
WriteOpen ==
    /\ WriterAt("open") /\ temporary' = [whole |-> FALSE, facts |-> {}]
    /\ writer' = [writer EXCEPT !.step = "write"]
    /\ UNCHANGED <<lines, reporting, report_file, last_, write_failed, Rest>>

WriteText ==
    /\ WriterAt("write") /\ temporary' = [whole |-> TRUE, facts |-> writer.text]
    /\ writer' = [writer EXCEPT !.step = "rename"]
    /\ UNCHANGED <<lines, reporting, report_file, last_, write_failed, Rest>>

(* Mistake: the rename does not wait for the text.                          *)
RenameAny == writer.step \in {"write", "rename"}

RenameReady == writer.step = "rename"

WriteRename ==
    /\ Alive /\ RenameReady
    /\ report_file' = temporary /\ temporary' = NoFile
    /\ write_failed' = FALSE
    /\ Returns(writer.thread) /\ writer' = NoWriter
    /\ UNCHANGED <<lines, last_, Rest>>

(* Any of the steps fails: no file is left, the note is not tried again.    *)
WriteFails ==
    /\ Alive /\ writer # NoWriter
    /\ temporary' = NoFile /\ write_failed' = TRUE
    /\ Returns(writer.thread) /\ writer' = NoWriter
    /\ UNCHANGED <<lines, report_file, last_, Rest>>

Tick ==
    /\ Alive /\ last_ = "recent" /\ last_' = "old"
    /\ UNCHANGED <<lines, reporting, writer, temporary, report_file, write_failed, Rest>>

(* The process dies where it stands.                                        *)
Die ==
    /\ Alive /\ dead' = TRUE
    /\ UNCHANGED <<report_topic, lines, observed, reporting, writer, temporary, report_file, last_,
                   write_failed, notes, rows>>

FileNext ==
    \/ \E t \in Reporters : \/ NoteLine(t) \/ NoteOpen(t) \/ NoteUnlisted(t) \/ NoteCounter(t)
                            \/ ObserveSkip(t) \/ ObserveWrite(t)
    \/ set_observer
    \/ WriteOpen \/ WriteText \/ WriteRename \/ WriteFails \/ Tick \/ Die
-----------------------------------------------------------------------------
Kinds == {"opened", "details", "hostcalls", "loads", "first", "threads", "natives"}
Keys == {"a", "b", "c"}
Notes(kind) ==
    CASE kind = "details" -> Keys \X {1, 2} \X BOOLEAN
      [] kind = "threads" -> {"current", "gl"} \X Keys
      [] kind = "loads" -> {"loaded", "failed"}
      [] OTHER -> Keys
RowsInit(kind) ==
    CASE kind = "hostcalls" -> [list |-> <<>>, distinct |-> 0, total |-> 0]
      [] kind = "loads" -> [list |-> <<>>, loaded |-> 0, failed |-> 0]
      [] kind = "threads" -> [current |-> <<>>, gl |-> <<>>]
      [] kind = "natives" -> [list |-> <<>>, overflow |-> 0]
      [] OTHER -> <<>>

Where(list, key) == SelectInSeq(list, LAMBDA row : row[1] = key)

Moved(path) == Append(SelectSeq(rows, LAMBDA p : p # path), path)

(* note_guest_open: distinct paths, the last ones opened.                   *)
note_guest_open(path) ==
    LET longer == Moved(path) IN IF Len(longer) > Cap THEN Tail(longer) ELSE longer

(* note_gl_detail and its five siblings: a known key keeps its first value  *)
(* or takes the last one; a new one is dropped when the table is full.      *)
note_detail(n) ==
    LET i == Where(rows, n[1]) IN
    IF i # 0 THEN IF n[3] THEN [rows EXCEPT ![i][2] = n[2]] ELSE rows
    ELSE IF Len(rows) >= Cap THEN rows ELSE Append(rows, <<n[1], n[2]>>)

note_unimplemented_host_call(index) ==
    LET i == Where(rows.list, index) IN
    [list |-> IF i # 0 THEN [rows.list EXCEPT ![i][2] = @ + 1]
              ELSE IF Len(rows.list) < Cap THEN Append(rows.list, <<index, 1>>) ELSE rows.list,
     distinct |-> IF i # 0 THEN rows.distinct ELSE rows.distinct + 1,
     total |-> rows.total + 1]

(* note_proxy_loaded and note_proxy_failed share a list; note_jni_onload    *)
(* and note_guest_open_failed are the same with a list of their own.        *)
note_load(result) ==
    [rows EXCEPT !.list = IF Len(@) < Cap THEN Append(@, result) ELSE @, ![result] = @ + 1]

(* note_guest_exit, note_gl_call, note_gl_egl_context, note_gl_error,       *)
(* note_egl_error.                                                          *)
note_first(reason) == IF rows = <<>> THEN <<reason>> ELSE rows

(* note_egl_current and note_gl_thread.                                     *)
note_thread(n) ==
    IF Contains(rows[n[1]], n[2]) \/ Len(rows[n[1]]) >= Cap THEN rows
    ELSE [rows EXCEPT ![n[1]] = Append(@, n[2])]

(* A call of a native method through the counter native_call_counter gave   *)
(* when it was bound.                                                       *)
CountNative(name) ==
    LET i == Where(rows.list, name) IN
    IF i = 0 /\ Len(rows.list) >= Cap THEN [rows EXCEPT !.overflow = @ + 1]
    ELSE IF i = 0 THEN [rows EXCEPT !.list = Append(@, <<name, 1>>)]
    ELSE [rows EXCEPT !.list[i][2] = @ + 1]

Note(n) ==
    /\ report_topic \in Kinds /\ Len(notes) < MaxNotes
    /\ notes' = Append(notes, n)
    /\ rows' = CASE report_topic = "opened" -> note_guest_open(n)
                 [] report_topic = "details" -> note_detail(n)
                 [] report_topic = "hostcalls" -> note_unimplemented_host_call(n)
                 [] report_topic = "loads" -> note_load(n)
                 [] report_topic = "first" -> note_first(n)
                 [] report_topic = "threads" -> note_thread(n)
                 [] report_topic = "natives" -> CountNative(n)
    /\ UNCHANGED <<report_topic, fileVars>>

Init ==
    /\ FileInit /\ notes = <<>>
    /\ \/ report_topic = "file" /\ rows = <<>>
       \/ \E kind \in Kinds : report_topic = kind /\ rows = RowsInit(kind)

Next == FileNext \/ \E n \in Notes(report_topic) : Note(n)
-----------------------------------------------------------------------------
(* The type of the state.                                                   *)
TypeOK ==
    /\ made \in 0..MaxFacts /\ facts \subseteq 1..made /\ early \subseteq 1..made /\ opened_path \in facts \cup {0}
    /\ \A t \in Reporters : reporting[t] \in {"out", "structural", "counter", "writing"}
    /\ writer = NoWriter \/ writer.thread \in Reporters
    /\ report_file.facts \subseteq 1..made /\ temporary.facts \subseteq 1..made
    /\ last_ \in {"never", "recent", "old"} /\ Len(notes) <= MaxNotes

(* The file is a whole report whenever the process dies: the text is        *)
(* written aside and renamed (ReportWriter::write_now).                     *)
FileWhole == report_file.whole

(* Once every thread is back from its note the file holds the lines of the  *)
(* report and no others, unless the last write failed: "structural changes  *)
(* are written at once", whichever thread writes last.  Only a line noted   *)
(* between the first write and set_observer waits for the next note.        *)
FileCurrent ==
    ((\A t \in Reporters : reporting[t] = Out) /\ ~write_failed) =>
        /\ facts \ early \subseteq report_file.facts
        /\ last_ # "never" => report_file.facts = facts

(* A line that is in the file stays in it, unless the report itself has     *)
(* dropped it (note_guest_open): an older text never replaces a newer one,  *)
(* because it is rendered under the writer's mutex.                         *)
FileKeeps == [][report_file.facts \cap facts \subseteq report_file'.facts]_reportVars

Seen(ns) == {ns[i] : i \in DOMAIN ns}
LastOf(n) == SelectLastInSeq(notes, LAMBDA x : x = n)

(* The opened paths are the last distinct ones, in the order of their last  *)
(* opening.                                                                 *)
OpenedAreLast ==
    report_topic = "opened" =>
        /\ Cardinality(Seen(rows)) = Len(rows)
        /\ Len(rows) = IF Cardinality(Seen(notes)) < Cap THEN Cardinality(Seen(notes)) ELSE Cap
        /\ \A i, j \in DOMAIN rows : i < j => LastOf(rows[i]) < LastOf(rows[j])
        /\ \A p \in Seen(notes) \ Seen(rows) : \A i \in DOMAIN rows : LastOf(p) < LastOf(rows[i])

FirstOf(key) == SelectInSeq(notes, LAMBDA x : x[1] = key)
ValueOf(key) ==
    LET last == SelectLastInSeq(notes, LAMBDA x : x[1] = key /\ x[3]) IN
    notes[IF last > FirstOf(key) THEN last ELSE FirstOf(key)][2]

(* A detail table holds the first keys noted, each with its first value or  *)
(* the last one that was to overwrite it; a later key leaves no trace.      *)
DetailsAreFirst ==
    report_topic = "details" =>
        LET keys == {n[1] : n \in Seen(notes)} IN
        /\ \A i \in DOMAIN rows : rows[i][2] = ValueOf(rows[i][1])
        /\ \A i \in DOMAIN rows, k \in keys \ {rows[j][1] : j \in DOMAIN rows} : FirstOf(rows[i][1]) < FirstOf(k)
        /\ Len(rows) = IF Cardinality(keys) < Cap THEN Cardinality(keys) ELSE Cap

(* The totals and the lines add up: the calls listed are exact, and the     *)
(* number of distinct calls is theirs plus one for each call, repeated or   *)
(* not, that found the list full.  It says how many distinct calls there    *)
(* were only while the list has room.  The first reason is kept.            *)
TotalsAgree ==
    /\ report_topic = "hostcalls" =>
         LET listed == {rows.list[i][1] : i \in DOMAIN rows.list} IN
         /\ rows.total = Len(notes)
         /\ \A i \in DOMAIN rows.list : rows.list[i][2] = Len(SelectSeq(notes, LAMBDA n : n = rows.list[i][1]))
         /\ Cardinality(listed) = IF Cardinality(Seen(notes)) < Cap THEN Cardinality(Seen(notes)) ELSE Cap
         /\ rows.distinct = Cardinality(listed) + Len(SelectSeq(notes, LAMBDA n : n \notin listed))
    /\ report_topic = "loads" =>
         /\ rows.loaded + rows.failed = Len(notes) /\ IsPrefix(rows.list, notes)
         /\ rows.failed = Len(SelectSeq(notes, LAMBDA n : n = "failed"))
    /\ report_topic = "first" /\ notes # <<>> => rows = <<notes[1]>>

Mismatch == {t \in Seen(rows.gl) : ~Contains(rows.current, t)}

(* A thread is reported as drawing without a context (egl-thread-mismatch)  *)
(* only if it never made one current, while the list of those that did is   *)
(* not full.                                                                *)
MismatchTrue ==
    report_topic = "threads" /\ Len(rows.current) < Cap =>
        \A t \in Mismatch : ~Contains(notes, <<"current", t>>)

(* Each native method that has a counter has exactly its own calls in it;   *)
(* the calls of the methods that came too late share the overflow.          *)
NativesExact ==
    report_topic = "natives" =>
        LET named == {rows.list[i][1] : i \in DOMAIN rows.list} IN
        /\ \A i \in DOMAIN rows.list : rows.list[i][2] = Len(SelectSeq(notes, LAMBDA n : n = rows.list[i][1]))
        /\ rows.overflow = Len(SelectSeq(notes, LAMBDA n : n \notin named))
=============================================================================
