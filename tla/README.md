# A TLA+ verification of ZettaBridge

ZettaBridge runs the 32-bit ARM native code of an Android app inside a 64-bit
process. The C++ core translates guest code with the Dynarmic JIT, emulates the
guest's kernel interface, and carries calls between guest code and the host's
JNI, looper, window and GL interfaces. A Java launcher imports APKs as plugins
and runs them in its `:guest` process. A converter and a root manager turn APKs
into installed apps.

This directory models the parts of the system that keep state: threads,
signals, memory, handles, locks, files, and the order of the steps on them. It
also models the conversions that do arithmetic or parsing, each checked against
a reference definition. Instruction translation, what a host function computes,
and text formatting are left out.

`PROJECT.json` is the index: components, runs, mutants, the map from each
definition to the source lines it models, findings, hazards and theorems.

## How to run

    tlc -config GuestKernel.cfg MCGuestKernel       # any run of PROJECT.json
    tlapm GuestThreadProofs.tla                     # any *Proofs module

A run with `expect: violation` is meant to fail. It checks one sentence of the
repository's documentation or comments that the code does not keep.

A *mutant* is a definition marked "Mistake" in a comment. It is a plausible bug
in one definition. Each property has one, and fails when it is put in place.

Where a component promises several things that belong together, its module
states each as an operator of its own, and the run checks their conjunction with
the type invariant under one name (`WindowsSafe`, `MirrorsSafe`, ...). The
sections below name the run's property first and its parts after it.

Several components share a run. Their `MC` module chooses one of them in the
initial state (`part` or `table`) and leaves the others alone. This is sound
because these components share no variables. An `MC` module EXTENDS the
components that have theorems, so that run and theorem are about the same
definition, and instantiates the others; where two extended modules would have
the same name for their initial states, next-state relation, specification or
type invariant, the component is in the name (`BitmapInit`, `TargetNext`).

## The guest runtime

### Host signals (`SignalTarget`)

`core/src/signals.cpp` forwards host signals to guest threads without a lock. A
handler uses the thread-local `t_current_thread`, or else the process-wide
`g_process_signal_target`. In that case it first counts itself as a reader.
A guest thread that ends is unnamed, taken out of the published pointer, and
freed only after the readers have left.

- State: per host thread, the stack of nested handlers and the step of each; the
  thread-locals; the published pointer; the reader counter; which `GuestThread`
  addresses are alive.
- Actions: the steps of `forward_host_signal` (`Enter`, `Load`, `Post`,
  `Leave`), of `Process::run`, `clone_thread` and `thread_main`, and of
  `clear_process_signal_target`.
- Checked: no handler holds a freed thread (`HeldThreadAlive`), and the reader wait
  ends (`ClearReturns`). Proved as well: nothing that a later handler can find is
  freed (`NamedThreadAlive`).
- Abstracted: all atomics are seq_cst, so steps interleave. Which signal it is
  and the signal's payload do not matter.

### Library mode (`LibraryRuntime`)

The guest executable `zbhost` sits in a host call and serves a command queue. A
Java thread that wants to run guest code *borrows*: it has the service spawn a
carrier thread, leases a parked carrier, builds a JIT (the borrower) under the
carrier's identity, and later releases it. The carrier then exits.

- State: the queue and promises, the service's step, every client's and
  carrier's step, carrier records (`Available`, `Leased`, `Released`, listed or
  not), park tokens, pending signals, free processor ids, the process state.
- Actions: one per critical section of `Impl::mutex` or per atomic step between
  two of them; a guest call that returns, fails or ends the process.
- Checked: `LeaseSafe`, `CarrierForEveryWaiter`, `NothingLost` (`AnsweredOnce`,
  `IdsConserved`, `FinishedIsQuiet`); under fairness `CommandsAnswered`, `BorrowWoken`,
  `ReleasedExits`, `SignalsDelivered`.
- `BorrowWoken` does not say that a borrow gets a carrier. Another borrow may
  overtake it again and again; only the 10 s timeout bounds that.
- Two windows the model has and no property forbids: a `tkill` between the lease
  and the listing of the borrower (`TkillCarrier`), and a host signal that lands
  on the carrier's host thread before it notices the lease (`HostSignal`). Both
  go to the parked carrier and wait there for the release.

### Guest kernel (`GuestMemory`, `GuestSignals`, `GuestSyscalls`, `GuestElf`)

- `GuestMemory`: the page table, `brk`, `mmap2`, `munmap`, `mprotect`, the
  sealing of text relocations, the records of mapped files, and the translations
  of each JIT. A call holds `mm_mutex` from its checks to the end of the
  invalidation. JITs translate without it, so a change and its invalidation are
  two steps. `brk` grows without an invalidation; its fresh pages overwrite
  nothing that a JIT still takes for current (`FreshIsExecutable`). Checked:
  `MemorySafe`, that is `HostAgrees` (page flags and host protection agree),
  `GuestCodeOnly`, `StaleIsQueued`, `FreshIsExecutable` and
  `RecordsMatchMemory`. The last one leaves out the heap: `sys_brk` shrinks
  without telling the records.
- `GuestSignals`: one guest thread between two stops of its JIT, with frames on
  two stacks, `sigreturn`, faults, nested calls from the host, and other threads
  that post signals. Checked: `SignalsSafe` (`MaskBalanced`, `NoReentry`,
  `NoFrameLost`, `PostedIsHeard`).
- `GuestSyscalls`: each remaining call as a *shape*, which says what buffers it
  checks before the host call and what it copies back after it, while other
  threads change the mapping. Checked: `SyscallsSafe`. A call that answers an error
  consumed and created nothing (`ErrorsAreClean`; timers, seeks and `wait4` act
  before they copy, as in Linux), one that succeeds has written all it answers
  through (`AnswersComplete`), and the conversions of control messages and
  `sysinfo` keep their meaning (`ControlRoundTrip`, `RoomForControl`, `UnitFits`).
  A sent list of control messages may end in a malformed header.
- `GuestElf`: the in-place fixups of an imported library entry by entry, with
  writes that may fail; the symbol count from either hash table; a load step by
  step (headers, reservation, protection of each segment, the linker after the
  executable), each of which may fail. Checked: `ElfSafe` (`FixupIsSafe`,
  `FixupIsComplete`, `ExportsFound`, `LoadIsExact`).

## The JNI bridge

### References (`JniHandles`, `JniRefs`, `LocalHandles`, `GlobalHandles`)

The guest sees 32-bit handles for ART references. A handle packs a slot and the
slot's serial; a slot whose serial would wrap is retired.

- `JniHandles` holds what the two kinds of table have in common: the limits and
  the shape of a handle.
- `JniRefs` is the abstract table: a handle is fresh, then names one reference,
  then is dead for good. `LocalHandles` (slots, serials, frame starts, the
  retired prefix) refines it for as long as a thread keeps its table
  (`ImplementsRefs`).
- `GlobalHandles` is shared by threads. The table and ART are updated in two
  steps. Checked: every host reference has one owner (`HostRefsOwnedOnce`). Proved
  as well: the free list is exact and stale handles stay stale
  (`StaleStaysStale`).
- Finding `jni_stale` (`StaleNeverValid`): `DetachCurrentThread` replaces the
  thread's table (`Detach`), so its serials restart and a dead local handle
  becomes valid again, although `jni_handles.h` excludes that "during the
  process lifetime".

### Calls (`JniFrames`, `JniNatives`, `JniIds`, `JniMirrors`)

- `JniFrames`: one host thread that runs Java and guest code in turn.
  `call_native`, `PushLocalFrame`, `PopLocalFrame`, attach and detach, with
  their failures. Checked: `FramesSafe`. Every handle names a live reference
  (`HandlesAlive`), both sides' frames stay in step (`FramesBalanced`), Java
  gets the object the native returned (`ResultReceived`), a pending exception
  survives (`ExceptionKept`), and no guest `JNIEnv` leaks (`GuestEnvFreed`).
- `JniNatives`: thunk slots, `RegisterNatives`, `JniLoader::load` with every
  failure, and the dispatch of a call. Checked: `NativesSafe`
  (`ThunksDispatch`, `SlotsConserved`, `LoadComplete`).
- `JniIds`: method ids and their shorties, kept under two mutexes. Checked:
  `IdsSafe` (`IdsResolve`, `OneIdPerMethod`).
- `JniMirrors`: direct buffers mirrored in guest memory. The check of the cap
  and the insertion are two critical sections. Checked: `MirrorsSafe`
  (`MirrorsCounted`, `OneMirror`, `FlushExact`; `CapPassedByRace`: the cap is
  passed only by threads that meet between the sections; `BlocksLeft`: a guest
  block is lost only by the thread that comes second for one buffer).

### Conversions (`JniMarshal`, `JniNames`)

- `JniMarshal`: arguments and results of natives, `jvalue`s of Java calls and
  fields. A machine word has a few bits, so every content is tried. Checked:
  `ValuesArrive` (`ArgsArrive`, `ResultArrives`, `ValuesSurvive`).
- `JniNames`: mangled exports, signatures and reflected descriptors. Checked:
  `NamesExact` (`NamesRoundTrip`, `OnlyCanonical`, `ShortyExact`,
  `ReflectedExact`).

### Proxy loading (`ProxyRuntime`)

ART loads a small proxy library in place of each 32-bit library. The proxy
calls `ProxyRuntime::on_proxy_loaded`, which starts the guest runtime once,
loads the guest library, and memoizes the outcome. `JNI_OnLoad` of the guest
library runs on the calling thread and may load further libraries, so the model
gives each thread a stack of frames.

- Actions: activation; the critical sections of `on_proxy_loaded` between its
  waits and unlocks; the return of `engine_.start` and `engine_.load`, with
  either outcome.
- Checked, in the run `runtime_live`: `AnswersAgree` (each thread is told the library's outcome) and
  `LoadsReturn`. Proved as well: `AtMostOnce` (one start, one load of each
  library), `OutcomesFinal`, and `LoadsInRuntime` (guest code runs only for the
  active plugin, after the start, in the owner of the entry).
- `LoadsReturn` assumes that `JNI_OnLoad`s do not load each other in a circle.
  Two threads that load two such libraries wait for each other for ever. The
  safety properties are proved without that assumption.

## Graphics (`GlArrays`, `GlMarshal`, `GlObjects`, `GlDiagnostics`, `HostEgl`)

- `GlArrays`: the bridge holds client arrays back and gives them to the driver,
  translated, at a draw. The model runs the same calls on a 32-bit driver beside
  it. Checked: `DrawsAsNative`. Finding `graphics_indices`
  (`IndicesFollowBinding`): after
  `glDeleteBuffers` of the bound element array buffer, or a
  `glBindVertexArray`, the bridge decides by an old binding whether indices are
  a pointer or an offset.
- `GlMarshal`: the extent of pixel images against what the driver touches under
  the layout set by `glPixelStorei`, guest strings, and EGL attribute lists.
  Checked: `MarshalExact` (`PixelsInBounds`, `StringsExact`, `AttribsExact`).
- `GlObjects`: sync objects, mirrors of mapped buffers, cached uniform layouts,
  under two threads. Checked: `ObjectsSafe` (`SyncTable`, `WaitsOnLive`,
  `MirrorOwned`, `WrittenBack`, `NothingLeaks`, `UniformsFresh`).
- `GlDiagnostics`: what the visibility diagnostics capture and when, the errors
  they borrow from the guest, the shadow of uniform buffers. Checked:
  `DiagnosticsSafe` (`ErrorsKept`, `NothingBetweenDraws`, `CapturesBounded`,
  `TalliesAgree`, `UnionIsHull`, `RegionCovers`, `ShadowTrue`).
- `HostEgl`: handles and their classes, pending errors, driver strings, missed
  names of `eglGetProcAddress`. Checked: `EglSafe` (`HandlesName`,
  `ClassChecked`, `ErrorsDelivered`, `OneCopy`, `MissesInOrder`).

Some of these properties name an exception in their comment, for example two
threads that map one target at the same time. A history variable (`raced`,
`mixed`, `overlapped`, `reused`) records that it happened, and the property
makes no claim after that. These are the places where the code lets go of a
lock between a look and its use, or keeps an entry that nobody removes. Where a
comment of the code promises more, the exception is a finding (below).

## Platform services

- `HostNativeWindow`: references, `lock` and `unlockAndPost` of windows by two
  threads. Checked: `WindowsSafe` (`WindowAlive`, `ReferencesConserved`,
  `FrameHeld`, `BlocksOwned`, `ReservationEnds`).
- `HostBitmap`: `lockPixels` with its failures and what they undo, and
  `unlockPixels`. Checked: `BitmapsSafe`
  (`LocksPaired`, `CopiesPaired`, `DrawingsKept`).
- `HostInput`: the input queue, the worker that watches it, the looper it is
  attached to, and the arguments of getters. Checked: `InputSafe`
  (`ReadinessKept`, `WorkerOnQueue`, `EventsAccounted`, `OneLooper`,
  `IndicesInRange`).
- `HostAssets`: assets, directories, descriptors and configurations. A call that
  copies to the guest runs the guest's allocator under the recursive mutex, and
  the allocator may make asset calls of its own (`copying` is the stack of such
  calls). Checked: `AssetsSafe` (`BufferCurrent`, `BudgetKept`,
  `NothingStranded`).

### Loopers (`HostLooper`)

A guest thread's `ALooper` is polled by `ALooper_pollOnce`. The looper of a
thread that came from Java is *attached*: its descriptors are handed to the
Android looper of the host thread, whose callbacks enter the guest.

- State: the table of registrations and bindings, named by their serials; what
  the real looper holds; the wake eventfd; ready descriptors; the poll's
  snapshot; for each thread, the half of `add_fd` or `remove_fd` that follows
  the unlock (`call`).
- Actions: `prepare`, the two halves of `add_fd` and `remove_fd`, `wake`, the
  steps of `poll_once`, of `dispatch_attached` and of the real looper
  (`Fires` and `Unregister`, external), and the results of a callback, which may
  itself add and remove descriptors.
- Checked: `RegisteredIsPolled` (table, binding and real looper agree),
  `RegistrationsKept` (`RegistrationKept`: a new registration survives the end of
  an old one; `NoStaleDispatch`), and `ReadyServed` (no event is lost).
- `overlapped` records that two threads changed one descriptor at the same
  time. The real looper may then be told in the wrong order and keep a retired
  binding. `RegisteredIsPolled` and `ReadyServed` make no claim after that.
- Abstracted: kinds of events, the ident's answer, and a `pollOnce` inside a
  callback. `active` is read as it is at that moment (the code reads it relaxed).

### Report and watchdog (`RuntimeReport`, `HangWatchdog`)

- `RuntimeReport`: notes of several threads, the throttled writer with its
  temporary file, kills and I/O errors, and the bounded tables. Checked:
  `ReportSafe` (`FileWhole`, `FileCurrent`, `FileKeeps`, `OpenedAreLast`,
  `DetailsAreFirst`, `TotalsAgree`, `MismatchTrue`, `NativesExact`).
- `HangWatchdog`: guest threads write lock-free slots field by field while the
  sampler reads them. Checked: `WatchSafe` (`SlotOwned`, `CounterExact`,
  `StuckTrue`) and `HangReported`: the notes of a thread that stops for good
  reach the report, unless the report's list is full. The census of threads,
  which goes out with the first note, shares that list.

## Installing and importing

### Installing the runtime (`RuntimeInstall`)

The bootstrap's `RuntimeInstaller` and the launcher's `RuntimeBundle` copy the
runtime into a staging directory, write a marker, and swap directories by
renames. The constant `FileLocked` chooses between the two.

- State: the three directories as sets of (file, version), the marker included;
  the lock; the step of every process; the version of the installed app.
- Environment: a process dies at any step, an I/O step throws, the app is
  updated and started again.
- For the bootstrap, `InstallsRecover` is checked: `PublishedComplete` and
  `StaysInstalled` always, and every process ends with the runtime in place. For
  the launcher `OneVersion` is checked, as a part of `LauncherSafe`. The three
  safety properties are proved.
- Finding `runtime_bundle` (`RequiredPublished`): the launcher's two processes share no lock. One can
  delete files that the other has verified and is about to publish.

### The plugin store (`PluginStore`)

Import of an APK over an installed plugin, launches, data written by the
plugin, and deletion.

- State: `target`, `staging` and `backup` as sets of parts (program, record,
  data), the step of the import or deletion, the running plugin.
- Environment: I/O errors, death of the launcher, starts from a shortcut.
  `deleteRecursive` removes parts one by one in any order. Its own failures,
  which the code ignores, are left out.
- Checked: `ImportsSafe`, the other part of `LauncherSafe`: `ImportKeeps`,
  `PublishedWhole` and `DataLostOnly`. `ImportKeeps` makes no claim about an
  import during which the plugin was started, nor that a failed one is undone
  when setting the old plugin aside, putting it back or reading the published
  record failed. It speaks of one import and of the plugin's own directory;
  `DataLostOnly` speaks of all of them, with the backup of an import that
  crashed, and names the two deletions that can take the user's last copy.
- Finding `plugin_import_error` (`DataKept`): when the rename that sets the old plugin aside
  fails, the recovery code deletes that plugin and its data.
- Finding `plugin_import_crash` (`DataKept`): when the launcher dies between the
  renames, the data is in the backup alone, and the next import starts by
  deleting the backup.

## Findings

`PROJECT.json` quotes the sentence of the repository beside each. Five are shown
by a run of their own that TLC refutes: `graphics_indices`, `jni_stale`,
`runtime_bundle`, `plugin_import_error` and `plugin_import_crash`. The others are
exceptions that a property of a passing run has to name. Without its exception
the property fails.

| Property | Exception | What the code promises |
|---|---|---|
| `FixupIsComplete` in `ElfSafe` | more than 64 program headers, or a marker of another value | `elf_has_textrel_marker` finds every marker |
| `PixelsInBounds` in `MarshalExact` | a row length, an image height or skips | the whole image is checked |
| `NothingBetweenDraws` in `DiagnosticsSafe` | after a refused draw | captures are freed right after the comparison |
| `ErrorsKept` in `DiagnosticsSafe` | after two threads have met at the shared pending error | the guest's error is not consumed |
| `OneCopy` in `EglSafe` | calls that overlap before the first copy is entered | one guest copy of a string |
| `HandlesName`, `ClassChecked` in `EglSafe` | after an address came back as an object of another class | a handle is refused for another class only |
| `CapPassedByRace`, `BlocksLeft` in `MirrorsSafe` | threads that mirror at the same time | mirrored bytes are capped |
| `HangReported` | the report's list of notes is full | `sample` returns true when it wrote a note |
| `AssetsSafe` | asset calls made by the allocator inside a copy | the mutex covers the lifetime of a buffer |
| `TotalsAgree` in `ReportSafe` | the list of unimplemented calls is full | a repeated call is a counter only |

## Runs and bounds

Every passing run explores its state space completely. Bounds are constants of
the modules and are named in the `MC` modules and the `.cfg` files.

| Run | Instance | Why it is enough |
|---|---|---|
| `guest_kernel` | memory: 3 pages, a file with text relocations and a foreign one, 1 JIT; signals: 2 signals, 2 stacks of 2 slots, 1 nested call; 1 system call against a changing mapping; tables of 4 dynamic entries, 4 symbols, 4 pages of address space for an executable and its linker; forwarding: 2 host threads, 2 addresses, 3 nested handlers | a call that spans two mappings and one that leaves a hole; a handler inside a handler on each stack; one host thread retires and starts again at the same address while handlers nest on the other |
| `library_runtime` | 2 borrowers, 2 carriers, 3 ids, signals at one carrier | overtaking, a late carrier of a timed-out borrow, id exhaustion, a signal at every step of a lease |
| `runtime_live` | proxies: 3 threads, 2 proxies of one plugin and another plugin, nested and recursive loads; library mode: 1 borrower, 2 carriers, without signals and 3 ids, then with signals at the service and one carrier and 2 ids | a waiter for an entry, one for the start, a failure that wakes both; every wakeup has a waker and a sleeper; the borrower finds no id |
| `jni_handles` | 2 threads, 3 references, 3 slots, serials below 2, 3 frames; 2 nested native calls; 2 thunk slots; 3 buffers of which 2 overlap; shorties up to 7 letters | full tables, reuse, retirement in the middle and at the end, crossing calls; arguments that pass from registers to the stack at every alignment; every escape of a mangled name |
| `host_live` | installer: 2 processes, 2 files, 2 versions, 3 faults; looper: 1 owner of either kind, 1 other thread, 2 descriptors, 2 registrations; watchdog: 2 threads for 1 slot, 2 records each, a list of 3 notes | a crash during the recovery from a crash; a re-registration during the callback of the old one, two descriptors in one poll; a race for the last slot, a list that a census fills |
| `host_services` | windows, bitmaps, input, report, watchdog: 2 threads each, tables of 2 or 3 entries; assets: 2 addresses, 2 copies, one nested in the other; launcher: 2 processes, 1 fault; plugin store: 2 versions, 2 errors, 1 crash | each table one entry beyond its limit; an error in the import after a crash, one in its undoing |
| `graphics` | 2 threads; 1 buffer, 2 pointers, 2 indices; images up to 3 by 3; strings and lists over 3 pages; 3 sync objects; 2 draws, 3 uploads; 2 addresses and 2 handles | the reuse of a slot, of an address and of a block while a call is under way; every alignment of a list to its page |
| `runtime_bundle`, `plugin_import_error`, `plugin_import_crash`, `graphics_indices`, `jni_stale` | the same with fewer faults or threads | one finding each |

The runs that check no liveness use symmetry: `library_runtime` on clients and
carriers, `jni_handles` and `graphics` on threads, `host_services` on the threads
that draw, the addresses of assets and the versions of a plugin. Deadlock is not checked in
`guest_kernel`, `host_services` and `graphics`: a thread may end there, and a
compared conversion takes no further step. In `graphics` a behaviour of the
client arrays ends where the context changes behind HostGl's back, because its
copy is stale from then on; `graphics_indices` goes on.

The properties under liveness in `host_live` and `runtime_live` name one process,
one descriptor and one loading thread. These are interchangeable, so this says the same
of all.

Fairness: every host thread that can take a step takes it eventually (weak
fairness per thread), because nothing in the code gives a thread priority. In
`LibraryRuntime` it ends with the process. `RuntimeInstall` adds strong fairness
of taking the file lock, which the kernel hands to a waiting process.
`ProxyRuntime` assumes that `engine_.start` and each `JNI_OnLoad` return; the
code has no timeout there. `HostLooper` assumes that the guest polls its looper
in a loop and that its callbacks return. It has strong fairness of the real
looper's callback for each descriptor, because an iteration of that looper
serves all ready descriptors. The watchdog's sampler is a thread of its own and
keeps running; guest threads get no fairness there, since they may hang.

## What is proved

The theorems hold for all values of the constants. Each `*Proofs` module has one
lemma per action and one step per conjunct that the action can disturb.

The column "property" names what a run checks of the same definition; the run
shows it on a small instance, the theorem for all constants.

| Module, component | Theorems | Property | Inductive invariant and why |
|---|---|---|---|
| `GuestThreadProofs`, `SignalTarget` | `TypeCorrect`, `HandlersSafe`, `PublicationSafe` | `HeldThreadAlive` | The counter equals the number of handlers between counting in and out. Without it, "the waiting thread saw zero" would say nothing about the handlers that hold the pointer. |
| the same, `HangWatchdog` | `WatchdogTrue` | `WatchSafe` | A slot that is not free counts the records of one thread, which knows the slot or is writing its first record there (`SlotsCount`, `Owns`). So a counter read after its thread id belongs to that thread, although no lock joins the two reads. |
| `LibraryRuntimeProofs` | `TypeCorrect`, `LeasesExclusive`, `CarriersSuffice`, `NothingIsLost` | `LeaseSafe`, `CarrierForEveryWaiter`, `NothingLost` | Records exist exactly for carriers in PARK or leased, a lease has one holder, and everything is dormant before the start. The counting properties are proved on finite sets: each step moves one command, one id or one carrier between the sets that are counted. |
| `GuestMemoryProofs`, `GuestMemory` | `MemoryTypeCorrect`, `MemoryAlwaysSafe` | `MemorySafe` | The five parts of `MemorySafe` together, with: a page of a foreign file is never eligible for execution, and recorded ranges are ranges of pages. Without the first, `mprotect` could make a foreign page executable; without the second, a record says nothing. |
| the same, `GlObjects` | `ObjectsStayOwned` | `ObjectsSafe` | Every live sync object is in the table once or held by one deleting thread. Every mirror block has one holder, and the entry of the target is that holder's until it begins to unmap. The second part is kept only until two threads map one target (`raced`). |
| `ProxyRuntimeProofs` | `ProxyTypeCorrect`, `StartedAndLoadedOnce`, `LoadsOnlyInRuntime`, `OutcomesStayFinal`, `EveryoneIsToldTheOutcome` | `AnswersAgree` | A thread owns the entries of all its frames but one still being looked up, a proxy is in one such frame only, and whoever owns an entry is inside it. The last part shows that "recursive" is told only inside the load. |
| `HandleTablesProofs`, `LocalHandles` | `LocalTableImplements` | `ImplementsRefs` | Frame starts ascend within the table, and a slot in use has a serial that is not retired. Each action maps to a step of `JniRefs` or to a stutter. The theorem is about one attachment of the thread: a detach starts another table. |
| the same, `GlobalHandles` | `GlobalTypeCorrect`, `FreeListCorrect`, `HostRefsCorrect`, `StaleHandlesStayStale` | `HostRefsOwnedOnce` | Each call in progress owns the reference it makes or deletes, and no two owners share one. |
| the same, `JniIds` | `MethodIdsResolve` | `IdsSafe` | A shorty is stored before its id is given out and never changes; the table has no duplicates. |
| `HostLooperProofs`, `HostLooper` | `RegisteredDescriptorsPolled`, `RegistrationsSurvive` | `RegisteredIsPolled`, `RegistrationsKept` | The next serial is newer than all serials that anyone holds (`Fresh`), and what a thread has still to tell the real looper is what the table says, unless two threads overlapped (`Tellings`). Serials make an old callback's answer harmless. |
| `HostServicesProofs`, `HostBitmap` | `BitmapLocksPaired` | `BitmapsSafe` | No two entries or calls under way share a serial, so each works on a copy of its own. Unless two painters crossed, that copy shows all that the bitmap shows, so writing it back loses nothing. |
| the same, `HostInput` | `InputForgetsNothing` | `InputSafe` | While `ready` is clear the worker in its poll is on the queue or will be woken. While it is set the descriptor is readable, or is about to be, or a rearm is about to clear `ready`. The looper the queue records is the only one the descriptor can be registered with. |
| the same, `GlArrays` | `DrawsMeanTheSame` | `DrawsAsNative` | Until the context changes behind its back, HostGl's bindings are the driver's. A layout that was not refused is the native one, and the driver has it unless it is a client array. |
| `RuntimeInstallProofs`, `RuntimeInstall` | `TypeCorrect`, `PublishedIsComplete`, `InstalledStays`, `VersionsNeverMix` | (parts of `InstallsRecover` and `LauncherSafe`) | Only the lock holder is at work, and staging holds exactly what its step says; the first three theorems assume `FileLocked`. The fourth does not: whoever copies found staging empty and no update came since (`StagedNow`). |
| the same, `PluginStore` | `ImportsKeepThePlugin`, `LauncherKeepsBoth` | (the two halves of `LauncherSafe`) | Where an import is, and whether the old directory can still be put back (`OldAside`) or the new one has its place and its data (`NewInPlace`). A running plugin during the import makes the outcome "shared", so this part says nothing then (`ImportAlone`). `DataLostOnly` is proved step by step: only the deletions take parts away, and the invariant says which directory they work on. |

Assumptions on constants are the named `ASSUME`s of the modules: finiteness of
the host threads and painters, bounds that are natural numbers, positive limits,
that a proxy belongs to a runtime and a method has a shorty, and that a value
for "none" is not one of the things it stands against. TLC evaluates them on the
instances. `PluginStore`, which its proof module instantiates, has its assumption
written out as an operator (`PluginAssumption`) and as the `ASSUME` of its
theorems.

Two proofs changed what was claimed. `ImportKeeps` had held on the instance with
one I/O error only. With two, an import whose undoing also fails does not
restore the plugin: the code keeps the first exception and suppresses the second
(`PluginFiles.replaceDirectoryKeeping`). `ImportKeeps` now names that case, and
the run has two errors. The draws of `GlArrays` take any first index and count,
not numbers up to a bound.

Only model-checked, with the reason:

- Liveness: `ClearReturns`, `CommandsAnswered`, `BorrowWoken`, `ReleasedExits`,
  `SignalsDelivered`, `LoadsReturn`, `ReadyServed`, `HangReported`, and the
  recovery of `InstallsRecover`. Fairness and `ENABLED` are out of the proof
  system's reach.
- What a sum, a fold or a recursive definition computes: `ReferencesConserved`
  of `HostNativeWindow`, `BudgetKept` of `HostAssets`, `MirrorsCounted` of
  `JniMirrors`, `FramesBalanced` of `JniFrames`, the tables of `RuntimeReport`,
  `HostEgl`, `GuestSignals` and `GuestElf`. They need induction over data.
- Conversions (`JniMarshal`, `JniNames`, `GlMarshal`, `GuestSyscalls`): their
  reference definitions are compared input by input.
- `JniNatives` and `GlDiagnostics` have no proof yet.

## Not modelled

- Plugin switching: it relies on how Android's activity manager kills and
  restarts the `:guest` process. Those rules are not in the repository.
- The root manager: its steps are shell commands of the package manager. What
  they leave behind on failure is not in the repository.
- Plugin hosting in Java, apart from the plugin's directory: it adapts framework
  objects to each other and keeps no protocol of its own.
- The APK converter, the initial stack and the `/proc` files: data written once,
  with no state and no order to check.
- Platform compatibility calls, driver backends, generated dispatch tables and
  guest-side stubs: they pass arguments on. The models take the drivers and ART
  as external steps with every outcome. Of the generated tables, only the two
  cases that the client arrays depend on are modelled.
- The command-line tools and logging.
- Inside modelled components: the JIT itself, the registers of `clone`, the
  copies of JNI strings and arrays, structure layouts of system calls, nested
  `pollOnce`, and the wording of reports. `PROJECT.json` says so at each
  component, and lists the hazards that no property covers with the reason.
