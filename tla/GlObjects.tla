------------------------------ MODULE GlObjects ------------------------------
(***************************************************************************)
(* What HostGl keeps for all threads (core/src/gl/gl_manual.cpp): the      *)
(* table of sync objects, the mirrors of mapped buffers, keyed by target,  *)
(* and, for each thread, the uniform layouts and the guest copies of       *)
(* driver strings.  The locks cover a look at a table and no more, so each *)
(* call is split where it lets go of them.                                 *)
(*                                                                         *)
(* Every thread has a context of its own, in which it binds a buffer of    *)
(* its own (buffer t) to the one target modelled, and unmaps only what it  *)
(* mapped: what two correct render threads do.                             *)
(***************************************************************************)
EXTENDS Integers, Sequences

CONSTANTS Threads,
          SyncPointers,   \* driver addresses of sync objects
          GuestBlocks     \* guest heap blocks

\* The null pointer is neither a sync object nor a heap block.
NullIsNothing == "null" \notin SyncPointers /\ "null" \notin GuestBlocks
ASSUME ObjectsAssumption == NullIsNothing

VARIABLES sync_objects, \* the table: a pointer or Null at each handle
          sync_live,      \* sync objects the driver has
          mappings,  \* the entry of the target, or NoMapping
          mapped,    \* buffers mapped in the driver
          store,     \* contents of each buffer
          heap,      \* contents of each guest block; "free" when not allocated
          held,      \* the mirror each thread has been given, or Null
          meant,     \* history: what its buffer should hold once unmapped
          raced,     \* history: two threads were inside glMapBufferRange
          layout,    \* the program's layout in the driver
          uniforms,  \* each thread's copy of it, or Unknown
          relinked,  \* history: threads whose program another thread linked
          strings,   \* each thread's guest copy of a driver string, or Null
          pc         \* the call each thread is in

objectVars == <<sync_objects, sync_live, mappings, mapped, store, heap, held, meant, raced,
                layout, uniforms, relinked, strings, pc>>
syncVars == <<sync_objects, sync_live>>
mapVars == <<mappings, mapped, store, held, meant, raced>>
programVars == <<layout, uniforms, relinked>>

Null == "null"
NoMapping == [guest |-> Null, data |-> Null, access |-> "none"]
Unknown == -1
Idle == [at |-> "idle"]
Accesses == {"read", "write", "invalidate"}   \* invalidate: and write
FreeBlocks == {g \in GuestBlocks : heap[g] = "free"}

Goto(t, where) == pc' = [pc EXCEPT ![t] = where]

-----------------------------------------------------------------------------
(* Sync objects.                                                            *)

(* The first free slot, or a new one at the end.                            *)
FirstFree(i) == /\ \A j \in 1..(i - 1) : sync_objects[j] # Null
                /\ i \in DOMAIN sync_objects => sync_objects[i] = Null

register_sync(s) ==
    \E i \in 1..(Len(sync_objects) + 1) :
        /\ FirstFree(i)
        /\ sync_objects' = IF i \in DOMAIN sync_objects THEN [sync_objects EXCEPT ![i] = s]
                           ELSE Append(sync_objects, s)

lookup_sync(h) == IF h \in DOMAIN sync_objects THEN sync_objects[h] ELSE Null

release_sync(h) == sync_objects' = [sync_objects EXCEPT ![h] = Null]

glFenceSync(t) ==
    /\ pc[t] = Idle
    /\ \E s \in SyncPointers \ sync_live : sync_live' = sync_live \cup {s} /\ register_sync(s)
    /\ UNCHANGED <<mapVars, programVars, heap, strings, pc>>

(* An unknown handle is rejected and nothing changes.                       *)
glDeleteSync(t, h) ==
    /\ pc[t] = Idle /\ lookup_sync(h) # Null
    /\ Goto(t, [at |-> "delete", sync |-> lookup_sync(h)])
    /\ release_sync(h)
    /\ UNCHANGED <<sync_live, mapVars, programVars, heap, strings>>

DeleteInDriver(t) ==
    /\ pc[t].at = "delete"
    /\ sync_live' = sync_live \ {pc[t].sync}
    /\ pc' = [u \in Threads |->
                 IF u = t THEN Idle
                 ELSE IF pc[u].at = "wait" /\ pc[u].sync = pc[t].sync
                      THEN [pc[u] EXCEPT !.under = TRUE] ELSE pc[u]]
    /\ UNCHANGED <<sync_objects, mapVars, programVars, heap, strings>>

(* glClientWaitSync, glWaitSync, glGetSynciv, glIsSync.                     *)
resolve_sync(t, h) ==
    /\ pc[t] = Idle /\ lookup_sync(h) # Null
    /\ Goto(t, [at |-> "wait", sync |-> lookup_sync(h), under |-> FALSE])
    /\ UNCHANGED <<syncVars, mapVars, programVars, heap, strings>>

WaitInDriver(t) ==
    /\ pc[t].at = "wait"
    /\ Goto(t, Idle)
    /\ UNCHANGED <<syncVars, mapVars, programVars, heap, strings>>

-----------------------------------------------------------------------------
(* Mapped buffers.                                                          *)

(* glMapBufferRange, glMapBufferOES: the look at the table ...              *)
find_mapping(t, access) ==
    /\ pc[t] = Idle /\ held[t] = Null /\ mappings = NoMapping
    /\ Goto(t, [at |-> "map", access |-> access])
    /\ raced' = (raced \/ \E u \in Threads \ {t} : pc[u].at \in {"map", "insert"})
    /\ UNCHANGED <<syncVars, mappings, mapped, store, held, meant, programVars, heap, strings>>

(* ... the driver's mapping and the guest's mirror of it; without a mirror  *)
(* the driver's mapping is undone ...                                       *)
MapInDriver(t) ==
    /\ pc[t].at = "map"
    /\ UNCHANGED <<syncVars, mappings, store, held, raced, programVars, strings>>
    /\ \/ /\ Goto(t, Idle)     \* the driver's error, or the guest heap's
          /\ UNCHANGED <<mapped, heap, meant>>
       \/ \E g \in FreeBlocks :
             LET filled == IF pc[t].access = "invalidate" THEN "junk" ELSE store[t]
             IN /\ t \notin mapped
                /\ mapped' = mapped \cup {t}
                /\ heap' = [heap EXCEPT ![g] = filled]
                /\ meant' = [meant EXCEPT ![t] = filled]
                /\ Goto(t, [at |-> "insert", guest |-> g, access |-> pc[t].access])

(* ... and the entry.                                                       *)
InsertMapping(t) ==
    /\ pc[t].at = "insert"
    /\ mappings' = [guest |-> pc[t].guest, data |-> t, access |-> pc[t].access]
    /\ held' = [held EXCEPT ![t] = pc[t].guest]
    /\ Goto(t, Idle)
    /\ UNCHANGED <<syncVars, mapped, store, meant, raced, programVars, heap, strings>>

(* The guest writes through the pointer it was given for writing.           *)
GuestWrites(t, v) ==
    /\ pc[t] = Idle /\ held[t] # Null /\ mappings # NoMapping
    /\ mappings.guest = held[t] => mappings.access # "read"
    /\ heap[held[t]] # "free"
    /\ heap' = [heap EXCEPT ![held[t]] = v]
    /\ meant' = [meant EXCEPT ![t] = v]
    /\ UNCHANGED <<syncVars, mappings, mapped, store, held, raced, programVars, strings, pc>>

(* glUnmapBuffer, glUnmapBufferOES: the entry is taken out, ...             *)
unmap_mirrored(t) ==
    /\ pc[t] = Idle /\ held[t] # Null
    /\ Goto(t, [at |-> "unmap", mapping |-> mappings])
    /\ mappings' = NoMapping
    /\ UNCHANGED <<syncVars, mapped, store, held, meant, raced, programVars, heap, strings>>

(* Mistake: the mirror is not copied back.                                  *)
UnmapDrops(t) ==
    /\ pc[t].at = "unmap"
    /\ mapped' = mapped \ {t}
    /\ heap' = IF pc[t].mapping # NoMapping
               THEN [heap EXCEPT ![pc[t].mapping.guest] = "free"] ELSE heap
    /\ held' = [held EXCEPT ![t] = Null]
    /\ Goto(t, Idle)
    /\ UNCHANGED <<syncVars, mappings, store, meant, raced, programVars, strings>>

(* ... the mirror is copied back, the driver unmaps the buffer this thread  *)
(* has bound, and the mirror is freed.  A mirror the guest has made         *)
(* unreadable is not copied: GL_INVALID_OPERATION tells it that its writes  *)
(* are lost.                                                                *)
UnmapInDriver(t) ==
    LET m == pc[t].mapping
    IN /\ pc[t].at = "unmap"
       /\ \/ /\ store' = IF m # NoMapping /\ m.access # "read"
                         THEN [store EXCEPT ![m.data] = heap[m.guest]] ELSE store
             /\ UNCHANGED meant
          \/ /\ m # NoMapping /\ m.access # "read"
             /\ UNCHANGED store
             /\ meant' = [meant EXCEPT ![t] = store[t]]
       /\ mapped' = mapped \ {t}
       /\ heap' = IF m # NoMapping THEN [heap EXCEPT ![m.guest] = "free"] ELSE heap
       /\ held' = [held EXCEPT ![t] = Null]
       /\ Goto(t, Idle)
       /\ UNCHANGED <<syncVars, mappings, raced, programVars, strings>>

(* glFlushMappedBufferRange: the entry is copied, the lock released, then   *)
(* the mirror copied if it is readable.                                     *)
glFlushMappedBufferRange(t) ==
    /\ pc[t] = Idle /\ held[t] # Null /\ mappings # NoMapping
    /\ Goto(t, [at |-> "flush", mapping |-> mappings])
    /\ UNCHANGED <<syncVars, mapVars, programVars, heap, strings>>

FlushInDriver(t) ==
    LET m == pc[t].mapping
    IN /\ pc[t].at = "flush"
       /\ \/ store' = IF m.access # "read" THEN [store EXCEPT ![m.data] = heap[m.guest]] ELSE store
          \/ m.access # "read" /\ UNCHANGED store
       /\ Goto(t, Idle)
       /\ UNCHANGED <<syncVars, mappings, mapped, held, meant, raced, programVars, heap, strings>>

-----------------------------------------------------------------------------
(* Per-thread copies.                                                       *)

(* glLinkProgram, glDeleteProgram: only the calling thread forgets.         *)
invalidate_uniforms(t) ==
    /\ pc[t] = Idle
    /\ layout' = 1 - layout
    /\ uniforms' = [uniforms EXCEPT ![t] = Unknown]
    /\ relinked' = (relinked \ {t}) \cup {u \in Threads \ {t} : uniforms[u] # Unknown}
    /\ UNCHANGED <<syncVars, mapVars, heap, strings, pc>>

uniform_elements(t) ==
    /\ pc[t] = Idle /\ uniforms[t] = Unknown
    /\ uniforms' = [uniforms EXCEPT ![t] = layout]
    /\ UNCHANGED <<syncVars, mapVars, layout, relinked, heap, strings, pc>>

(* glGetString, glGetStringi, once per thread; never freed.                 *)
glGetString(t) ==
    /\ pc[t] = Idle /\ strings[t] = Null
    /\ \E g \in FreeBlocks : /\ strings' = [strings EXCEPT ![t] = g]
                       /\ heap' = [heap EXCEPT ![g] = "text"]
    /\ UNCHANGED <<syncVars, mapVars, programVars, pc>>

-----------------------------------------------------------------------------
ObjectsInit ==
    /\ sync_objects = <<>> /\ sync_live = {}
    /\ mappings = NoMapping /\ mapped = {}
    /\ store = [t \in Threads |-> "old"]
    /\ heap = [g \in GuestBlocks |-> "free"]
    /\ held = [t \in Threads |-> Null]
    /\ meant = [t \in Threads |-> "old"]
    /\ raced = FALSE
    /\ layout = 0 /\ uniforms = [t \in Threads |-> Unknown] /\ relinked = {}
    /\ strings = [t \in Threads |-> Null]
    /\ pc = [t \in Threads |-> Idle]

(* The three tables share no state but the heap and the program counters;   *)
(* one behaviour exercises one of them.                                     *)
Syncs(t) ==
    /\ mapped = {} /\ layout = 0 /\ \A u \in Threads : uniforms[u] = Unknown /\ strings[u] = Null
    /\ \A u \in Threads : pc[u].at \in {"idle", "delete", "wait"}
    /\ \/ glFenceSync(t)
       \/ \E h \in DOMAIN sync_objects : glDeleteSync(t, h) \/ resolve_sync(t, h)
       \/ DeleteInDriver(t) \/ WaitInDriver(t)

Maps(t) ==
    /\ sync_objects = <<>> /\ layout = 0 /\ \A u \in Threads : uniforms[u] = Unknown
    /\ ~raced    \* a bound: afterwards nothing is promised
    /\ \/ \E a \in Accesses : find_mapping(t, a)
       \/ MapInDriver(t) \/ InsertMapping(t)
       \/ GuestWrites(t, "new") \/ unmap_mirrored(t) \/ UnmapInDriver(t)
       \/ glFlushMappedBufferRange(t) \/ FlushInDriver(t) \/ glGetString(t)

Programs(t) ==
    /\ sync_objects = <<>> /\ mapped = {} /\ \A u \in Threads : strings[u] = Null
    /\ \A u \in Threads : pc[u] = Idle /\ meant[u] = "old"
    /\ invalidate_uniforms(t) \/ uniform_elements(t)

ObjectsNext == \E t \in Threads : Syncs(t) \/ Maps(t) \/ Programs(t)

ObjectsSpec == ObjectsInit /\ [][ObjectsNext]_objectVars

-----------------------------------------------------------------------------
(* Types of the variables.                                                  *)
ObjectsTypeOK ==
    /\ sync_objects \in Seq(SyncPointers \cup {Null}) /\ sync_live \subseteq SyncPointers
    /\ mapped \subseteq Threads
    /\ heap \in [GuestBlocks -> {"free", "old", "new", "junk", "text"}]
    /\ held \in [Threads -> GuestBlocks \cup {Null}]
    /\ strings \in [Threads -> GuestBlocks \cup {Null}]
    /\ \A t \in Threads : pc[t].at \in
           {"idle", "delete", "wait", "map", "insert", "unmap", "flush"}

Deleting == {pc[t].sync : t \in {u \in Threads : pc[u].at = "delete"}}
Entries == {sync_objects[i] : i \in DOMAIN sync_objects} \ {Null}

(* The sync table is exact under concurrent creation, deletion and slot     *)
(* reuse: two handles never name one driver object, no handle names a       *)
(* deleted one, none is lost, and none is deleted twice.                    *)
SyncTable ==
    /\ \A i, j \in DOMAIN sync_objects :
           (i # j /\ sync_objects[i] # Null) => sync_objects[i] # sync_objects[j]
    /\ Entries \cap Deleting = {}
    /\ Entries \cup Deleting = sync_live
    /\ \A t, u \in Threads : (t # u /\ pc[t].at = "delete" /\ pc[u].at = "delete")
                               => pc[t].sync # pc[u].sync

(* A wait hands the driver a deleted sync object only when another thread   *)
(* deleted it after this thread's lookup_sync: the table is read and the    *)
(* lock released before the driver is called.                               *)
WaitsOnLive ==
    \A t \in Threads : (pc[t].at = "wait" /\ ~pc[t].under) => pc[t].sync \in sync_live

(* The pointer a thread got from glMapBufferRange stays allocated, is no    *)
(* other block of the guest, and is the one the unmap and flush of its own  *)
(* target will use.  It holds unless two threads were mapping at once: the  *)
(* look at the table and the insertion are two critical sections.           *)
MirrorOwned ==
    ~raced => \A t \in Threads : (held[t] # Null /\ pc[t].at # "unmap") =>
                 /\ mappings # NoMapping
                 /\ mappings.guest = held[t] /\ mappings.data = t
                 /\ heap[held[t]] \notin {"free", "text"}

(* Once a thread has unmapped, its buffer holds what the thread last wrote  *)
(* through the mirror, or what it held when nothing was written or the      *)
(* write was refused.                                                       *)
WrittenBack ==
    ~raced => \A t \in Threads :
                 (held[t] = Null /\ pc[t] = Idle) => store[t] = meant[t]

(* With every call finished and every buffer unmapped, neither the driver   *)
(* has a mapping left nor the guest heap a mirror.                          *)
NothingLeaks ==
    (~raced /\ \A t \in Threads : held[t] = Null /\ pc[t] = Idle) =>
        /\ mapped = {} /\ mappings = NoMapping
        /\ \A g \in GuestBlocks : heap[g] \in {"free", "text"}

(* The element counts glGetUniform checks the guest's array against are     *)
(* those of the program as last linked, except on a thread that cached them *)
(* before another thread linked it again.                                   *)
UniformsFresh ==
    \A t \in Threads : (t \notin relinked /\ uniforms[t] # Unknown) => uniforms[t] = layout

(* All of them: what HostGl keeps for all threads stays right although its  *)
(* locks are held for a look at a table and no more.                        *)
ObjectsSafe ==
    ObjectsTypeOK /\ SyncTable /\ WaitsOnLive /\ MirrorOwned /\ WrittenBack /\ NothingLeaks /\ UniformsFresh
=============================================================================
