----------------------------- MODULE JniMirrors -----------------------------
(***************************************************************************)
(* Direct buffers of Java mirrored in guest memory                         *)
(* (core/src/jni/host_jni_data.cpp): mirror_direct_buffer, whose two       *)
(* critical sections have the guest's malloc between them, and             *)
(* flush_buffer_mirrors at the end of every native call.                   *)
(*                                                                         *)
(* Several buffers may have one address: a buffer and its slices, or a     *)
(* buffer made where another was freed.                                    *)
(***************************************************************************)
EXTENDS Integers, Sequences, FiniteSets, FiniteSetsExt, Functions

CONSTANTS Callers,      \* threads in native code
          Buffers,      \* direct buffers of Java
          Address, Size,  \* of every buffer
          Cap,          \* kMirrorCapBytes
          MaxBlocks     \* bound: guest allocations

VARIABLES status,       \* of every buffer: "unmade", "live" or "freed"
          java,         \* bytes at the addresses of Java's buffers
          blocks,       \* guest allocations: their bytes
          mirrors, mirrored_bytes,
          globals,      \* global references on each buffer
          asking,       \* where each thread is in GetDirectBufferAddress, and the mirrored
                        \* bytes it checked, -1 for a mirror it found
          given         \* guest addresses answered for an address, while it is mirrored

mirrorVars == <<status, java, blocks, mirrors, mirrored_bytes, globals, asking, given>>

Addresses == {Address[b] : b \in Buffers}
Extent(a) == Max({Size[b] : b \in {c \in Buffers : Address[c] = a}})
SizeOf(a) == mirrors[a].size
Idle == [at |-> "idle"]

Init ==
    /\ status = [b \in Buffers |-> "unmade"]
    /\ java = [a \in Addresses |-> [i \in 1..Extent(a) |-> 0]]
    /\ blocks = <<>>
    /\ mirrors = [a \in {} |-> 0]
    /\ mirrored_bytes = 0
    /\ globals = [b \in Buffers |-> 0]
    /\ asking = [t \in Callers |-> Idle]
    /\ given = {}

-----------------------------------------------------------------------------

OverCap(size) == mirrored_bytes + size > Cap

\* Up to the end of the first critical section.  A buffer without room under
\* the cap is answered 0.
GetDirectBufferAddress(t, b) ==
    /\ asking[t] = Idle /\ status[b] = "live"
    /\ Size[b] <= Cap
    /\ IF Address[b] \in DOMAIN mirrors
       THEN asking' = [asking EXCEPT ![t] = [at |-> "store", buffer |-> b, guest |-> mirrors[Address[b]].guest,
                                                checked |-> -1]]
       ELSE /\ ~OverCap(Size[b])
            /\ asking' = [asking EXCEPT ![t] = [at |-> "malloc", buffer |-> b, guest |-> 0, checked |-> mirrored_bytes]]
    /\ UNCHANGED <<status, java, blocks, mirrors, mirrored_bytes, globals, given>>

\* Guest code, outside mirror_mutex; without memory the answer is 0.
Malloc(t) ==
    /\ asking[t].at = "malloc"
    /\ \/ /\ Len(blocks) < MaxBlocks
          /\ blocks' = Append(blocks, [i \in 1..Size[asking[t].buffer] |-> 0])
          /\ asking' = [asking EXCEPT ![t] = [@ EXCEPT !.at = "store", !.guest = Len(blocks) + 1]]
       \/ /\ asking' = [asking EXCEPT ![t] = Idle]
          /\ UNCHANGED blocks
    /\ UNCHANGED <<status, java, mirrors, mirrored_bytes, globals, given>>

Answered(mirror, guest) == mirror.guest

\* Mistake: a mirror that is there is counted and pinned again.
AlwaysNew(a) == TRUE

NewMirror(a) == a \notin DOMAIN mirrors

\* The second critical section: the mirror of another call wins; the copy is
\* refreshed from Java.
Store(t) ==
    LET b == asking[t].buffer
        a == Address[b]
        own == [guest |-> asking[t].guest, size |-> Size[b], global |-> b]
        mirror == IF a \in DOMAIN mirrors THEN mirrors[a] ELSE own
    IN  /\ asking[t].at = "store"
        /\ mirrors' = [x \in DOMAIN mirrors \cup {a} |-> IF x = a THEN mirror ELSE mirrors[x]]
        /\ mirrored_bytes' = IF NewMirror(a) THEN mirrored_bytes + Size[b] ELSE mirrored_bytes
        /\ globals' = IF NewMirror(a) THEN [globals EXCEPT ![b] = @ + 1] ELSE globals
        /\ blocks' = [blocks EXCEPT ![mirror.guest] =
                        [i \in DOMAIN @ |-> IF i <= Size[b] /\ i <= mirror.size THEN java[a][i] ELSE @[i]]]
        /\ given' = given \cup {<<a, Answered(mirror, asking[t].guest)>>}
        /\ asking' = [asking EXCEPT ![t] = Idle]
        /\ UNCHANGED <<status, java>>

-----------------------------------------------------------------------------

\* Java still has the buffer of the mirror, with its address and size.
StillThere(a) ==
    LET b == mirrors[a].global IN status[b] = "live" /\ Address[b] = a /\ Size[b] >= mirrors[a].size

\* A mirror made again from a smaller one is larger than its block; the bytes
\* past it are those of other guest memory.
Byte(g, i, beyond) == IF i \in DOMAIN blocks[g] THEN blocks[g][i] ELSE beyond

\* flush_buffer_mirrors, under mirror_mutex.
Flush ==
    \E beyond \in {0, 1} :
    LET kept == {a \in DOMAIN mirrors : StillThere(a)}
        dropped == DOMAIN mirrors \ kept
    IN  /\ java' = [a \in Addresses |->
                      IF a \in kept
                      THEN [i \in DOMAIN java[a] |-> IF i <= mirrors[a].size THEN Byte(mirrors[a].guest, i, beyond)
                                                                             ELSE java[a][i]]
                      ELSE java[a]]
        /\ globals' = [b \in Buffers |-> globals[b] - Cardinality({a \in dropped : mirrors[a].global = b})]
        /\ mirrored_bytes' = mirrored_bytes - MapThenSumSet(SizeOf, dropped)
        /\ mirrors' = Restrict(mirrors, kept)
        /\ given' = {g \in given : g[1] \in kept}
        /\ UNCHANGED <<status, blocks, asking>>

-----------------------------------------------------------------------------
(* Java and the guest.                                                      *)

\* A buffer is made in memory of its own or as a slice of another.
JavaMakes(b) ==
    /\ status[b] = "unmade"
    /\ status' = [status EXCEPT ![b] = "live"]
    /\ UNCHANGED <<java, blocks, mirrors, mirrored_bytes, globals, asking, given>>

\* A program may free memory that no native call is asking about, references
\* or not.
JavaFrees(a) ==
    /\ \A t \in Callers : asking[t] # Idle => Address[asking[t].buffer] # a
    /\ \E b \in Buffers : Address[b] = a /\ status[b] = "live"
    /\ status' = [b \in Buffers |-> IF Address[b] = a /\ status[b] = "live" THEN "freed" ELSE status[b]]
    /\ UNCHANGED <<java, blocks, mirrors, mirrored_bytes, globals, asking, given>>

\* Whoever owns the memory writes to it.
JavaWrites(a, i) ==
    /\ java' = [java EXCEPT ![a][i] = 1 - @]
    /\ UNCHANGED <<status, blocks, mirrors, mirrored_bytes, globals, asking, given>>

GuestWrites(g, i) ==
    /\ \E a \in Addresses : <<a, g>> \in given
    /\ blocks' = [blocks EXCEPT ![g][i] = 1 - @]
    /\ UNCHANGED <<status, java, mirrors, mirrored_bytes, globals, asking, given>>

Next ==
    \/ \E t \in Callers, b \in Buffers : GetDirectBufferAddress(t, b)
    \/ \E t \in Callers : Malloc(t) \/ Store(t)
    \/ Flush
    \/ \E b \in Buffers : JavaMakes(b)
    \/ \E a \in Addresses : JavaFrees(a) \/ \E i \in 1..Extent(a) : JavaWrites(a, i)
    \/ \E g \in DOMAIN blocks : \E i \in DOMAIN blocks[g] : GuestWrites(g, i)

-----------------------------------------------------------------------------
\* Mirrors, blocks and the requests under way have their types.
TypeOK ==
    /\ DOMAIN mirrors \subseteq Addresses
    /\ \A a \in DOMAIN mirrors : mirrors[a].guest \in DOMAIN blocks /\ mirrors[a].size <= Extent(a)
    /\ \A b \in Buffers : globals[b] \in Nat

(***************************************************************************)
(* mirrored_bytes and the global references are those of the mirrors there *)
(* are, though a mirror is made in a second critical section that another  *)
(* thread may have reached first, and dropped by the flush of any thread.  *)
(***************************************************************************)
MirrorsCounted ==
    /\ mirrored_bytes = MapThenSumSet(SizeOf, DOMAIN mirrors)
    /\ \A b \in Buffers : globals[b] = Cardinality({a \in DOMAIN mirrors : mirrors[a].global = b})

(***************************************************************************)
(* Threads that ask for the address of one buffer get the same guest       *)
(* block, the one that every flush copies back to Java: no guest writes to *)
(* a copy that Java never sees.                                            *)
(***************************************************************************)
OneMirror == \A g \in given : g[1] \in DOMAIN mirrors /\ mirrors[g[1]].guest = g[2]

(***************************************************************************)
(* "Total mirrored bytes are capped" (host_jni_internal.h), but the cap is *)
(* checked before the guest's malloc and not again after it.  A mirror     *)
(* passes the cap only when other threads added theirs, or dropped the one *)
(* this thread had found, between the two.                                 *)
(***************************************************************************)
CapPassedByRace ==
    [][\A t \in Callers :
         /\ asking[t] # Idle /\ asking'[t] = Idle
         /\ mirrored_bytes' > mirrored_bytes /\ mirrored_bytes' > Cap
         => mirrored_bytes > asking[t].checked]_mirrorVars

InUse == {mirrors[a].guest : a \in DOMAIN mirrors} \cup {asking[t].guest : t \in {u \in Callers : asking[u].at = "store"}}

(***************************************************************************)
(* No guest block is freed, and one that is not in use is never used       *)
(* again.  "Bounded by the cap", the code says of a block that lost to the *)
(* mirror of another thread; such a block, and the one of a mirror that a  *)
(* flush dropped, is counted by nothing.  A block is left behind in these  *)
(* two ways only.                                                          *)
(***************************************************************************)
BlocksLeft ==
    [][/\ (DOMAIN blocks \ InUse) \cap InUse' = {}
       /\ \A g \in InUse \ InUse' :
            \/ \E a \in DOMAIN mirrors \ DOMAIN mirrors' : mirrors[a].guest = g
            \/ \E t \in Callers : /\ asking[t] # Idle /\ asking'[t] = Idle /\ asking[t].guest = g
                                 /\ Address[asking[t].buffer] \in DOMAIN mirrors]_mirrorVars

(***************************************************************************)
(* flush_buffer_mirrors gives Java what the guest wrote in the buffers     *)
(* that Java still has, and writes to no other memory.                     *)
(***************************************************************************)
FlushExact ==
    [][Flush =>
         \A a \in Addresses : \A i \in DOMAIN java[a] :
            IF /\ a \in DOMAIN mirrors /\ i \in DOMAIN blocks[mirrors[a].guest] /\ i <= mirrors[a].size
               /\ status[mirrors[a].global] = "live"
            THEN java'[a][i] = blocks[mirrors[a].guest][i]
            ELSE java'[a][i] = java[a][i] \/ (a \in DOMAIN mirrors /\ i \in Len(blocks[mirrors[a].guest]) + 1..mirrors[a].size)]_mirrorVars
=============================================================================
