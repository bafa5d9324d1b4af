------------------------------ MODULE GlArrays ------------------------------
(***************************************************************************)
(* Vertex arrays and draws: HostGl's copy of the GL bindings and of the    *)
(* client arrays (GlThreadState in core/src/gl/gl_manual.cpp), which it    *)
(* keeps because a guest pointer means nothing to the 64-bit driver.  A    *)
(* client array is held back and given to the driver, translated, when a   *)
(* draw needs it.                                                          *)
(*                                                                         *)
(* "native" is the state the same calls would make in a 32-bit driver; the *)
(* bridge is right when every draw the driver is given means the same.     *)
(* One thread and its context; a pointer is named by what it points at.    *)
(***************************************************************************)
EXTENDS Integers, FiniteSets

CONSTANTS Buffers,   \* names of buffer objects
          Attribs,   \* vertex attribute indices
          Pointers,  \* pointers, or offsets into a bound buffer
          Readable,  \* Readable[p]: elements the guest can read at p
          Firsts, Counts,   \* the first vertex and the number of vertices of a draw
          Indices    \* vertex indices

\* No buffer has the name 0, and the numbers of a draw are numbers.
ArraysDistinct == "0" \notin Buffers /\ Firsts \subseteq Int /\ Counts \subseteq Int
ASSUME ArraysAssumption == ArraysDistinct

VARIABLES current,    \* t_state: array_buffer, element_array_buffer
          attributes, \* t_state.attributes
          driver,     \* the driver's context
          native,     \* what a 32-bit driver would have
          issued,     \* the last call, when it was a draw that reached the driver
          behind      \* history: the context changed in a way HostGl is not told of

arrayVars == <<current, attributes, driver, native, issued, behind>>

NoBuffer == "0"
NullPointer == "null"
Names == Buffers \cup {NoBuffer}
Targets == {"array", "element"}
Unset == [enabled |-> FALSE, buffer |-> NoBuffer, pointer |-> NullPointer, integer |-> FALSE,
          host |-> TRUE]
Fresh == [array |-> NoBuffer, element |-> NoBuffer, attr |-> [i \in Attribs |-> Unset]]
Nothing == [call |-> "none"]

ArraysInit ==
    /\ current = [t \in Targets |-> NoBuffer]
    /\ attributes = [i \in Attribs |-> [defined |-> FALSE, enabled |-> FALSE, valid |-> TRUE,
                                        integer |-> FALSE, pointer |-> NullPointer,
                                        buffer |-> NoBuffer]]
    /\ driver = Fresh /\ native = Fresh
    /\ issued = Nothing /\ behind = FALSE

-----------------------------------------------------------------------------
(* Calls that only change state.                                            *)

glBindBuffer(t, b) ==
    /\ driver' = [driver EXCEPT ![t] = b]
    /\ native' = [native EXCEPT ![t] = b]
    /\ current' = [current EXCEPT ![t] = b]
    /\ issued' = Nothing
    /\ UNCHANGED <<attributes, behind>>

(* A deleted buffer leaves the bindings and arrays of the context.          *)
Without(c, b) ==
    [array |-> IF c.array = b THEN NoBuffer ELSE c.array,
     element |-> IF c.element = b THEN NoBuffer ELSE c.element,
     attr |-> [i \in Attribs |-> IF c.attr[i].buffer = b
                                 THEN [c.attr[i] EXCEPT !.buffer = NoBuffer]
                                 ELSE c.attr[i]]]

(* The dispatcher forwards the two calls and tells HostGl nothing.          *)
glDeleteBuffers(b) ==
    /\ driver' = Without(driver, b)
    /\ native' = Without(native, b)
    /\ behind' = (behind \/ b \in {current["array"], current["element"]}
                         \/ \E i \in Attribs : attributes[i].buffer = b)
    /\ issued' = Nothing
    /\ UNCHANGED <<current, attributes>>

glBindVertexArray ==  \* a new vertex array object
    /\ driver' = [Fresh EXCEPT !.array = driver.array]
    /\ native' = [Fresh EXCEPT !.array = native.array]
    /\ behind' = TRUE
    /\ issued' = Nothing
    /\ UNCHANGED <<current, attributes>>

note_vertex_attrib_enabled(i, on) ==
    /\ driver' = [driver EXCEPT !.attr[i].enabled = on]
    /\ native' = [native EXCEPT !.attr[i].enabled = on]
    /\ attributes' = [attributes EXCEPT ![i].enabled = on]
    /\ issued' = Nothing
    /\ UNCHANGED <<current, behind>>

(* glVertexAttribPointer, and glVertexAttribIPointer when integer holds.    *)
(* The copy is taken before the driver has judged the layout; the driver    *)
(* refuses one that is not valid, as it would natively.                     *)
glVertexAttribPointer(i, p, valid, integer) ==
    LET At(c, h) == [c.attr[i] EXCEPT !.buffer = c.array, !.pointer = p, !.integer = integer,
                                      !.host = h] IN
    /\ attributes' = [attributes EXCEPT ![i].defined = TRUE, ![i].valid = valid,
                         ![i].pointer = p, ![i].integer = integer,
                         ![i].buffer = current["array"]]
    /\ driver' = IF current["array"] # NoBuffer /\ valid
                 THEN [driver EXCEPT !.attr[i] = At(driver, FALSE)] ELSE driver
    /\ native' = IF valid THEN [native EXCEPT !.attr[i] = At(native, native.array = NoBuffer)]
                 ELSE native
    /\ behind' = (behind \/ (current["array"] # NoBuffer /\ ~valid))
    /\ issued' = Nothing
    /\ UNCHANGED current

-----------------------------------------------------------------------------
(* Draws.                                                                   *)

Clients == {i \in Attribs : /\ attributes[i].enabled
                            /\ attributes[i].defined
                            /\ attributes[i].buffer = NoBuffer}

(* Every client array must be well formed and readable for the vertices up  *)
(* to last before any of them is given to the driver.                       *)
CanMaterialize(last) ==
    \A i \in Clients : attributes[i].valid /\ last < Readable[attributes[i].pointer]

(* Mistake: the array buffer stays unbound.                                 *)
MaterializeUnbound ==
    [driver EXCEPT
        !.attr = [i \in Attribs |->
            IF i \in Clients
            THEN [enabled |-> driver.attr[i].enabled, buffer |-> NoBuffer, host |-> TRUE,
                  pointer |-> attributes[i].pointer, integer |-> attributes[i].integer]
            ELSE driver.attr[i]],
        !.array = IF Clients # {} THEN NoBuffer ELSE driver.array]

(* The driver's context after materialize_client_arrays: the arrays must be *)
(* set with no array buffer bound, and the binding is put back.             *)
materialize_client_arrays ==
    [driver EXCEPT
        !.attr = [i \in Attribs |->
            IF i \in Clients
            THEN [enabled |-> driver.attr[i].enabled, buffer |-> NoBuffer, host |-> TRUE,
                  pointer |-> attributes[i].pointer, integer |-> attributes[i].integer]
            ELSE driver.attr[i]],
        !.array = IF Clients # {} /\ current["array"] # NoBuffer
                  THEN current["array"] ELSE driver.array]

Rejected == issued' = Nothing /\ UNCHANGED driver

(* glDrawArrays and glDrawArraysInstanced; first < 0 returns silently.      *)
glDrawArrays(first, count) ==
    /\ \/ /\ count <= 0
          /\ issued' = [call |-> "empty"]
          /\ UNCHANGED driver
       \/ /\ count > 0
          /\ first < 0 \/ ~CanMaterialize(first + count - 1)
          /\ Rejected
       \/ /\ count > 0 /\ first >= 0
          /\ CanMaterialize(first + count - 1)
          /\ driver' = materialize_client_arrays
          /\ issued' = [call |-> "draw", host |-> TRUE, read |-> first + count - 1]
    /\ UNCHANGED <<current, attributes, native, behind>>

(* prepare_elements: where the indices are, and the highest vertex checked. *)
(* top is the highest index the guest's data holds; only indices in client  *)
(* memory are looked at, otherwise count - 1 stands for it.                 *)
ClientIndices == current["element"] = NoBuffer
Checked(count, top) == IF ClientIndices THEN top ELSE count - 1

prepare_elements(count, type_ok, p, top) ==
    /\ count >= 0
    /\ ClientIndices => type_ok /\ (count = 0 \/ (p # NullPointer /\ count <= Readable[p]))
    /\ count > 0 => CanMaterialize(Checked(count, top))

(* glDrawElements, glDrawElementsInstanced and glDrawRangeElements.         *)
glDrawElements(count, type_ok, p, top) ==
    /\ IF prepare_elements(count, type_ok, p, top)
       THEN IF count = 0
            THEN issued' = [call |-> "empty"] /\ UNCHANGED driver
            ELSE /\ driver' = materialize_client_arrays
                 /\ issued' = [call |-> "elements", host |-> ClientIndices, read |-> top]
       ELSE Rejected
    /\ UNCHANGED <<current, attributes, native, behind>>

ArraysNext ==
    \/ \E t \in Targets, b \in Names : glBindBuffer(t, b)
    \/ \E b \in Buffers : glDeleteBuffers(b)
    \/ glBindVertexArray
    \/ \E i \in Attribs, on \in BOOLEAN : note_vertex_attrib_enabled(i, on)
    \/ \E i \in Attribs, p \in Pointers, v, n \in BOOLEAN : glVertexAttribPointer(i, p, v, n)
    \/ \E f \in Firsts, c \in Counts : glDrawArrays(f, c)
    \/ \E c \in Counts, ok \in BOOLEAN, p \in Pointers \cup {NullPointer}, m \in Indices : glDrawElements(c, ok, p, m)

ArraysSpec == ArraysInit /\ [][ArraysNext]_arrayVars

-----------------------------------------------------------------------------
(* Types of the variables.                                                  *)
ArraysTypeOK ==
    /\ current \in [Targets -> Names]
    /\ \A c \in {driver, native} :
          /\ c.array \in Names /\ c.element \in Names
          /\ \A i \in Attribs : c.attr[i].buffer \in Names
    /\ \A i \in Attribs : attributes[i].pointer \in Pointers \cup {NullPointer}
    /\ issued.call \in {"none", "empty", "draw", "elements"}
    /\ behind \in BOOLEAN

(* An array the driver reads is the one a 32-bit driver would read, and a   *)
(* guest address in it has been translated.                                 *)
SameArray(d, n) ==
    /\ d.buffer = n.buffer /\ d.pointer = n.pointer /\ d.integer = n.integer
    /\ d.host <=> d.buffer = NoBuffer

(* Every draw means to the driver what it would mean natively, although the *)
(* driver saw client arrays late, in another order and with the array       *)
(* buffer unbound: the same arrays, the array buffer bound as before, the   *)
(* indices a pointer or an offset as the binding says, and no client array  *)
(* read past what was checked when the indices are in client memory.  It    *)
(* holds until the guest deletes a buffer in use, binds another vertex      *)
(* array object, or passes a layout the driver refuses.                     *)
DrawnAsNative ==
    (issued.call \in {"draw", "elements"} /\ ~behind) =>
        /\ driver.array = native.array
        /\ \A i \in Attribs : native.attr[i].enabled => SameArray(driver.attr[i], native.attr[i])
        /\ issued.call = "elements" => (issued.host <=> native.element = NoBuffer)
        /\ (issued.call = "draw" \/ native.element = NoBuffer) =>
              \A i \in Clients : issued.read < Readable[attributes[i].pointer]

(* Every draw means to the 64-bit driver what it would mean natively        *)
(* (materialize_client_arrays, prepare_elements).                           *)
DrawsAsNative == ArraysTypeOK /\ DrawnAsNative

(* "the indices argument is a guest pointer when no element array buffer is *)
(* bound and a buffer offset when one is" (prepare_elements), whatever      *)
(* buffers the guest deletes.                                               *)
IndicesFollowBinding ==
    issued.call = "elements" => (issued.host <=> driver.element = NoBuffer)

=============================================================================
