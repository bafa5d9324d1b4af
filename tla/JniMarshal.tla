----------------------------- MODULE JniMarshal -----------------------------
(***************************************************************************)
(* Values that cross the JNI bridge: the arguments and the result of a     *)
(* native method (marshal_native_args and store_native_result,             *)
(* core/src/jni/native_call.cpp) and the jvalues of CallMethodA, GetField  *)
(* and SetField (host_jni_values.cpp).                                     *)
(*                                                                         *)
(* A byte, a half word, a word and a double word have Width bits here, so  *)
(* that every content of a register can be tried.                          *)
(***************************************************************************)
EXTENDS Integers, Sequences, SequencesExt, FiniteSets

CONSTANTS Shorties,       \* parameter letters of native methods
          HostRegs        \* integer and floating-point argument registers, 8 in the code

VARIABLES crossing,       \* what crosses
          arrival         \* how it arrives

marshalled == <<crossing, arrival>>

Width == [Z |-> 2, B |-> 2, C |-> 3, S |-> 3, I |-> 4, F |-> 4, J |-> 8, D |-> 8, L |-> 8]
Word == 2^4
Dword == 2^8
Letters == DOMAIN Width

\* The low bits of a register and their value as a signed number.
Low(letter, bits) == bits % 2^Width[letter]
Signed(letter, bits) ==
    IF Low(letter, bits) >= 2^(Width[letter] - 1) THEN Low(letter, bits) - 2^Width[letter]
                                                  ELSE Low(letter, bits)

\* The local handle of a reference (LocalHandles); 0 for null.
Handle(ref) == IF ref = 0 THEN 0 ELSE Dword + ref

-----------------------------------------------------------------------------
(* Arguments.  The host's are in the registers x and d and on the stack,    *)
(* the guest's in regs and on its own stack of words.                       *)

\* Mistake: a double word takes the next two registers whatever they are.
put64_unaligned(out, value) ==
    IF out.ncrn <= 2
    THEN [out EXCEPT !.regs[out.ncrn] = value % Word, !.regs[out.ncrn + 1] = value \div Word, !.ncrn = @ + 2]
    ELSE [out EXCEPT !.ncrn = 4, !.stack = @ \o <<value % Word, value \div Word>>]

put32(out, value) ==
    IF out.ncrn < 4 THEN [out EXCEPT !.regs[out.ncrn] = value, !.ncrn = @ + 1]
                    ELSE [out EXCEPT !.stack = Append(@, value)]

\* An even register or an even stack word.
put64(out, value) ==
    LET even == out.ncrn + (out.ncrn % 2)
    IN  IF even <= 2
        THEN [out EXCEPT !.regs[even] = value % Word, !.regs[even + 1] = value \div Word, !.ncrn = even + 2]
        ELSE [out EXCEPT !.ncrn = 4,
                         !.stack = @ \o (IF Len(@) % 2 = 0 THEN <<>> ELSE <<0>>)
                                     \o <<value % Word, value \div Word>>]

\* next_int and next_fp: the registers of the class, then the common stack.
Source(in, letter) ==
    LET class == IF letter \in {"F", "D"} THEN "d" ELSE "x"
    IN  IF in[class] < HostRegs[class] THEN [at |-> <<class, in[class]>>, in |-> [in EXCEPT ![class] = @ + 1]]
                                       ELSE [at |-> <<"stack", in.stack>>, in |-> [in EXCEPT !.stack = @ + 1]]

GuestArgument(out, letter, bits) ==
    CASE letter \in {"Z", "C", "I", "F"} -> put32(out, Low(letter, bits))
      [] letter \in {"B", "S"} -> put32(out, Signed(letter, bits) % Word)
      [] letter \in {"J", "D"} -> put64(out, bits)
      [] letter = "L" -> put32(out, Handle(bits))

\* host is what the registers and the stack hold, by place; x0 is the JNIEnv, x1 the class or object.
marshal_native_args(shorty, host, guest_env) ==
    LET start == [in |-> [x |-> 2, d |-> 0, stack |-> 0],
                  out |-> put32(put32([ncrn |-> 0, regs |-> [i \in 0..3 |-> 0], stack |-> <<>>], guest_env),
                                Handle(host[<<"x", 1>>]))]
        step(done, letter) ==
            LET source == Source(done.in, letter)
            IN  [in |-> source.in, out |-> GuestArgument(done.out, letter, host[source.at])]
    IN  FoldLeft(step, start, shorty).out

\* The register written.  The reference of a handle is resolved by call_native.
store_native_result(letter, r0, r1) ==
    CASE letter \in {"Z", "C"} -> [x |-> Low(letter, r0)]
      [] letter \in {"B", "S", "I"} -> [x |-> Signed(letter, r0) % Dword]
      [] letter = "J" -> [x |-> r0 + Word * r1]
      [] letter = "F" -> [d |-> r0]
      [] letter = "D" -> [d |-> r0 + Word * r1]
      [] letter = "L" -> [x |-> IF r0 = 0 THEN 0 ELSE r0 - Dword]
      [] letter = "V" -> [v |-> 0]

-----------------------------------------------------------------------------
(* Values of Java methods called by the guest and of fields.                *)

value_from_bits(letter, bits) ==
    IF letter \in {"B", "S", "I", "J"} THEN Signed(letter, bits)
    ELSE IF letter = "L" THEN bits ELSE Low(letter, bits)

\* Zero-extended; the guest stub takes the low bits.
bits_from_value(letter, value) == IF letter = "L" THEN 0 ELSE value % 2^Width[letter]

\* An argument of CallMethodA or the value of SetField.
JavaValue(letter, bits) ==
    IF letter = "L" THEN value_from_bits("L", IF bits = 0 THEN 0 ELSE bits - Dword)
                    ELSE value_from_bits(letter, bits)

\* The result of CallMethodA or GetField.
GuestResult(letter, value) ==
    IF letter = "L" THEN Handle(value) ELSE bits_from_value(letter, value)
-----------------------------------------------------------------------------
(* The caller of a native thunk (AAPCS64) and the guest function (AAPCS32), *)
(* each by the words of its standard.                                       *)

Contents(seed, k) == (seed + 83 * k) % Dword

HostPlace(shorty, k) ==
    LET class(i) == IF shorty[i] \in {"F", "D"} THEN "d" ELSE "x"
        first(c) == IF c = "x" THEN 2 ELSE 0
        rank(i) == first(class(i)) + Cardinality({j \in 1..i - 1 : class(j) = class(i)})
        onStack(i) == rank(i) >= HostRegs[class(i)]
    IN  IF onStack(k) THEN <<"stack", Cardinality({j \in 1..k - 1 : onStack(j)})>>
                      ELSE <<class(k), rank(k)>>

HostContent(shorty, seed, place) ==
    LET there == {k \in DOMAIN shorty : HostPlace(shorty, k) = place}
    IN  IF there = {} THEN seed ELSE Contents(seed, Max(there))

\* The words of argument k: the four registers and the stack are one array,
\* and a double word starts at an even place.
GuestPlace(shorty, k) ==
    LET wide(i) == shorty[i] \in {"J", "D"}
        start[i \in 1..k] ==
            LET next == IF i = 1 THEN 2 ELSE start[i - 1] + (IF wide(i - 1) THEN 2 ELSE 1)
            IN  IF wide(i) THEN next + (next % 2) ELSE next
    IN  start[k]

\* -1 past the words passed.
GuestWord(call, i) ==
    IF i < 4 THEN call.regs[i] ELSE IF i - 3 <= Len(call.stack) THEN call.stack[i - 3] ELSE -1

Init ==
    /\ arrival = [done |-> FALSE]
    /\ \/ \E s \in Shorties, seed \in {5, 250} : crossing = [kind |-> "args", shorty |-> s, seed |-> seed]
       \/ \E c \in Letters \cup {"V"}, r0, r1 \in 0..Word - 1 :
            crossing = [kind |-> "result", letter |-> c, r0 |-> IF c = "L" THEN Handle(r0) ELSE r0, r1 |-> r1]
       \/ \E c \in Letters, bits \in 0..Dword - 1 :
            crossing = [kind |-> "value", letter |-> c, bits |-> IF c = "L" THEN Handle(bits) ELSE bits]

Arrived ==
    CASE crossing.kind = "args" ->
           LET places == {"x", "d", "stack"} \X (0..Len(crossing.shorty) + 2)
               host == [place \in places |-> HostContent(crossing.shorty, crossing.seed, place)]
           IN  marshal_native_args(crossing.shorty, host, 1)
      [] crossing.kind = "result" -> store_native_result(crossing.letter, crossing.r0, crossing.r1)
      [] crossing.kind = "value" ->
           LET value == JavaValue(crossing.letter, crossing.bits)
           IN  [java |-> value, back |-> GuestResult(crossing.letter, value)]

Next ==
    /\ ~arrival.done
    /\ arrival' = [done |-> TRUE, as |-> Arrived]
    /\ UNCHANGED crossing

\* Nothing crosses.
NoCrossing == crossing = [kind |-> "none"] /\ arrival = [done |-> FALSE]

-----------------------------------------------------------------------------
SignedBits(bits, size) == IF bits >= size \div 2 THEN bits - size ELSE bits

\* The Java value in the low bits of a register or jvalue.
JavaOf(letter, bits) ==
    CASE letter \in {"B", "S", "I", "J"} -> SignedBits(bits % 2^Width[letter], 2^Width[letter])
      [] OTHER -> bits % 2^Width[letter]

(***************************************************************************)
(* marshal_native_args: the guest function finds every argument of the     *)
(* native method, extended to its words, where its calling convention      *)
(* looks for it, whatever registers the caller ran out of and whatever is  *)
(* in the unused bits of its registers.                                    *)
(***************************************************************************)
ArgsArrive ==
    arrival.done /\ crossing.kind = "args" =>
        \A k \in DOMAIN crossing.shorty :
            LET letter == crossing.shorty[k]
                at == GuestPlace(crossing.shorty, k)
                low == GuestWord(arrival.as, at)
                bits == Contents(crossing.seed, k)
            IN  CASE letter \in {"B", "S", "I"} -> SignedBits(low, Word) = JavaOf(letter, bits)
                  [] letter \in {"Z", "C", "F"} -> low = JavaOf(letter, bits)
                  [] letter \in {"J", "D"} -> low + Word * GuestWord(arrival.as, at + 1) = bits
                  [] letter = "L" -> low = Handle(bits)

(***************************************************************************)
(* store_native_result: the register Java reads holds the guest's result   *)
(* as a full register, and only the register of the result's class is      *)
(* written.                                                                *)
(***************************************************************************)
ResultArrives ==
    arrival.done /\ crossing.kind = "result" =>
        LET letter == crossing.letter
            pair == crossing.r0 + Word * crossing.r1
        IN  CASE letter \in {"B", "S", "I", "J"} ->
                   /\ DOMAIN arrival.as = {"x"}
                   /\ SignedBits(arrival.as.x, Dword) = JavaOf(letter, pair)
              [] letter \in {"Z", "C"} -> arrival.as = [x |-> JavaOf(letter, pair)]
              [] letter \in {"F", "D"} -> arrival.as = [d |-> JavaOf(letter, pair)]
              [] letter = "L" -> Handle(arrival.as.x) = crossing.r0
              [] letter = "V" -> DOMAIN arrival.as \cap {"x", "d"} = {}

(***************************************************************************)
(* CallMethodA, GetField and SetField: Java gets the value in the low bits *)
(* of the guest's jvalue, and the guest gets the value back from the low   *)
(* bits of the result, with zeros above.                                   *)
(***************************************************************************)
ValuesSurvive ==
    arrival.done /\ crossing.kind = "value" =>
        LET letter == crossing.letter
        IN  IF letter = "L" THEN arrival.as.back = crossing.bits
            ELSE /\ arrival.as.java = JavaOf(letter, crossing.bits)
                 /\ arrival.as.back \in 0..2^Width[letter] - 1
                 /\ JavaOf(letter, arrival.as.back) = arrival.as.java
=============================================================================
