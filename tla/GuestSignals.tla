---------------------------- MODULE GuestSignals ----------------------------
(***************************************************************************)
(* One guest thread between two stops of its JIT: Process::dispatch_stop   *)
(* and after_stop (core/src/process.cpp), signal frames and sigreturn      *)
(* (core/src/signals.cpp), host-to-guest calls and the pending set         *)
(* (core/src/guest_thread.cpp) and the signal system calls                 *)
(* (core/src/syscalls.cpp).  Other threads post signals meanwhile.         *)
(*                                                                         *)
(* A stack address is <<region, depth>>; a frame or a call takes one slot  *)
(* of "main" or of the alternate stack "alt".  The register file is        *)
(* [pc, sp]: the properties only ask whether the right one comes back.     *)
(***************************************************************************)
EXTENDS Integers, Sequences, FiniteSets, FiniteSetsExt

CONSTANTS Sigs,       \* signal numbers; the lowest deliverable one goes first
          Faults,     \* signals a fault of the guest raises
          Acts,       \* handlers: [handler, onstack, nodefer, resethand, mask]
          StackSlots, \* writable slots of each stack
          MaxCalls,   \* nested host-to-guest calls
          MaxChanges  \* bound on the guest's sigaction, sigprocmask and sigaltstack calls

VARIABLES regs,        \* [pc |-> who runs, sp |-> <<region, depth>>]
          sigmask,     \* thread.sigmask
          altstack,    \* "none" or "alt"
          memory,      \* frames in guest memory: address -> ucontext
          calls,       \* GuestThread::call activations, innermost last
          sigactions,  \* Dfl, Ign or a handler
          pending,     \* pending_signals_
          posting,     \* a signal whose post_signal has set the bit but not halted the JIT
          halted,      \* kInterruptHalt of the JIT
          state,       \* "run", "finished" (this thread exited) or "exiting"
          changes,     \* calls counted against MaxChanges
          base_mask,   \* history: the mask outside every handler
          unblocked    \* history: signals a handler unblocked itself

sigVars == <<regs, sigmask, altstack, memory, calls, sigactions, pending, posting, halted,
             state, changes, base_mask, unblocked>>

NoFrame == [sig |-> 0]
Dfl == [handler |-> 0]
Ign == [handler |-> 1]
Slots == {<<r, d>> : r \in {"main", "alt"}, d \in 1..StackSlots}
Live == {a \in Slots : memory[a] # NoFrame}

Init ==
    /\ regs = [pc |-> "app", sp |-> <<"main", 0>>]
    /\ sigmask = {} /\ altstack = "none"
    /\ memory = [a \in Slots |-> NoFrame]
    /\ calls = <<>>
    /\ sigactions = [s \in Sigs |-> Dfl]
    /\ pending = {} /\ posting = 0 /\ halted = FALSE
    /\ state = "run" /\ changes = 0
    /\ base_mask = {} /\ unblocked = {}

(* What a stop handler works on; deliver_signal and sigreturn map one such  *)
(* state to the next.                                                       *)
Here == [regs |-> regs, mask |-> sigmask, alt |-> altstack, memory |-> memory,
         acts |-> sigactions, pending |-> pending, ok |-> TRUE]

Below(sp) == <<sp[1], sp[2] + 1>>

Fails(t) == [t EXCEPT !.ok = FALSE]

(* The slot of a new frame: the alternate stack when the handler wants it   *)
(* and the thread is not on it already, else below the stack pointer.       *)
FrameSlot(t, act) ==
    LET on_altstack == t.alt = "alt" /\ t.regs.sp[1] = "alt"
        frame_top == IF act.onstack /\ t.alt = "alt" /\ ~on_altstack THEN <<"alt", 0>>
                                                                     ELSE t.regs.sp
    IN  Below(frame_top)

(* deliver_signal with a handler: frame, mask and registers.                *)
PushFrame(t, s, act) ==
    LET slot == FrameSlot(t, act)
        on_altstack == t.alt = "alt" /\ t.regs.sp[1] = "alt"
        uc == [sig |-> s, regs |-> t.regs, mask |-> t.mask, alt |-> t.alt,
               restores |-> ~on_altstack, nodefer |-> act.nodefer]
    IN  IF slot \notin Slots THEN Fails(t)
        ELSE [t EXCEPT !.memory[slot] = uc,
                       !.mask = @ \cup act.mask \cup (IF act.nodefer THEN {} ELSE {s}),
                       !.regs = [pc |-> "handler", sp |-> slot],
                       !.acts[s] = IF act.resethand THEN Dfl ELSE @]

(* A forced signal the guest cannot handle kills the process.  Signals the  *)
(* guest left at the default action are modelled as terminating ones.       *)
deliver_signal(t, s, forced) ==
    LET act == t.acts[s] IN
    IF forced /\ (act \in {Dfl, Ign} \/ s \in t.mask) THEN Fails(t)
    ELSE IF act = Ign THEN t
    ELSE IF act = Dfl THEN Fails(t)
    ELSE PushFrame(t, s, act)

(* take_signal: the lowest pending signal the mask lets through.            *)
Deliverable(t) == t.pending \ t.mask

take_signal(t) == Min(Deliverable(t))

(* after_stop: dispatch_pending_signals until nothing is deliverable.       *)
RECURSIVE dispatch_pending_signals(_)
dispatch_pending_signals(t) ==
    IF ~t.ok \/ Deliverable(t) = {} THEN t
    ELSE LET s == take_signal(t)
         IN  dispatch_pending_signals(deliver_signal([t EXCEPT !.pending = @ \ {s}], s, FALSE))

(* One stop: its handler maps Here to t, then after_stop runs.              *)
Stop(t) ==
    LET u == IF t.ok THEN dispatch_pending_signals(t) ELSE t IN
    /\ state = "run"
    /\ regs' = u.regs /\ sigmask' = u.mask /\ altstack' = u.alt /\ memory' = u.memory
    /\ sigactions' = u.acts /\ pending' = u.pending
    /\ state' = IF u.ok THEN "run" ELSE "exiting"

InHandler == Live # {}

Counted == changes < MaxChanges /\ changes' = changes + 1

(* svc 0: rt_sigprocmask.  The history variables follow what the guest asks *)
(* for inside and outside its handlers.                                     *)
RtSigprocmask(how, set) ==
    LET mask == CASE how = "block" -> sigmask \cup set
                  [] how = "unblock" -> sigmask \ set
                  [] how = "setmask" -> set
    IN
    /\ Counted
    /\ Stop([Here EXCEPT !.mask = mask])
    /\ base_mask' = IF InHandler THEN base_mask ELSE mask
    /\ unblocked' = IF InHandler THEN unblocked \cup (sigmask \ mask) ELSE {}
    /\ UNCHANGED <<calls, posting, halted>>

RtSigaction(s, act) ==
    /\ Counted
    /\ sigactions[s] # act
    /\ Stop([Here EXCEPT !.acts[s] = act])
    /\ UNCHANGED <<calls, posting, halted, base_mask, unblocked>>

Sigaltstack(alt) ==
    /\ Counted
    /\ altstack # alt
    /\ Stop([Here EXCEPT !.alt = alt])
    /\ UNCHANGED <<calls, posting, halted, base_mask, unblocked>>

(* svc 0: sigreturn reads the frame at the stack pointer.  The handler has  *)
(* returned to its restorer, so that is the frame it was started on.        *)
sigreturn(t) ==
    LET uc == t.memory[t.regs.sp] IN
    [t EXCEPT !.regs = uc.regs, !.mask = uc.mask, !.memory[t.regs.sp] = NoFrame,
              !.alt = IF uc.restores THEN uc.alt ELSE @]

HandlerReturns ==
    /\ regs.pc = "handler"
    /\ Stop(sigreturn(Here))
    /\ UNCHANGED <<calls, posting, halted, base_mask, changes>>
    /\ unblocked' = IF Cardinality(Live) = 1 THEN {} ELSE unblocked

(* A memory fault, an illegal instruction or a breakpoint.                  *)
Fault(s) ==
    /\ Stop(deliver_signal(Here, s, TRUE))
    /\ UNCHANGED <<calls, posting, halted, base_mask, unblocked, changes>>

(* A host call whose handler calls guest code (GuestThread::call): the      *)
(* registers are saved on the host stack and restored when svc              *)
(* kHostReturnSwi arrives with the stack pointer of the call.               *)
CallGuest ==
    /\ state = "run" /\ Len(calls) < MaxCalls
    /\ Below(regs.sp) \in Slots
    /\ calls' = Append(calls, [saved |-> regs, sp |-> Below(regs.sp)])
    /\ regs' = [pc |-> "callee", sp |-> Below(regs.sp)]
    /\ UNCHANGED <<sigmask, altstack, memory, sigactions, pending, posting, halted, state,
                   base_mask, unblocked, changes>>

CallReturns ==
    /\ state = "run" /\ regs.pc = "callee" /\ calls # <<>>
    /\ regs.sp = calls[Len(calls)].sp
    /\ regs' = calls[Len(calls)].saved
    /\ calls' = SubSeq(calls, 1, Len(calls) - 1)
    /\ UNCHANGED <<sigmask, altstack, memory, sigactions, pending, posting, halted, state,
                   base_mask, unblocked, changes>>

(* The thread exits: the end of it, or, inside a call, of the process.  A   *)
(* process that exits unwinds its calls, each restoring its registers.      *)
Exit ==
    /\ state = "run"
    /\ state' = IF calls = <<>> THEN "finished" ELSE "exiting"
    /\ UNCHANGED <<regs, sigmask, altstack, memory, calls, sigactions, pending, posting, halted,
                   base_mask, unblocked, changes>>

Unwind ==
    /\ state = "exiting" /\ calls # <<>>
    /\ regs' = calls[Len(calls)].saved
    /\ calls' = SubSeq(calls, 1, Len(calls) - 1)
    /\ UNCHANGED <<sigmask, altstack, memory, sigactions, pending, posting, halted, state,
                   base_mask, unblocked, changes>>

(* post_signal of another thread: the bit, then the halt of the JIT.        *)
PostSignal(s) ==
    /\ posting = 0 /\ state = "run"
    /\ pending' = pending \cup {s}
    /\ posting' = s
    /\ UNCHANGED <<regs, sigmask, altstack, memory, calls, sigactions, halted, state, base_mask,
                   unblocked, changes>>

(* Mistake: the JIT is not halted after the bit is set. *)
HaltLost ==
    /\ posting # 0
    /\ posting' = 0
    /\ UNCHANGED <<regs, sigmask, altstack, memory, calls, sigactions, pending, halted, state,
                   base_mask, unblocked, changes>>

HaltExecution ==
    /\ posting # 0
    /\ posting' = 0 /\ halted' = TRUE
    /\ UNCHANGED <<regs, sigmask, altstack, memory, calls, sigactions, pending, state, base_mask,
                   unblocked, changes>>

(* run() returns Interrupted: the halt is cleared before after_stop looks   *)
(* at the pending set.                                                      *)
Interrupted ==
    /\ halted /\ halted' = FALSE
    /\ Stop(Here)
    /\ UNCHANGED <<calls, posting, base_mask, unblocked, changes>>

Next ==
    \/ \E s \in Sigs :
          \/ \E how \in {"block", "unblock", "setmask"} : RtSigprocmask(how, {s})
          \/ \E act \in Acts \cup {Dfl, Ign} : RtSigaction(s, act)
          \/ PostSignal(s)
    \/ \E s \in Faults : Fault(s)
    \/ \E alt \in {"none", "alt"} : Sigaltstack(alt)
    \/ HandlerReturns \/ CallGuest \/ CallReturns \/ Exit \/ Unwind
    \/ HaltExecution \/ Interrupted

Spec == Init /\ [][Next]_sigVars

-----------------------------------------------------------------------------
(* Types of the thread's state.                                             *)
TypeOK ==
    /\ regs.pc \in {"app", "handler", "callee"}
    /\ regs.sp \in Slots \cup {<<"main", 0>>}
    /\ sigmask \subseteq Sigs /\ pending \subseteq Sigs
    /\ altstack \in {"none", "alt"} /\ halted \in BOOLEAN
    /\ state \in {"run", "finished", "exiting"}

(* Every handler's return puts back what its frame interrupted: once no     *)
(* handler runs, the mask is the one the guest set outside handlers,        *)
(* whatever handlers nested, masked, or changed in between.                 *)
MaskBalanced == state = "run" /\ Live = {} => sigmask = base_mask

(* A handler is not started again while it runs, unless it asked for that   *)
(* with SA_NODEFER or unblocked the signal itself.                          *)
NoReentry ==
    \A a, b \in Live : a # b /\ memory[a].sig = memory[b].sig =>
        \/ memory[a].sig \in unblocked
        \/ memory[a].nodefer \/ memory[b].nodefer

FrameKept == \A a \in Live : memory'[a] # memory[a] => HandlerReturns /\ a = regs.sp

(* A new frame never lands on one that is still to be returned from, on the *)
(* alternate stack in particular (deliver_signal's on_altstack test).       *)
NoFrameLost == [][FrameKept]_sigVars

(* No posted signal is slept on: while one the thread does not block is     *)
(* pending, its sender is still inside post_signal or the JIT is halted and *)
(* will stop, wherever post_signal and the thread's own stops interleave.   *)
PostedIsHeard == state = "run" /\ pending \ sigmask # {} => posting # 0 \/ halted
=============================================================================
