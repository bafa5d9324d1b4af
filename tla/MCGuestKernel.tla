---------------------------- MODULE MCGuestKernel ----------------------------
(***************************************************************************)
(* The parts of the guest kernel: memory, signals, the other system calls, *)
(* ELF files, and the thread that host signals are forwarded to.  They     *)
(* share no state here, so a behaviour works on one of them.               *)
(***************************************************************************)
EXTENDS GuestMemory, SignalTarget

CONSTANTS Sigs, Faults, StackSlots, MaxCalls, MaxChanges, Tasks, MaxData, MaxMessages,
          WordMax, MaxBytes, MaxSlots, MaxSymbol, ElfPages

VARIABLES part,
          regs, sigmask, altstack, memory, calls, sigactions, pending, posting, halted, state,
          changes, base_mask, unblocked,
          perm, call, sys_sample,
          original, table, writes, status, scan, phnum, elf, load, space

signals == <<regs, sigmask, altstack, memory, calls, sigactions, pending, posting, halted,
             state, changes, base_mask, unblocked>>
syscalls == <<perm, call, sys_sample>>
elves == <<original, table, writes, status, scan, phnum, elf, load, space>>

MCProts == {{"r", "w"}, {"r", "x"}}

(* A handler on the alternate stack, and one that blocks signal 2 and       *)
(* resets itself.                                                           *)
Acts == {[handler |-> 2, onstack |-> TRUE, nodefer |-> FALSE, resethand |-> FALSE, mask |-> {}],
         [handler |-> 2, onstack |-> FALSE, nodefer |-> FALSE, resethand |-> TRUE, mask |-> {2}]}

Sig == INSTANCE GuestSignals
Sys == INSTANCE GuestSyscalls WITH Threads <- Tasks, sample <- sys_sample
Elf == INSTANCE GuestElf

NoSyscalls ==
    /\ perm = "-" /\ call = "-" /\ sys_sample = "-"

NoElf ==
    /\ original = "-" /\ table = "-" /\ writes = "-" /\ status = "-" /\ scan = "-"
    /\ phnum = "-" /\ elf = "-" /\ load = "-" /\ space = "-"

KernelInit ==
    /\ Init /\ Sig!Init /\ TargetInit
    /\ \/ part \in {"memory", "signals", "target"} /\ NoSyscalls /\ NoElf
       \/ part = "syscalls" /\ Sys!Init /\ NoElf
       \/ part = "elf" /\ Elf!Init /\ NoSyscalls

KernelNext ==
    /\ \/ part = "memory" /\ Next /\ UNCHANGED <<signals, syscalls, elves, targetVars>>
       \/ part = "signals" /\ Sig!Next /\ UNCHANGED <<vars, syscalls, elves, targetVars>>
       \/ part = "syscalls" /\ Sys!Next /\ UNCHANGED <<vars, signals, elves, targetVars>>
       \/ part = "elf" /\ Elf!Next /\ UNCHANGED <<vars, signals, syscalls, targetVars>>
       \/ part = "target" /\ TargetNext /\ UNCHANGED <<vars, signals, syscalls, elves>>
    /\ UNCHANGED part

KernelSpec ==
    /\ KernelInit
    /\ [][KernelNext]_<<part, vars, signals, syscalls, elves, targetVars>>
    /\ TargetFairness

-----------------------------------------------------------------------------
(* Handlers nest without harm.  Once none runs the mask is the guest's own; *)
(* a handler is not entered again while it runs; a new frame never lands on *)
(* one that is still to be returned from, on either stack; and no posted    *)
(* signal is slept on, wherever post_signal meets the thread's own stops.   *)
SignalsSafe ==
    /\ [](part = "signals" => Sig!TypeOK /\ Sig!MaskBalanced /\ Sig!NoReentry /\ Sig!PostedIsHeard)
    /\ Sig!NoFrameLost

(* A system call that answers an error has done nothing: no data is         *)
(* consumed, no connection accepted and no descriptor created that the      *)
(* guest never hears of, and the bridge never faults on a guest pointer.    *)
(* Timers, seeks and wait4 act before they copy, as in Linux, and an answer *)
(* that is no error is whole.                                               *)
(* The guest loses this only by remapping a buffer under a running call.    *)
(* Control messages and the sizes of sysinfo survive the change of layout.  *)
SyscallsSafe ==
    part = "syscalls" =>
        /\ Sys!TypeOK /\ Sys!ErrorsAreClean /\ Sys!AnswersComplete
        /\ Sys!ControlRoundTrip /\ Sys!RoomForControl /\ Sys!UnitFits

(* "The file is not written until the complete ELF structure has been       *)
(* validated and every requested fixup is known to fit" (elf_fixups.h), and *)
(* a finished fixup needs no second one; a scan misses no export although   *)
(* it walks one chain only; a load maps the pages of its segments or none.  *)
ElfSafe ==
    part = "elf" =>
        Elf!TypeOK /\ Elf!FixupIsSafe /\ Elf!FixupIsComplete /\ Elf!ExportsFound /\ Elf!LoadIsExact
=============================================================================
