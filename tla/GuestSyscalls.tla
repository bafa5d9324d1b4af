---------------------------- MODULE GuestSyscalls ----------------------------
(***************************************************************************)
(* handle_syscall of core/src/syscalls.cpp: system calls that move data    *)
(* between guest memory and the host kernel.  (The memory and the signal   *)
(* system calls are in GuestMemory and GuestSignals.)                      *)
(*                                                                         *)
(* What the kinds of call share is the order of three things: the checks   *)
(* of guest buffers, the host call with its effect, and the copies back    *)
(* into guest memory.  The shape of a kind says which buffers take part in *)
(* which.  Other guest threads may change the protection of a buffer at    *)
(* any moment: these calls do not hold mm_mutex.  The two conversions that *)
(* do arithmetic, of control messages and of sysinfo, follow.              *)
(***************************************************************************)
EXTENDS Integers, Sequences, FiniteSets, FiniteSetsExt, SequencesExt

CONSTANTS Threads,     \* guest threads
          MaxData,     \* data bytes of a control message
          MaxMessages, \* control messages of one sendmsg
          WordMax,     \* the largest 32-bit value, scaled down
          MaxBytes     \* the largest memory size the host reports

VARIABLES perm,   \* the flags of the pages under each buffer
          call,   \* per thread: the system call it is in
          sample  \* the input of the conversions, chosen at the start

sysVars == <<perm, call, sample>>

Buffers == {"a", "b"}

(* Behaviours either make system calls or only sample a conversion.         *)
NoSample == [messages |-> <<>>, capacity |-> 0, bytes |-> <<>>]

-----------------------------------------------------------------------------
(* Shapes: buffers checked readable and writable before the host call,      *)
(* buffers written after it whose failure is answered (late) or ignored     *)
(* (quiet), and what the host call does: "query" nothing, "take" data or a  *)
(* connection that is handed out once, "make" descriptors that are copied   *)
(* through the checked pointer, "put" what the guest gave away, "set" a     *)
(* timer, "seek" in a file, "reap" a child.                                 *)
Shape(ins, outs, late, quiet, effect) ==
    [ins |-> ins, outs |-> outs, late |-> late, quiet |-> quiet, effect |-> effect]

(* What many calls do: nothing with guest memory; give a buffer or a path   *)
(* away; ask, then write the answer.                                        *)
Plain == Shape({}, {}, {}, {}, "put")
Give == Shape({"a"}, {}, {}, {}, "put")
Ask == Shape({}, {}, {"a"}, {}, "query")

sys_read == Shape({}, {"a"}, {}, {}, "take")
sys_write == Give
sys_pread_pwrite == {sys_read, sys_write}
sys_readv_writev == {Shape({"b"}, {"a"}, {}, {}, "take"), Shape({"a", "b"}, {}, {}, {}, "put")}

(* Paths go through guest_cstr and translate_path.                          *)
sys_path_call == Give
sys_two_paths == Shape({"a", "b"}, {}, {}, {}, "put")
sys_utimensat == Shape({"a", "b"}, {}, {}, {}, "put")
sys_statx == Shape({"a"}, {"b"}, {}, {}, "query")
sys_stat_common == Ask
sys_fstatat64 == Shape({"a"}, {}, {"b"}, {}, "query")
readlinkat == Shape({"a"}, {"b"}, {}, {}, "query")

(* lseek has moved the file when it finds the position wider than 32 bits.  *)
sys_lseek == Shape({}, {}, {}, {}, "seek")
sys_llseek == Shape({}, {}, {"a"}, {}, "set")
sys_fcntl64 == Plain
sys_ioctl == Shape({"a"}, {"a"}, {}, {}, "query")
sys_pipe2 == Shape({}, {"a"}, {}, {}, "make")

(* The time left is written when it can be.                                 *)
sys_clock_get == Ask
sys_gettimeofday == Shape({}, {}, {"a", "b"}, {}, "query")
sys_clock_nanosleep == Shape({"a"}, {}, {}, {"b"}, "query")
sys_nanosleep == Shape({"a"}, {}, {}, {"b"}, "query")
sys_futex == Shape({"a", "b"}, {}, {}, {}, "query")
sys_prctl == {Plain, Give, Shape({}, {"a"}, {}, {}, "query")}
sys_uname == Ask
sys_ugetrlimit == Ask
sys_prlimit64 == Shape({"a"}, {"b"}, {}, {}, "set")

(* select also writes back its timeout.                                     *)
sys_poll == Shape({"a", "b"}, {"a"}, {}, {}, "query")
sys_select == Shape({"a", "b"}, {"a"}, {}, {"b"}, "query")
sys_epoll_wait == Shape({}, {"a"}, {}, {}, "take")

(* accept and getsockname take an address and its length.                   *)
sys_sockaddr_in == Give
sys_sockaddr_out == Shape({"b"}, {"a", "b"}, {}, {}, "take")
sys_sendto == Shape({"a", "b"}, {}, {}, {}, "put")
sys_recvfrom == Shape({"b"}, {"a", "b"}, {}, {}, "take")
sys_setsockopt == Give
sys_getsockopt == Shape({"a"}, {"a", "b"}, {}, {}, "query")

(* sendmsg and recvmsg: b is the msghdr, a everything it points to.  The    *)
(* msghdr of recvmsg is checked writable before the host call.              *)
build_host_message(receiving) == IF receiving THEN [ins |-> {}, outs |-> {"a"}]
                                              ELSE [ins |-> {"a"}, outs |-> {}]

sys_sendmsg == Shape({"b"} \cup build_host_message(FALSE).ins, {}, {}, {}, "put")

(* Mistake: the msghdr is only written after the message was taken. *)
RecvmsgLate == Shape({"b"}, build_host_message(TRUE).outs, {"b"}, {}, "take")

sys_recvmsg == Shape({"b"}, {"b"} \cup build_host_message(TRUE).outs, {}, {"b"}, "take")

sys_setitimer == Shape({"a"}, {}, {"b"}, {}, "set")
sys_getitimer == Ask
sys_sysinfo == Ask
timerfd_settime == Shape({"a"}, {}, {"b"}, {}, "set")
wait4 == Shape({}, {}, {"a"}, {"b"}, "reap")

(* The sections of the switch of handle_syscall.                            *)
FileCalls ==
    sys_pread_pwrite \cup sys_readv_writev \cup
    {sys_read, sys_write, Plain, sys_pipe2, sys_lseek, sys_llseek, sys_fcntl64, sys_ioctl,
     sys_path_call, readlinkat, sys_stat_common, sys_fstatat64, sys_statx}
SelfCalls ==
    sys_prctl \cup
    {sys_clock_get, sys_gettimeofday, sys_nanosleep, sys_clock_nanosleep, sys_futex, Plain,
     sys_read, sys_uname, sys_ugetrlimit, sys_prlimit64, sys_sockaddr_in}
TreeCalls == {sys_read, sys_two_paths, sys_path_call, sys_utimensat, sys_pipe2, Plain}
WaitCalls == {sys_poll, sys_select, sys_epoll_wait, timerfd_settime, Plain, Give, Ask}
SocketCalls ==
    {sys_sockaddr_in, sys_sockaddr_out, sys_pipe2, sys_sendto, sys_recvfrom, sys_setsockopt,
     sys_getsockopt, sys_sendmsg, sys_recvmsg, Plain}
TimeCalls == {sys_setitimer, sys_getitimer, sys_sysinfo, wait4, Plain, Give, Ask}

Shapes == FileCalls \cup SelfCalls \cup TreeCalls \cup WaitCalls \cup SocketCalls \cup TimeCalls

-----------------------------------------------------------------------------
Idle == [at |-> "guest", shape |-> Plain, given |-> {}, done |-> FALSE, raced |-> FALSE,
         written |-> {}, result |-> "ok"]

(* host_ptr, read_guest, guest_cstr: a null pointer is an absent argument.  *)
Readable(b) == "r" \in perm[b]
Writable(b) == "w" \in perm[b]

Checked(c) == /\ \A b \in c.shape.ins \cap c.given : Readable(b)
              /\ \A b \in c.shape.outs \cap c.given : Writable(b)

(* svc 0 with this call number; record_thread_activity.                     *)
Enter(t, shape, given) ==
    /\ sample = NoSample /\ call[t].at = "guest"
    /\ call' = [call EXCEPT ![t] =
                   [Idle EXCEPT !.at = "check", !.shape = shape, !.given = given]]
    /\ UNCHANGED <<perm, sample>>

(* The buffers are checked: EFAULT before anything happened, or go on.      *)
Check(t) ==
    /\ call[t].at = "check"
    /\ call' = [call EXCEPT ![t].at = IF Checked(call[t]) THEN "host" ELSE "return",
                            ![t].result = IF Checked(call[t]) THEN "ok" ELSE "EFAULT"]
    /\ UNCHANGED <<perm, sample>>

(* The host call fails with its errno, or has its effect.  The host kernel  *)
(* checks the buffers it is given itself, and answers EFAULT for one that   *)
(* was unmapped in the meantime.                                            *)
HostCall(t) ==
    LET c == call[t] IN
    /\ c.at = "host"
    /\ \/ call' = [call EXCEPT ![t].at = "return", ![t].result = "errno"]
       \/ /\ Checked(c)
          /\ call' = [call EXCEPT ![t].at = "copy", ![t].done = TRUE,
                                  ![t].written = c.shape.outs \cap c.given]
       \/ /\ ~Checked(c)
          /\ call' = [call EXCEPT ![t].at = "return", ![t].result = "EFAULT",
                                  ![t].done = c.shape.effect = "take"]
    /\ UNCHANGED <<perm, sample>>

(* write_guest after the host call, and the answer of lseek.  New           *)
(* descriptors are copied through the pointer of the check: pages gone      *)
(* since then fault in the bridge itself.                                   *)
CopyOut(t) ==
    LET c == call[t]
        faults == c.shape.effect = "make" /\ ~Checked(c)
        copies == (c.shape.late \cup c.shape.quiet) \cap c.given
        fails == \E b \in c.shape.late \cap c.given : ~Writable(b)
    IN
    /\ c.at = "copy"
    /\ \E wide \in BOOLEAN :
          /\ wide => c.shape.effect = "seek"
          /\ call' = [call EXCEPT ![t].at = IF faults THEN "fault" ELSE "return",
                                  ![t].written = @ \cup {b \in copies : Writable(b)},
                                  ![t].result = IF fails THEN "EFAULT"
                                                ELSE IF wide THEN "EOVERFLOW" ELSE "ok"]
    /\ UNCHANGED <<perm, sample>>

(* regs[0] = res; record_thread_activity_done.                              *)
Return(t) ==
    /\ call[t].at = "return"
    /\ call' = [call EXCEPT ![t] = Idle]
    /\ UNCHANGED <<perm, sample>>

(* Another thread maps, unmaps or protects the pages under a buffer.        *)
ChangeMapping(b, flags) ==
    /\ sample = NoSample /\ perm[b] # flags
    /\ perm' = [perm EXCEPT ![b] = flags]
    /\ call' = [t \in Threads |-> [call[t] EXCEPT !.raced = @ \/ call[t].at # "guest"]]
    /\ UNCHANGED sample

-----------------------------------------------------------------------------
(* Control messages, each given by its data bytes.  A guest header is 12    *)
(* bytes and messages are aligned to 4, a host header 16 and 8.  A header   *)
(* whose cmsg_len is shorter than itself has negative data.  A bound: no    *)
(* length is near 2^32.                                                     *)
Align(n, a) == ((n + a - 1) \div a) * a
GuestLen(d) == 12 + d
GuestSpace(d) == Align(GuestLen(d), 4)
HostSpace(d) == Align(16 + d, 8)

Total(ds, space(_)) == FoldSeq(LAMBDA d, n : space(d) + n, 0, ds)

(* The bytes a guest needs for its messages: no padding after the last.     *)
GuestTotal(ds) ==
    IF ds = <<>> THEN 0 ELSE Total(Front(ds), GuestSpace) + GuestLen(Last(ds))

(* control_to_host: the messages before the first that is malformed or does *)
(* not lie inside the first len bytes.                                      *)
control_to_host(ds, len) ==
    LET inside(n) == /\ \A i \in 1..n : ds[i] >= 0
                     /\ GuestTotal(SubSeq(ds, 1, n)) <= len
    IN  SubSeq(ds, 1, Max({n \in 0..Len(ds) : inside(n)}))

(* control_to_guest: [sent, offset, ctrunc] for the host's messages and a   *)
(* guest buffer of capacity bytes.                                          *)
Put(acc, d, capacity) ==
    IF acc.ctrunc \/ acc.offset + GuestLen(d) > capacity THEN [acc EXCEPT !.ctrunc = TRUE]
    ELSE [acc EXCEPT !.sent = Append(@, d),
                     !.offset = Min({capacity, @ + GuestSpace(d)})]

control_to_guest(ds, capacity) ==
    FoldLeft(LAMBDA acc, d : Put(acc, d, capacity),
             [sent |-> <<>>, offset |-> 0, ctrunc |-> FALSE], ds)

(* The host buffer recvmsg gives the kernel for a guest buffer.             *)
HostCapacity(capacity) == capacity * 2 + 64

(* sys_sysinfo: the unit every size is divided by.                          *)
RECURSIVE Grow(_, _)
Grow(unit, b) == IF b \div unit > WordMax THEN Grow(unit * 2, b) ELSE unit

guest_unit(bytes) == FoldSeq(LAMBDA b, unit : Grow(unit, b), 1, bytes)

Samples ==
    {NoSample} \cup
    [messages : BoundedSeq({-12, -1} \cup 0..MaxData, MaxMessages),
     capacity : {0, 11, 12, 13, 16, 28, 40},
     bytes : {<<>>}]
    \cup [messages : {<<>>}, capacity : {0}, bytes : [1..2 -> 0..MaxBytes]]

-----------------------------------------------------------------------------
Init ==
    /\ perm = [b \in Buffers |-> {"r", "w"}]
    /\ call = [t \in Threads |-> Idle]
    /\ sample \in Samples

Next ==
    \/ \E t \in Threads :
          \/ \E shape \in Shapes, given \in SUBSET Buffers : Enter(t, shape, given)
          \/ Check(t) \/ HostCall(t) \/ CopyOut(t) \/ Return(t)
    \/ \E b \in Buffers, flags \in SUBSET {"r", "w"} : ChangeMapping(b, flags)

Spec == Init /\ [][Next]_sysVars

-----------------------------------------------------------------------------
(* Where a thread is inside handle_syscall.                                 *)
TypeOK ==
    /\ perm \in [Buffers -> SUBSET {"r", "w"}]
    /\ \A t \in Threads :
          /\ call[t].at \in {"guest", "check", "host", "copy", "return", "fault"}
          /\ call[t].result \in {"ok", "errno", "EFAULT", "EOVERFLOW"}
          /\ call[t].written \subseteq Buffers

(* A system call that answers an error has consumed no data, accepted no    *)
(* connection and created no descriptor that the guest never hears of, and  *)
(* the bridge never faults on a guest pointer.  Timers, file positions and  *)
(* wait4 are as in Linux, which also acts before it answers an error.  The  *)
(* guest loses this only by remapping a buffer under a running call.        *)
ErrorsAreClean == \A t \in Threads :
    LET c == call[t] IN
    ~c.raced => /\ c.at # "fault"
                /\ c.at = "return" /\ c.done /\ c.result # "ok" =>
                       c.shape.effect \in {"query", "set", "seek", "reap"}

(* A call that succeeds has written every buffer it answers through: what   *)
(* write_guest drops silently is the time left, which Linux drops as well,  *)
(* and the rusage of wait4, never the msghdr that recvmsg checked.          *)
AnswersComplete == \A t \in Threads :
    LET c == call[t] IN
    ~c.raced /\ c.at = "return" /\ c.done /\ c.result = "ok" =>
        (c.shape.outs \cup c.shape.late) \cap c.given \subseteq c.written

(* Control messages survive the change of layout: what a guest sends, up to *)
(* the first malformed header, comes back complete in a buffer of the size  *)
(* it used, MSG_CTRUNC is raised exactly when some message did not fit, and *)
(* the length written never exceeds the guest's buffer.                     *)
ControlRoundTrip ==
    LET ds == sample.messages
        bad == SelectInSeq(ds, LAMBDA d : d < 0)
        whole == IF bad = 0 THEN ds ELSE SubSeq(ds, 1, bad - 1)
        sent == control_to_host(ds, GuestTotal(ds))
        back == control_to_guest(sent, GuestTotal(whole))
        cut == control_to_guest(whole, sample.capacity)
    IN  /\ sent = whole /\ back.sent = whole /\ ~back.ctrunc
        /\ cut.offset <= sample.capacity
        /\ cut.ctrunc <=> cut.sent # whole
        /\ cut.sent = control_to_host(whole, sample.capacity)

(* The buffer recvmsg hands the host kernel has room, in the host's layout, *)
(* for every list of messages that fits the guest's buffer: the kernel      *)
(* never drops descriptors the guest had room for.                          *)
RoomForControl ==
    LET ds == sample.messages IN
    (\A i \in DOMAIN ds : ds[i] >= 0) =>
        Total(ds, HostSpace) <= HostCapacity(GuestTotal(ds))

(* sysinfo reports every size in the smallest unit that makes all of them   *)
(* fit in 32 bits.                                                          *)
UnitFits ==
    LET unit == guest_unit(sample.bytes)
        fits(u) == \A i \in DOMAIN sample.bytes : sample.bytes[i] \div u <= WordMax
    IN  fits(unit) /\ (unit > 1 => ~fits(unit \div 2))
=============================================================================
