-------------------------------- MODULE Pipe ---------------------------------
(***************************************************************************)
(* One pipe (user/lib/pipe.c) and the processes that hold its ends.  The   *)
(* pipe is a page shared by all of them, without a lock: positions, a ring *)
(* of PIPE_SIZE bytes, and no record of who is reading or writing.         *)
(* Whether the other end is still open is read off the reference counts of *)
(* pages: the Fd page of an end is mapped once for every open descriptor   *)
(* of that end, the Pipe page once for every descriptor of either end.     *)
(* Closing, duplicating and inheriting a descriptor are two system calls,  *)
(* one for each page, and the clock may come between them.                 *)
(*                                                                         *)
(* Each step is one system call or one access to shared memory of one      *)
(* process p.  Any process may close, duplicate, fork, read, write or die  *)
(* at any time: in the line  a | b & c  the process to the right of the    *)
(* bar forks b and spawns c, and both read the same end while it does.     *)
(* The k-th byte written is the number k.                                  *)
(***************************************************************************)
EXTENDS Integers, Sequences, FiniteSets

CONSTANTS
  Proc,        \* process slots
  Creator,     \* the process that called pipe()
  PIPE_SIZE,
  WORD,        \* number of values of a u_int position, a multiple of PIPE_SIZE
  MaxLen,      \* bound on the bytes of one read or write
  MaxBytes,    \* bound on the bytes written
  MaxDup,      \* bound on the descriptors of the pipe after a dup()
  MaxFork      \* bound on the descriptors of the pipe after a fork() or spawn()

ASSUME PipeAssumption ==
  /\ IsFiniteSet(Proc) /\ Creator \in Proc
  /\ PIPE_SIZE \in Nat \ {0}
  /\ WORD \in Nat /\ WORD > PIPE_SIZE /\ WORD % PIPE_SIZE = 0
  /\ MaxLen \in Nat /\ MaxBytes \in Nat
  /\ MaxDup \in Nat /\ MaxFork \in Nat

End == {"r", "w"}
Other(e) == IF e = "r" THEN "w" ELSE "r"

VARIABLES
  fdref,    \* fdref[p][e]: mappings of end e's Fd page in p
  dataref,  \* dataref[p][e]: mappings of the Pipe page under descriptors of e
  pc,       \* where each process is; "none": not a process
  loc,      \* its locals
  stale,    \* processes whose env_runs has changed since they last read it
  p_rpos, p_wpos, p_buf,
  written,  \* history: number of stores to p_wpos
  missing,  \* history: bytes whose position was stored and they were not
  shared    \* history: two processes have used one end at the same time

refs == <<fdref, dataref>>
ring == <<p_rpos, p_wpos, p_buf, written, missing, shared>>
vars == <<refs, pc, loc, stale, ring>>

\* end: the end in use; n, i: length and index of the loop; pos, first: the
\* position a post-increment read, and whether it is stored before the byte of
\* the same C expression is accessed; byte: the byte read or to write; fd:
\* fd_ref; kid: the child of a fork.
NoLocals == [end |-> "r", n |-> 0, i |-> 0, pos |-> 0, first |-> FALSE,
             byte |-> 0, fd |-> 0, kid |-> Creator]

\* p is at c and runs: whoever is inside _pipe_is_closed has been interrupted
\* and will find that env_run has counted up its env_runs.
At(p, c) ==
  /\ pc[p] = c
  /\ stale' = {q \in Proc \ {p} : pc[q] \in {"checkfd", "checkpipe"}}
                 \cup (IF c = "checkfd" THEN stale \cap {p} ELSE {})

Goto(p, c, l) ==
  /\ pc' = [pc EXCEPT ![p] = c]
  /\ loc' = [loc EXCEPT ![p] = l]

Return(p) == Goto(p, "idle", NoLocals)

\* The mappings of a page, numbered in each process.
Mappings(ref, e) == UNION {{p} \X (1 .. ref[p][e]) : p \in Proc}

\* Mutant of FdRef: the Fd page of the wrong end.
OtherFdRef(e) == Cardinality(Mappings(fdref, Other(e)))

\* pageref(fd) of end e, and pageref(p).
FdRef(e) == Cardinality(Mappings(fdref, e))
DataRef(e) == Cardinality(Mappings(dataref, e))
PipeRef == DataRef("r") + DataRef("w")

-----------------------------------------------------------------------------
(* Descriptors: each step is one syscall_mem_map or syscall_mem_unmap *)

\* close(): pipe_close unmaps the Fd page, then the Pipe page.
CloseFd(p, e) ==
  /\ At(p, "idle")
  /\ fdref[p][e] > 0
  /\ fdref' = [fdref EXCEPT ![p][e] = @ - 1]
  /\ Goto(p, "close", [NoLocals EXCEPT !.end = e])
  /\ UNCHANGED <<dataref, ring>>

CloseData(p) ==
  /\ At(p, "close")
  /\ dataref' = [dataref EXCEPT ![p][loc[p].end] = @ - 1]
  /\ Return(p)
  /\ UNCHANGED <<fdref, ring>>

\* dup(): the data pages, then the Fd page.
DupData(p, e) ==
  /\ At(p, "idle")
  /\ fdref[p][e] > 0
  /\ PipeRef + 1 <= MaxDup
  /\ dataref' = [dataref EXCEPT ![p][e] = @ + 1]
  /\ Goto(p, "dup", [NoLocals EXCEPT !.end = e])
  /\ UNCHANGED <<fdref, ring>>

DupFd(p) ==
  /\ At(p, "dup")
  /\ fdref' = [fdref EXCEPT ![p][loc[p].end] = @ + 1]
  /\ Return(p)
  /\ UNCHANGED <<dataref, ring>>

\* fork() and spawn() give the child c the pages in the order of their
\* addresses: the Fd pages lie below FILEBASE, the data pages above it.
Fork(p, c) ==
  /\ At(p, "idle")
  /\ pc[c] = "none"
  /\ PipeRef + dataref[p]["r"] + dataref[p]["w"] <= MaxFork
  /\ pc' = [pc EXCEPT ![p] = "fork", ![c] = "child"]
  /\ loc' = [loc EXCEPT ![p].kid = c]
  /\ UNCHANGED <<refs, ring>>

ForkFd(p, e) ==
  LET c == loc[p].kid IN
  /\ At(p, "fork")
  /\ fdref[c][e] < fdref[p][e]
  /\ fdref' = [fdref EXCEPT ![c][e] = @ + 1]
  /\ UNCHANGED <<dataref, pc, loc, ring>>

ForkData(p, e) ==
  LET c == loc[p].kid IN
  /\ At(p, "fork")
  /\ fdref[c] = fdref[p]
  /\ dataref[c][e] < dataref[p][e]
  /\ dataref' = [dataref EXCEPT ![c][e] = @ + 1]
  /\ UNCHANGED <<fdref, pc, loc, ring>>

StartChild(p) ==
  LET c == loc[p].kid IN
  /\ At(p, "fork")
  /\ fdref[c] = fdref[p]
  /\ dataref[c] = dataref[p]
  /\ pc' = [pc EXCEPT ![p] = "idle", ![c] = "idle"]
  /\ loc' = [loc EXCEPT ![p] = NoLocals]
  /\ UNCHANGED <<refs, ring>>

\* env_free drops all mappings of p in one step: p has called exit(), or is
\* killed wherever it is.  A child whose parent is killed in fork never runs
\* and keeps the pages it was given.
Destroy(p) ==
  /\ pc[p] \notin {"none", "child"}
  /\ At(p, pc[p])
  /\ fdref' = [fdref EXCEPT ![p] = [e \in End |-> 0]]
  /\ dataref' = [dataref EXCEPT ![p] = [e \in End |-> 0]]
  /\ Goto(p, "none", NoLocals)
  /\ UNCHANGED ring

-----------------------------------------------------------------------------
(* _pipe_is_closed: retry until both counts were read in one time slice *)

CheckRuns(p) ==
  /\ At(p, "check")
  /\ Goto(p, "checkfd", loc[p])
  /\ UNCHANGED <<refs, ring>>

CheckFd(p) ==
  /\ At(p, "checkfd")
  /\ Goto(p, "checkpipe", [loc[p] EXCEPT !.fd = FdRef(loc[p].end)])
  /\ UNCHANGED <<refs, ring>>

\* Mutant of CheckPipe: env_runs is not compared.
CheckOnce(p) ==
  /\ At(p, "checkpipe")
  /\ Goto(p, IF loc[p].fd = PipeRef THEN "closed"
             ELSE IF loc[p].end = "r" THEN "read" ELSE "write",
          [loc[p] EXCEPT !.fd = 0])
  /\ UNCHANGED <<refs, ring>>

\* If the pipe is open the caller yields and looks at the ring again.
CheckPipe(p) ==
  /\ At(p, "checkpipe")
  /\ Goto(p, IF p \in stale THEN "check"
             ELSE IF loc[p].fd = PipeRef THEN "closed"
             ELSE IF loc[p].end = "r" THEN "read" ELSE "write",
          [loc[p] EXCEPT !.fd = 0])
  /\ UNCHANGED <<refs, ring>>

\* pipe_read or pipe_write returns what it has transferred so far.
ReturnClosed(p) ==
  /\ At(p, "closed")
  /\ Return(p)
  /\ UNCHANGED <<refs, ring>>

-----------------------------------------------------------------------------
(* pipe_read and pipe_write *)

Using(p, e) ==
  /\ pc[p] \in {"read", "get", "get2", "write", "put", "put2",
                "check", "checkfd", "checkpipe", "closed"}
  /\ loc[p].end = e

Begin(p, e, n) ==
  /\ At(p, "idle")
  /\ fdref[p][e] > 0
  /\ e = "w" => written + n + MaxLen * Cardinality({q \in Proc : Using(q, e)}) <= MaxBytes
  /\ Goto(p, IF e = "r" THEN "read" ELSE "write",
          [NoLocals EXCEPT !.end = e, !.n = n])
  /\ shared' = (shared \/ \E q \in Proc : Using(q, e))
  /\ UNCHANGED <<refs, p_rpos, p_wpos, p_buf, written, missing>>

\* p->p_wpos - p->p_rpos, in u_int arithmetic.
Unread == (p_wpos - p_rpos) % WORD

\* Mutants: the operands of Empty exchanged, and Full off by one.
EmptySwapped == p_wpos >= p_rpos
FullLate == Unread > PIPE_SIZE
Empty == p_rpos >= p_wpos
Full == Unread >= PIPE_SIZE

\* The test of the for loop and of the while loop in it.
ReadTest(p) ==
  LET l == loc[p] IN
  /\ At(p, "read")
  /\ \/ /\ l.i = l.n
        /\ Return(p)
     \/ /\ l.i < l.n
        /\ Empty
        /\ IF l.i >= 1 THEN Return(p) ELSE Goto(p, "check", l)
     \/ /\ l.i < l.n
        /\ ~Empty
        /\ \E f \in BOOLEAN :
             Goto(p, "get", [l EXCEPT !.pos = p_rpos, !.first = f])
  /\ UNCHANGED <<refs, ring>>

\* rbuf[i] = p->p_buf[(p->p_rpos++) % PIPE_SIZE] is two accesses to the page,
\* which C leaves unordered; loc has the position that the increment read.
Byte(l) == p_buf[l.pos % PIPE_SIZE]

Get(p) ==
  LET l == loc[p] IN
  /\ \/ /\ At(p, "get")
        /\ p_rpos' = IF l.first THEN (l.pos + 1) % WORD ELSE p_rpos
        /\ Goto(p, "get2", IF l.first THEN l ELSE [l EXCEPT !.byte = Byte(l)])
     \/ /\ At(p, "get2")
        /\ p_rpos' = IF l.first THEN p_rpos ELSE (l.pos + 1) % WORD
        /\ Goto(p, "read", [NoLocals EXCEPT !.end = "r", !.n = l.n, !.i = l.i + 1])
  /\ UNCHANGED <<refs, p_wpos, p_buf, written, missing, shared>>

WriteTest(p) ==
  LET l == loc[p] IN
  /\ At(p, "write")
  /\ \/ /\ l.i = l.n
        /\ Return(p)
     \/ /\ l.i < l.n
        /\ Full
        /\ Goto(p, "check", l)
     \/ /\ l.i < l.n
        /\ ~Full
        /\ \E f \in BOOLEAN :
             Goto(p, "put", [l EXCEPT !.pos = p_wpos, !.first = f,
                                      !.byte = written + 1])
  /\ UNCHANGED <<refs, ring>>

\* p->p_buf[(p->p_wpos++) % PIPE_SIZE] = wbuf[i] likewise.
PutByte(l) ==
  /\ p_buf' = [p_buf EXCEPT ![l.pos % PIPE_SIZE] = l.byte]
  /\ missing' = missing \ {l.byte}
  /\ UNCHANGED <<p_wpos, written>>

PutIndex(l) ==
  /\ p_wpos' = (l.pos + 1) % WORD
  /\ written' = written + 1
  /\ missing' = IF l.first THEN missing \cup {l.byte} ELSE missing
  /\ UNCHANGED p_buf

Put(p) ==
  LET l == loc[p] IN
  /\ \/ /\ At(p, "put")
        /\ IF l.first THEN PutIndex(l) ELSE PutByte(l)
        /\ Goto(p, "put2", l)
     \/ /\ At(p, "put2")
        /\ IF l.first THEN PutByte(l) ELSE PutIndex(l)
        /\ Goto(p, "write", [NoLocals EXCEPT !.end = "w", !.n = l.n, !.i = l.i + 1])
  /\ UNCHANGED <<refs, p_rpos, shared>>

-----------------------------------------------------------------------------
\* pipe() has returned in its creator, with one descriptor for each end.
Init ==
  /\ fdref = [p \in Proc |-> [e \in End |-> IF p = Creator THEN 1 ELSE 0]]
  /\ dataref = fdref
  /\ pc = [p \in Proc |-> IF p = Creator THEN "idle" ELSE "none"]
  /\ loc = [p \in Proc |-> NoLocals]
  /\ stale = {}
  /\ p_rpos = 0
  /\ p_wpos = 0
  /\ p_buf = [k \in 0 .. PIPE_SIZE-1 |-> 0]
  /\ written = 0
  /\ missing = {}
  /\ shared = FALSE

\* Steps with which p goes on with what it is doing.
Progress(p) ==
  \/ CloseData(p) \/ DupFd(p) \/ StartChild(p)
  \/ \E e \in End : ForkFd(p, e) \/ ForkData(p, e)
  \/ CheckRuns(p) \/ CheckFd(p) \/ CheckPipe(p) \/ ReturnClosed(p)
  \/ ReadTest(p) \/ Get(p) \/ WriteTest(p) \/ Put(p)

Next ==
  \E p \in Proc :
    \/ Progress(p)
    \/ \E e \in End :
         CloseFd(p, e) \/ DupData(p, e) \/ \E n \in 1 .. MaxLen : Begin(p, e, n)
    \/ \E c \in Proc : Fork(p, c)
    \/ Destroy(p)

Spec == Init /\ [][Next]_vars

\* Every process gets the CPU (RunnableRuns of KernelEnv) and gets on; a time
\* slice is long enough for the loads of _pipe_is_closed.
FairSpec ==
  /\ Spec
  /\ \A p \in Proc :
       /\ WF_vars(Progress(p))
       /\ SF_vars(p \notin stale /\ CheckFd(p))
       /\ SF_vars(p \notin stale /\ CheckPipe(p))

-----------------------------------------------------------------------------
(* Properties *)

\* References are counts, positions are words, the ring holds bytes written.
TypeOK ==
  /\ fdref \in [Proc -> [End -> Nat]]
  /\ dataref \in [Proc -> [End -> Nat]]
  /\ p_rpos \in 0 .. WORD-1
  /\ p_wpos \in 0 .. WORD-1
  /\ p_buf \in [0 .. PIPE_SIZE-1 -> Nat]
  /\ written \in Nat

\* A child that has more mappings of end e's Fd page than of the Pipe page.
HalfInherited(c, e) == pc[c] = "child" /\ dataref[c][e] < fdref[c][e]

\* _pipe_is_closed finds the pipe closed although descriptors of the other end
\* are left only at an instant when fork or spawn has given a child the Fd page
\* of this end and not yet the Pipe page: no order of the two unmaps of close,
\* the two maps of dup, the two loads of the test and the death of any process
\* does it (user/testpiperace.c).  A reader told so drops the rest of its
\* input.
ClosedOrForking ==
  [][\A p \in Proc :
       pc[p] = "checkpipe" /\ pc'[p] = "closed" =>
         \/ DataRef(Other(loc[p].end)) = 0
         \/ \E c \in Proc : HalfInherited(c, loc[p].end)]_vars

\* A byte whose position was stored and that was not taken is in its place in
\* the ring, whichever of its two accesses each side did first and wherever
\* readers and writers were killed; only one whose writer was stopped between
\* its two stores is not there.  This is while no end has had two users at the
\* same time: pipe.c has no lock.
UnreadKept ==
  ~shared =>
    \A k \in written - Unread + 1 .. written :
      p_buf[(k-1) % PIPE_SIZE] = k \/ k \in missing

\* Descriptors of end e are on the move: one is being closed or duplicated, or
\* a child is being made, or was left half made when its parent was killed.
Moving(e) ==
  \E q \in Proc : pc[q] = "child" \/ (pc[q] \in {"close", "dup"} /\ loc[q].end = e)

\* A process that reads or writes returns once every descriptor of the other
\* end is gone: neither side of a pipeline hangs on a partner that has died,
\* unless other holders of its own end keep making and closing descriptors, or
\* a child was left half made: the test then may never find equal counts.
EndsWhenAlone ==
  \A p \in Proc, e \in End :
    Using(p, e) /\ DataRef(Other(e)) = 0 ~> ~Using(p, e) \/ Moving(e)

\* A reader that finds data returns, however the writer is interleaved, unless
\* another one shares its end and takes the data.
DataEndsRead ==
  \A p \in Proc : Using(p, "r") /\ p_rpos # p_wpos ~> ~Using(p, "r") \/ shared

\* The post-condition of _pipe_is_closed (user/lib/pipe.c:88): it returns 1
\* only if the pipe is closed.
NoFalseClose ==
  \A p \in Proc : pc[p] = "closed" => DataRef(Other(loc[p].end)) = 0

\* user/testpipe.c compares what it read with what it wrote: one reader and one
\* writer, and the bytes come out as they went in.
Fifo ==
  [][\A p \in Proc :
       LET l == loc[p] IN
       pc[p] = "get2" /\ pc'[p] = "read" /\ ~shared =>
         (IF l.first THEN Byte(l) ELSE l.byte) = written - Unread']_vars

\* The post-condition of pipe_read (user/lib/pipe.c:124): it returns more
\* than 0 unless the pipe is closed and nothing was written since the last
\* read.
EofMeansDrained ==
  \A p \in Proc :
    pc[p] = "closed" /\ loc[p].end = "r" => p_rpos = p_wpos
=============================================================================
