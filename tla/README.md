# Verification of the MOS shell and the kernel under it

This directory holds TLA+ models of a small MIPS operating system (kernel,
user library, file server) and of the shell that was added to it, TLC
configurations that check them on small instances, and TLAPS proofs, for every
instance, about the process manager, its lists, memory, copy-on-write, pipes,
the shell and its job table, and the file server's open files. `PROJECT.json`
lists the components, runs, theorems, findings and hazards, and maps each
definition to the lines it models.

## 1. The system

| Part | State | Operations | Hard because |
| --- | --- | --- | --- |
| Environment table (`kern/env.c`) | `envs[]`, `env_free_list`, ASID bitmap, id counter, `jobs[]` | alloc, create, free, destroy, `envid2env` | slots, ids, ASIDs and fields are reused and mostly not reset |
| Scheduler (`kern/sched.c`) | `env_sched_list`, `curenv`, static slice `count` | `schedule(yield)` | called from six places with the list in different conditions |
| Lists (`include/queue.h`) | links inside `struct Env` and `struct Page` | insert, remove | removed elements keep stale links |
| System calls (`kern/syscall_all.c`) | wait flags, message and return value in each `Env` | exofork, set status, destroy, IPC, return value, memory map/unmap | senders link receivers, flags and status must agree |
| Memory (`kern/pmap.c`, `kern/tlbex.c`) | `pages[]` with `pp_ref`, page tables, TLB | alloc, insert, lookup, remove, passive allocation | shared pages, counts, stale TLB entries |
| `fork`, `spawn` (`user/lib`) | page tables of parent and child | share, copy on write, load | many system calls, interruptible between any two |
| Descriptors and pipes (`user/lib/fd.c`, `pipe.c`) | Fd pages, Pipe page, both shared without locks | open, close, dup, read, write | the number of open ends is read off page reference counts |
| Shell (`user/sh.c`, `libos.c`, `wait.c`) | a process per line and per operator, return values, jobs | parse, fork, spawn, receive, forward | lost wake-ups, slot reuse, status passed through a chain of processes |
| Blocks and files (`fs/fs.c`, `fs/ide.c`, `tools/fsformat.c`) | disk, block cache with dirty bits, bitmap, `struct File`s in directories | walk, create, grow, truncate, remove, flush, sync | pages and structures are reused without being cleared; the disk fills up half way; cache and disk differ |
| File requests (`fs/serv.c`, `user/lib/file.c`, `fsipc.c`) | `opentab`, Filefd pages, the clients' mappings of cache pages | open, map, set_size, dirty, close, remove, sync | a library call is several requests; clients share pages with the server, fork, and are killed |
| Console, printing, strings, `bintoc` | none shared | I/O and pure functions | not modelled |

The kernel runs with interrupts off: one system call or clock interrupt is one
atomic step. User processes interleave between any two of their instructions.
They interact through system calls, through `envs[]` and `pages[]`, which are
mapped read-only into every process, and through shared pages.

What makes the parts correct: the run list holds exactly the runnable
environments; no flag, link, id or ASID of a dead process reaches its
successor; nobody starves; a message is not overwritten before it is read; a
pipe keeps what was written until it is read, and ends when the other side is
gone and not before; a command runs iff the line says so; the prompt comes back; a block of
the disk has one owner and is not free while it has one; an open file stays its
client's; the data of a file that was closed is on the disk; every request is
answered.

## 2. The modules

| Module | Models | Used by |
| --- | --- | --- |
| `Queue` | the lists of `queue.h` as sequences | `KernelEnv`, `RunList` |
| `KernelEnv` | environment table, scheduler, process and IPC system calls | `Shell`, `KernelEnvProofs`, `MCKernelEnv` |
| `RunList` | abstract specification of `env_sched_list` | `SchedQueue` |
| `SchedQueue` | `env_sched_list` with its pointers | `MCSchedQueue` |
| `Shell` | the shell's processes on top of `KernelEnv`, and the job table | `MCShell` |
| `Pipe` | one pipe, its descriptors and the processes holding them | `MCPipe` |
| `AddrSpace` | physical pages, page tables, TLB, address spaces, memory system calls | `MCAddrSpace` |
| `CowFork` | `fork`, `duppage` and the copy-on-write handler | `MCCowFork` |
| `BlockCache` | disk, block cache, bitmap (`fs/ide.c`, first half of `fs/fs.c`), as operators | `FileSys` |
| `FileSys` | files and directories (second half of `fs/fs.c`), as operators | `FsFormat` |
| `FsFormat` | the disk image of `tools/fsformat.c` | `FileCalls`, `FileServer` |
| `FileCalls` | any sequence of calls of `fs/fs.c`, with clients writing their pages | `MCFileCalls` |
| `FileServer` | the requests, the library calls that make them, and the IPC between them | `MCFileServer` |
| `QueueProofs` | lemmas on the lists of `Queue` | `KernelEnvProofs`, `SchedQueueProofs` |
| `KernelEnvProofs`, `SchedQueueProofs`, `ShellProofs`, `AddrSpaceProofs`, `CowForkProofs`, `PipeProofs`, `FileServerProofs` | the theorems of section 4 about the module they are named after | |

Definitions keep the names of the C functions and fields where there is one.
Operators called "Mutant of ..." are plausible bugs; replacing the named
definition by one must break the property that `PROJECT.json` pairs with it.

**KernelEnv.** The fields of `struct Env` are functions from slots; an id is the
pair of serial number and slot; `env_free_list` and `env_sched_list` are
sequences. Each system call is one action whose guard is the condition under
which it changes anything: an error return is a stuttering step. `schedule` is
an operator with the caller's `curenv`, statuses and list as arguments, because
its callers change these first. `child` is the one variable the kernel does not
have: it remembers the child that a running `fork` or `spawn` is building, so
that `sys_set_env_status` is called only as those functions call it.
`sys_env_destroy` is called only on runnable targets; the one caller that does
otherwise is `spawn`'s error path, which `SchedQueue` models.

**SchedQueue.** `tqh_first`, `tqh_last`, `tqe_next` and `tqe_prev` are memory;
the macros are translated store by store. The actions are the callers. `Walk`
reads the list off the links and is the refinement mapping to `RunList`, whose
operations are the ones `KernelEnv` uses on its sequence. So `KernelEnv` may
work with sequences.

**Shell.** `Shell` extends `KernelEnv`; `pc` and `loc` give each slot a program
counter and the shell's locals, which `fork` copies. A step is a system call of
the running process or a read between two of them; `Clock` may come in between.
A line is a sequence of tokens, and a token for a command stands for its
arguments too. `hist` is a history variable: what each command of each line
returned. `Meaning` computes from it, independently of the processes, which
commands a line asks for. The file server is not among the processes: opening
a program either succeeds or fails. The job table is unbounded in the model.

**Pipe.** For each process and each end, the number of mappings of the Fd page
and of the Pipe page; a reference count is the number of mappings there are.
`close`, `dup`, `fork` and `spawn` take one step per mapping. `_pipe_is_closed`
takes one step per load, and `stale` says whether `env_runs` has changed since
the process read it. The position and the byte of `p_buf[p_wpos++ % PIPE_SIZE]`
are two accesses, and each time either may be the first, since C does not order
them; the load of the position, and the two loads of a loop test, are one step
with what is done with them. Nothing restricts who holds or uses an end, when
it forks or where it dies: in `a | b & c` the process on the right of the bar
forks `b` (`sh.c:266`) and spawns `c` (`sh.c:371`), and `b` may be reading
meanwhile. Two processes that use one end at the same time race on its position,
as `pipe.c` has no lock. Three history variables: `written` numbers the bytes,
`missing` has those whose position was stored before the byte was, `shared` says
that an end has had two users at a time.

**AddrSpace.** `pp_ref` and `page_free_list`; per environment a directory
page, the pages of its page tables (`pgdir`) and the entries of its user pages
(`pt`); per ASID the valid TLB entries. The window `UVPT`, through which a
program reads its own tables, is part of the address space: a miss there loads
the page of a table, and creates the table if there is none, as
`passive_alloc` does. A refill loads an even and an odd page, a flush empties
both. Loops that the kernel runs without interruption (`env_free`,
`page_insert` with `page_remove` inside it) are single steps in closed form.
`lost` is a history variable: the pages that a failed `env_alloc` or
`sys_mem_alloc` took and did not give back. Which page `page_alloc` takes is the
parameter `Choices`. Callers are arbitrary: any system call with any legal
argument, at any time.

**CowFork.** Builds on what `AddrSpace` establishes: programs see their page
tables (`TlbCoherent`) and a page is free iff nobody maps it (`FreeExact`). Each
system call of `fork`, `duppage` and `cow_entry` is a step of its own, `fork[e]`
and `cow[e]` say where an environment is in them. Every call of `fork` first
writes the stack, so a stack that has just been made copy-on-write faults
inside `fork`. `view` is a history variable: what a program last wrote to a page,
or inherited.

**BlockCache, FileSys, FsFormat.** The server runs one handler at a time, so a
function of `fs/fs.c` is an operator on the server's state, a record, that
returns the new state and the C result. A block is what its bytes mean: zeros,
a client's data, File structures, block numbers, the super block; what a block
means to a reader that takes it for something else is the stop reason `"wild"`,
after which nothing is claimed. A `struct File *` is the block and the index it
points to, so a pointer that has become stale stays what it is. The contents of
a cache page survive free and reuse, as in `map_block`. A panic sets `stop`;
`Try` is the `if ((r = f()) < 0) return r` of the code.
The functions keep the order of their effects where a failure may come in
between (a directory grows before it has a block, the bitmap is on the disk
before the block has an owner, the indirect block is allocated before the data
block). `FsFormat` computes the image from a list of files, and `fs_init` runs
on it: that is the initial state of both machines.

**FileCalls.** The operations of `fs/fs.c` that `fs/serv.c` calls, in any order
and with any pointer that `opentab` may hold. `held` and `given` only grow:
structures and pages may be used long after the file was removed. Through
`Store` a client writes any page it was once given. `target` is a history
variable: the file that the last call cuts off.

**FileServer.** Per client: where it is in a request (`pc`), the request, the
library call it belongs to (`k`), the slot mapped at each descriptor, and the
cache page (or a page of the client's own) at each data page. A request is
served in one step, and answered in another one that needs the client to be in
`ipc_recv`. Between these the other clients go on. The server's polling of the
disk yields the CPU within a request too; what a client can do then is write
its pages or its Filefd page, which the server does not read, or unmap them,
which commutes with the request except that a page on its way to the disk may
be half old and half new. `ff` holds what the code reads of the Filefd page:
size, mode and offset, shared by all that have the page mapped, whereas new
data pages reach only the process that asked for them. `shaken` is a history
variable: the slots whose file somebody else opened, removed or inherited, or
that had a failed request; the properties that say what one client may rely on
except them. `SendFails` keeps that `_user_panic` calls `exit`, which closes
files: a client of a dead server with an open file never ends.

## 3. The runs

| Run | Instance | What it shows |
| --- | --- | --- |
| `kernel` | 3 slots, 3 ASIDs, priority 2, 4 creations | lists, flags, ids and ASIDs stay consistent; no starvation, no overwritten message |
| `sched_queue` | 4 environments | the links are a well-formed list of the runnable environments and implement `RunList` |
| `shell` | 7 slots, 8 creations, 9 sessions | commands run iff they should; statuses reach the right process; Done jobs have ended |
| `shell_live` | 5 one-line sessions | the prompt comes back, or some process is stranded |
| `pipe` | 3 processes, ring of 1, 2 bytes, up to 4 descriptors | an open pipe looks closed only in the middle of a `fork`; unread bytes are kept while each end has one user |
| `pipe_live` | 2 processes, ring of 1, 2 bytes in one call | nobody hangs on a dead partner; data is read |
| `addr_space` | 3 slots, 2 ASIDs, 5 pages, 2 page tables of 2 pages each, a TLB of 1 entry | counts, free list, tables and TLB agree; nobody reaches a page table |
| `cow_fork` | 2 slots, 4 pages, 2 values | private pages keep what was written, shared pages stay shared, no fault without a handler, `fork` returns |
| `file_calls` | 9 blocks, 1 direct pointer, files of up to 2 blocks, 2 structures per block, 6 calls | one owner per block, no named block is free in memory or on disk, a call damages no other file |
| `file_server` | 7 blocks, 2 clients, 2 slots, 4 library calls, one kill | slots are kept, pages are the file's, the data of closed files is on the disk, requests are answered, the server ends only as stated |
| `shell_lost`, `file_clear` | one session; the instance of `file_server` | the findings of section 6 |

Why the bounds are enough to be interesting: with three slots one process runs
while a second waits and a third is built, woken or killed, and the fourth
creation takes a slot over with the fields its predecessor left. Priority 2
makes a slice both continue and end. Four elements give the list a first, two
middle and a last position. Seven slots hold every process of the longest line
(three commands, their subshells and the shell), so `fork` never fails in the
sessions; eight creations are enough for all of them. In `pipe`, three processes
let one use an end while a second gives it to a third, or closes or duplicates
it; four descriptors are two readers and a writer with one to spare, and cover
the schedule of `user/testpiperace.c`; in a ring of one byte the second one
finds it full and goes round. (A ring of two with four bytes is in
`MCPipeRing.cfg`, with two processes; `UnreadKept` holds there too.) With two
processes, as in `pipe_live`, nobody uses an end while another makes a child,
but a child may be left half made; `EndsWhenAlone` was checked with three
processes and no bytes as well. Five pages hold two address spaces with one page table each
and a page they share, and run out in every other case, so every failing path
is taken; the third slot meets the lack of ASIDs. One TLB entry is enough
because `TlbCoherent` speaks of each entry alone; pages and slots are symmetric.
In `cow_fork` four pages let parent and child each copy a page, and run out
within a `fork`; a slot that is used again gives grandchildren, which inherit
pages that are copy-on-write already. In `file_calls` a file of two blocks
has an index block, two free blocks are used up by growing it or a directory,
and six calls are enough to create, open, grow, remove and reuse; all three
ways to stop and a full disk are reached. In `file_server` four library calls
are up to a dozen requests; a file can be open twice, inherited, truncated and
removed under another client, and the disk fills up while a file grows. A write
is one block long, a seek goes to 0; two slots are enough for both clients, so
that `open_alloc` does not fail, and directories are made in `file_calls` only.
`MaxAlloc`, `MaxBytes`, `MaxDup`, `MaxFork`, `MaxCalls` and `MaxOps` bound the counters; runs
end when they are used up, and the kernel stops when it panics, so deadlock is
not an error in these runs.

Fairness. `KernelEnv`: weak fairness of the clock alone, because `env_pop_tf`
re-arms it whenever a process is resumed. `Shell`: in addition, strong fairness
of each process's steps, because a time slice is long against an instruction:
a process that is given the CPU again and again gets on. `Pipe`: weak fairness
of each process that is in the middle of something (`RunnableRuns` of
`KernelEnv` is the reason), and strong fairness of reading both counts within
one slice. `CowFork`: weak fairness of each environment that is in `fork` or in
the handler, for the same reason; what it does next is then determined.
`FileServer`: weak fairness of the server while it has a request or an answer,
and of each client inside a call. Which of several requests comes next is left
open; a history has finitely many calls, so that every client has its turn.

The type invariants `TypeOK` of `Pipe`, `AddrSpace`, `CowFork` and `FileServer` and
`ShellTypeOK` are not in the listed runs; they hold there too if they are added
to the configuration.

## 4. The proofs

Each theorem holds for every value of the constants that the named assumptions
of the module allow. All of them go the same way: an inductive invariant, one
lemma per action or group of actions that it survives the step, and a theorem
that combines them. TLC finds each invariant to hold on the instance of the
module's run too (`MInv` of `ShellProofs` on its lines without `kill`).

| Module | Theorem | States |
| --- | --- | --- |
| `KernelEnvProofs` | `KernelInvariant`, `KernelTypes` | `IInv`, `TypeOK` |
| | `SchedListExact` | `SchedIffRunnable`, the comment at `kern/env.c:15` |
| | `NoStaleWaitFlag` | `WaitFlags` |
| | `OnlyRunnableRuns`, `PanicsOnlyIdle` | `CurenvRuns`, `PanicOnlyIfIdle` |
| | `AsidsExact` | `AsidExact` |
| | `DeadIdsStayDead` | `DeadStaysDead`, on which `wait()` relies |
| | `MessagesStable` | `MessageStable` |
| | `RoundRobin` | `NoOvertaking` |
| `SchedQueueProofs` | `LinksStayWellFormed` | `WellLinked` |
| | `LinksListTheRunnable` | `ListedIffRunnable` |
| | `LinksImplementTheList` | `ImplementsRunList`: the pointers implement `RunList` |
| `AddrSpaceProofs` | `TlbStaysCoherent` | `TlbCoherent` |
| | `RefsStayExact`, `FreeStaysExact`, `TablesStayPrivate`, `TypeCorrect` | `RefsExact`, `FreeExact`, `TablesPrivate`, `TypeOK`, all under `[]NoWrap` |
| `CowForkProofs` | `Isolation` | `TypeOK /\ OwnMemory` |
| | `WritesArePrivate`, `LibraryStaysShared`, `HandlersReady` | `WritableIsPrivate`, `LibraryShared`, `HandlerReady` |
| `PipeProofs` | `FalseCloseOnlyInFork` | `ClosedOrForking` |
| | `UnreadBytesKept` | `UnreadKept` |
| `FileServerProofs` | `OpenSlotsStay` | `OpenSlotKept` |
| `ShellProofs` | `DoneJobsHaveEnded` | `DoneMeansEnded`, for any sessions |
| | `ShellKeepsKernel` | the `IInv` of `KernelEnvProofs`, of the shell's processes |
| | `NobodyWakesEarly` | `NoEarlyReturn`, under `RegularSessions` |
| | `CommandsRunOnlyWhenDue` | `OnlyWhenDue`, under `PlainSessions` |
| | `ConditionsSeeTheStatus` | `ConditionSeesStatus`, under `PlainSessions` |
| | `NoCommandIsForgotten` | `NoneForgotten`, under `PlainSessions` |

Assumptions. `KernelAssumption`: at least one slot and one ASID, positive
priorities, fewer than 2^21 creations (the width of the serial number in an
`env_id`). `ShellAssumption`: a session's lines begin with a word; -1, 0 and 1
are return values and 1 is a priority. `PipeAssumption` and `ServerAssumption`:
finitely many processes, finitely many slots and descriptors, modes made of
flags. Some theorems have a hypothesis besides. `NoWrap` says that no page ever
has 2^16 references: `pp_ref` would wrap, and the code does not test for it.
The address spaces are large enough for programs that map one page everywhere to
get there, so the hypothesis is about the programs.

`RegularSessions` and `PlainSessions` are about what the user types: sessions
of any number of lines, of any length, each in `RegularLine` or `PlainLine`. All
lines of the run `shell` are in `RegularLine`, and all but `kill` in `PlainLine`.
The shell does not do what a line means on the others, so the theorems cannot
leave the hypotheses out; TLC has a counterexample for each:

* `RegularLine` forbids `&&` and `||` to the right of a `|`, a trailing `;` or `&`
  after a `|`, and two operators in a row. In `a | b && c`, the process of `c`
  has `a`'s process as its parent; if `b` fails, `c` is skipped, its process
  sends 0 to its parent all the same, and the subshell of `a` goes on while `a`
  still runs.
* `PlainLine` is a `RegularLine` in which commands and operators alternate. After
  `&&` there is no further operator and after `||` only `&&` and `||`: a command
  that is skipped reports 0, which is the status to its left only if it was `||`
  that skipped it; and `;`, `&` and `|` run the skipped command.
* It has no `kill`, which may hit the process that `;` waits for: after `a &`,
  the line `kill 1 & b ; c` may run `c` before `b` has run, when the job has
  ended and the subshell of `b` got its slot.

**KernelEnv.** No part of `IInv` is inductive alone. Unlinking `curenv` needs it
to be in the list, that is RUNNABLE (`CurenvRuns`). Waking a receiver must not
link it twice, so a raised flag must mean that it is blocked (`WaitFlags`).
Starting a child needs it to be still the one `sys_exofork` made (`ChildFresh`),
which needs ids to be unique (`LiveFields`). `FreeListExact` (the free list holds
exactly the free slots) and `ChildFresh` are conjuncts of `IInv` and so are
proved with it; the run `kernel` does not repeat them. A reused slot keeps its
predecessor's flags, so they must be down when it is freed: a process is
destroyed only while RUNNABLE. `ScheduleLemma` is about the scheduler for any
statuses and list. `RoundRobin` rests on lemmas on what removing and inserting
do to the order of a list that has no repeats, which `SchedIffRunnable` gives.

**SchedQueue.** The invariant is that the memory represents a sequence: links of
its elements lead to its neighbours, `tqh_last` to the last, and nothing is said
of the links of elements that are in no list, which are stale. The sequence is
`Walk`, whose definition follows the links through a recursive function; the
proof exhibits that function and shows, by a least counterexample, that there
is no other. With this each operation on the links is the operation of `Queue`
on the sequence, and the lemmas of `QueueProofs` do the rest.

**AddrSpace.** `TInv` is about tables and TLB: a step that changes an entry must
invalidate it under the right ASID, so live environments have different ones
(`AsidsDiffer`), and there are no entries below a missing table (`Tables`).
`TlbCoherent` needs nothing of the counts. `RInv` is about the counts: `RefsExact`
compares `pp_ref` with the cardinality of the set of references, `FreeExact` says
that a page is free iff that set is empty, and that pages of tables have one
reference (`OneTable`) follows only with both. Each step adds or removes named
references, so the lemmas count sets with one element more or less, and the sum
over all entries of an address space when it is freed.

**CowFork.** `OwnMemory` (a program finds in each page what it last wrote, or
inherited) is false in the middle of the actions it is about. `Unique` says which
mappings of a page may be writable, with the two moments at which a page is
writable in one place and mapped in another: between the last two calls of
`cow_entry` and between the two calls of `duppage`. `CowInv` says what the
handler holds, `ForkInv` what `fork` has read, `ChildInv` what the child has got
so far, `Registered` that handlers are set before anything is copy-on-write,
`LibInv` where the shared page may be.

**Pipe.** `CloseInv`: a pipe looks closed when the counts of the two pages are
equal, so every process has at least as many mappings of the Pipe page as of the
Fd page of an end, one more while it closes or duplicates (`RefsCover`), except
a child that is being made or was left half made, and a process that forks has
such a child (`Forks`); a count that was read is still the count as long as
`env_runs` has not changed (`Fresh`). Then equal counts mean that the other end
has no Pipe page left, or that some child has more Fd pages than Pipe pages:
that is `ClosedOrForking`, and nothing more is true of this code (section 6).
`RingInv`: as long as each end has had one user at a time (`OneEach`), positions
are the numbers of bytes written and taken, the ring holds the bytes between
them but for the `missing` ones, and the process that stores a byte or a
position holds the one that it read before. For each of the two orders the
invariant says in which half of the access a process is (`Readers`, `Writers`).
What a reader gets is not part of it: that depends on the order.

**FileServer.** Only the number of mappings of a Filefd page tells a slot in use
from a free one. The invariant says that what a client has mapped, or will have
when the answer under way arrives, is the page of a slot that has a file
(`InUse`), and that requests and answers are well-formed. What a handler does to
the disk is not expanded.

**Shell.** A job is Done because its process said so or because `kill` found
something RUNNABLE in its slot. That its id is not in use later needs that ids
in the table were issued (`IdsIssued`, `IssuedStaysDead`) and that a process on
its way out is RUNNABLE, so that it is not the child some `fork` starts
(`LeavingCanRun`). `kill` destroys processes that are not the caller's children,
so `ShellSpec` is no refinement of `Spec`; `ShellKeepsKernel` proves that the
kernel's invariant survives it all the same. The invariant is `SInv`.

**Shell, who wakes whom** (`WInv`). `syscall_recv_return_value` takes a value
from any child that sends one. So the invariant says, for each process and its
parent, where the parent is as long as the process may still send (`Kids`): a
program's parent is before or at the receive of this program, the subshell of an
`&&` has a parent at the condition, the subshell of a whole line has one in
`wait()`, and nobody else sends. To keep it, one has to know where in the line
each process is (`Places`), that no two processes have the same part of a line,
or a result could go back to `Started` (`Owner`), that a program that is about to
send has its result in `hist` (`Answered`), and that program counters agree with
the kernel's statuses (`SlotsOK`).

**Shell, what a line means** (`MInv`, which contains `WInv`). Each process
knows a part of `Meaning` (`Knows`, in `Informed`): `mark` says whether the next
command is due, and what a process has received, or is about to send, is the
status of everything to the left. This stays true although other processes go on
writing results, because a result is written once (`Untouched`, `RunsOnce`), and
`Meaning` is monotone: a command that is due stays due, and a status that is
there stays (`MeaningStays`). A shell in the `wait()` of `;` waits for a live
process that has the command before it, or the result is there (`Waits`); a
command that has not run is skipped for good, or some process has it or will
parse it (`Covered`). `Meaning` is defined by recursion along the line; as for
`Walk`, the proof shows that there is such a function, and each fact about it by
a least counterexample. `MeaningKept` is the one lemma that says what a step of
one process must guarantee for the invariant to survive, and each action is
shown to guarantee it. TLC checked the parts of `MInv` on plain lines first, on
some 1.2 million states.

Only model-checked:

* the liveness properties (`RunnableRuns`, `PromptOrStranded`, `EndsWhenAlone`,
  `DataEndsRead`, `ForkEnds`, `EveryRequestAnswered`), which need fairness;
* `OwnedOnce`, `NamedIsUsed` and `OthersKept` of `FileCalls`, `MapsItsFile`,
  `CloseIsDurable` and `ServerEndsOnlySo` of `FileServer`. They depend on what
  `walk_path`, `file_flush` and `file_truncate` compute with folds over
  sequences, which is induction over data.

## 5. What is left out

Registers and trapframes, the kernel's own pages, the text of commands,
redirections, back quotes and history, the console, the registers of the disk,
printing and strings, `bintoc`, the test programs. Of the file system: a
restart of the machine and sectors written in part; `dup` of a file; lack of
memory in the server (64 MB against a disk of 4 MB); requests that the library
does not send; `unmap_block`, which nothing but a test calls; a client that
writes the pages of a directory it has opened. `PROJECT.json` gives the reason per
component.

Some actions leave out a case of the code:

* `sys_env_destroy` of `KernelEnv` takes RUNNABLE targets only. `spawn`'s error
  path (`spawn.c:236,239`) destroys a child that is not; `SchedQueue` has it, as
  `SpawnError`, under `MCSchedQueueErr.cfg`.
* In `Shell`, `fork` and `spawn` do not run out of slots or memory, and a program
  returns from `main` or panics: one that calls `exit` itself, and so sends no
  value, is not among the commands.
* In `FileServer`, a write's read and update of size and offset in the Filefd
  page (`file.c:150-190`) are one step. Two processes that share the page can
  interleave there; nothing is claimed of such slots (`shaken`).
* `dup` of a file, which the shell's redirections use, is not among the references
  of a Filefd page.
* The server never runs out of memory for a block or a Filefd page
  (`fs.c:237-240`, `serv.c:76`).

`pp_ref` has its 16 bits in `AddrSpace` (`REF_MOD`), but the instance has too few
mappings to wrap it.

## 6. What the code does otherwise than it says

The first two have a run that ends in a counterexample.

* `shell_lost`: a command that ends before its subshell calls
  `syscall_recv_return_value` sends its value to nobody; the subshell, and with
  it the prompt, waits for ever. Moving `close_all`, as the project's README
  advises, makes the window smaller.
* `file_clear`: `file_clear_block` is to succeed silently when the block is not
  there ("If it's not there, just silently succeed", `src/fs/fs.c:436`), but
  fails beyond `NDIRECT` when the file has no indirect block, and
  `file_truncate` panics. A client that opens with `O_TRUNC` a file another
  client is growing ends the file server; so does a truncation after a kill, or
  after the disk was full, between `set_size` and `map`.

Shown by a configuration that is not among the listed runs:

* `MCShellSkip.cfg` (`NoneForgotten`): in `false && a || b`, the skipped `a`
  reports 0 and `b` does not run (`src/user/sh.c:347`; `src/README.md:35` says
  that `&&` and `||` have the same precedence and go from left to right).
* `MCSchedQueueErr.cfg` (`ListedIffRunnable`): the error path of `spawn` unlinks
  a child that is in no list (`src/kern/env.c:481`, against the invariant stated
  at `src/kern/env.c:15`).
* `MCPipeEof.cfg` (`EofMeansDrained`): a reader can be told the pipe has ended
  with bytes still in it (`src/user/lib/pipe.c:149`, against the comment at
  line 124).
* `MCPipeFork.cfg` (`NoFalseClose`): `fork` and `spawn` map Fd pages before data
  pages (`src/user/lib/fork.c:128`, `src/user/lib/spawn.c:210`), and a process
  that uses an end while another holder of it makes a child may be told that the
  pipe is closed ("Return 0 if pipe isn't closed", `src/user/lib/pipe.c:89`).
  With the line `a | b & c` the shell itself does this: `b` may lose the rest of
  its input while its parent spawns `c`.
* `MCPipeOrder.cfg` (`Fifo`): if the compiler stores the position before the
  byte, which `src/user/lib/pipe.c:155,196` leave it free to do, a reader takes a
  byte that is not there yet, or one that was overwritten; `src/user/testpipe.c`
  expects the bytes as they were written.
* `MCFileServerShrink.cfg` (`WriteNeverShrinks`): with two opens of one file a
  write makes the file shorter, because `file_write` compares with the size in
  its own Filefd page ("Increase the file's size if necessary",
  `src/user/lib/file.c:170`).

Met while modelling, without a run of their own:

* A job that ends before `syscall_create_job`, or in `_user_panic`, is listed as
  Running for ever (`RunningJobIsAlive` of `Shell`, violated under
  `MCShellJobDone.cfg`; `src/user/sh.c:379`).
* `kill` of a job that has ended destroys the new owner of its slot
  (`KillHitsItsJob` of `Shell`, violated under `MCShellKill.cfg`;
  `src/kern/env.c:426`).
* `sys_mem_alloc` without a page for the page table, and `env_alloc` without an
  ASID, never give back the page they took (`lost` in `AddrSpace`).
* `duppage` ignores the result of mapping a page in the child: without memory
  for a page table the child runs with a zeroed page in place of its parent's
  (`failed` in `CowFork`; `OwnMemory` is violated if it does not except them).
  `fork` does not notice a failed `syscall_exofork` either, since `child` is
  unsigned; the parent's memory survives that (`OwnMemory`).
* Two readers, or two writers, of one end race on `p_rpos` or `p_wpos`: a byte is
  read twice, or overwritten (`UnreadKept` excepts it with `shared`). `b` and `c`
  of `a | b & c` are two such readers.
* `_pipe_is_closed` never finds equal counts while other holders of the end go on
  duplicating and closing it, or when a parent was killed in the middle of a
  `fork` and left a child that will never run with its pages: the reader then
  polls for ever (`EndsWhenAlone` excepts it with `Moving`).
* If positions wrap (`WORD = 2` in `MCPipeLive.cfg`), `DataEndsRead` is
  violated: the empty test is not done modulo 2^32, the full test is.
* After `false && a`, the operators `;`, `&` and `|` still run `a`, because only
  `&&`, `||` and the end of the line look at `mark` (`user/sh.c:252,258,268`).
* A built-in, or a command that does not exist, sends no value: a shell at `&&`
  or `||` behind it is stranded (`user/sh.c:354-368,385`).
* A skipped command sends 0 to its process's parent, who in `a | b && c` is not
  the shell that decided but the subshell of `a`, which then takes the value for
  that of its own command (`NoEarlyReturn` is violated; `user/sh.c:347`).
* A removed directory leaves the files inside with their blocks, which nobody
  can free, and its block keeps its File structures in the cache: a directory
  that gets the block next shows them again (`map_block` and `dir_alloc_file`
  clear nothing), so `dir_alloc_file` may return a structure that is in use
  against its comment, and a block that held data is read as File structures
  (`"wild"`).
* Blocks of directories, of indirect pointers and the super block are never
  marked dirty, so neither `file_flush` of a directory nor `fs_sync` ("Sync the
  entire file system") writes a created or removed name to the disk. The bit
  `PTE_DIRTY` is never cleared.
* `free_block` does not write the bitmap, but the next `alloc_block_num` does:
  a block may be free on the disk while the directory on the disk names it.
* `ftruncate` leaves the new size in the Filefd page when it fails, and a later
  close stops at `fsipc_dirty` without `fsipc_close`. A failed `open` leaves the
  descriptor mapped.
* After `fork` the size is shared and new pages are not: the other process
  writes to a page of its own that `passive_alloc` gives it, and the data is lost.
* `open_lookup` ignores `envid`, against its comment (`src/fs/serv.c:100`).
* `remove` takes the type of removal from the byte behind the path's end.
* `file_create` without room in the directory returns -E_NOT_FOUND
  (`src/fs/fs.c:674`).

## 7. Plan

Modelled, checked and proved as described: process manager, run list, shell,
pipe, memory, copy-on-write, file system and file server. All safety properties
of `KernelEnv`, `SchedQueue`, `AddrSpace`, `CowFork`, `Pipe` and `Shell` that a run
checks have a theorem. Open:

1. A restart of the machine in `FileCalls`, and the abstract specification of a
   file as a sequence of blocks.
2. The composition of `KernelEnv` and `AddrSpace`, for the page of a message that
   fails after the wake-up; descriptors and redirection.
3. Proofs about the block layer (`alloc_block` never gives away a block that is
   in use) as the first step to `OwnedOnce` and `NamedIsUsed`; the folds of
   `walk_path` and `file_flush` would have to be written as recursive functions
   for that, whose properties have the least-counterexample proofs of
   `SchedQueueProofs` and `ShellProofs`.
