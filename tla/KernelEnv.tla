------------------------------ MODULE KernelEnv ------------------------------
(***************************************************************************)
(* The process manager of the MOS kernel: the environment table and the    *)
(* free list (kern/env.c), the round-robin scheduler (kern/sched.c) and    *)
(* the system calls that create, start, block, wake and destroy            *)
(* environments (kern/syscall_all.c).                                      *)
(*                                                                         *)
(* The kernel runs with interrupts off, so one system call, or one timer   *)
(* interrupt, is one atomic step taken while curenv is in user mode;       *)
(* environments interleave only between such steps.  A system call that    *)
(* returns an error leaves this state as it was and is a stuttering step.  *)
(*                                                                         *)
(* Left out: trapframes, page tables and page mappings (so the page part   *)
(* of an IPC, which succeeds or fails after the wake-up and changes        *)
(* nothing here), env_runs, and the text of messages.  env_ipc_value and   *)
(* env_ipc_perm are written together with env_ipc_from and stand for it.   *)
(*                                                                         *)
(* The callers are programs linked with user/lib: sys_set_env_status is    *)
(* called only by fork and spawn, on the child they have just made, and    *)
(* nobody calls sys_env_destroy on an environment that is not runnable     *)
(* (spawn's error path does; module SchedQueue is about that path).        *)
(***************************************************************************)
EXTENDS Integers, Sequences, FiniteSets, Queue

CONSTANTS
  NENV,       \* slots of the environment table envs[]
  NASID,      \* address space identifiers of the TLB
  Priorities, \* the priorities boot gives to the environments it creates
  Value,      \* return values a program may end with
  MaxAlloc    \* bound on the number of environments ever created

ASSUME KernelAssumption ==
  /\ NENV \in Nat \ {0}
  /\ NASID \in Nat \ {0}
  /\ Priorities \subseteq Nat \ {0}
  /\ 0 \in Value
  /\ MaxAlloc \in Nat /\ MaxAlloc < 2^21

Slot  == 0 .. NENV-1
Asid  == 0 .. NASID-1
NoEnv == -1                                  \* curenv == NULL

\* An env_id is the pair of the allocation's serial number and the slot.  The
\* serial has 32 - 11 bits and would repeat after 2^21 creations; MaxAlloc is
\* below that.  Serial 0 is the id of a slot that was never used, and of "no
\* parent".
EnvId == (0 .. MaxAlloc) \X Slot
NoId  == <<0, 0>>
Status == {"FREE", "RUNNABLE", "NOT_RUNNABLE"}

VARIABLES
  env_status, env_id, env_parent_id, env_asid, env_pri,
  env_ipc_recving,       \* blocked in sys_ipc_recv
  env_ipc_from,          \* sender of the last message delivered
  waiting_return_value,  \* blocked in sys_recv_return_value
  return_value,          \* return value delivered to this environment
  env_free_list,         \* sequence of free slots
  env_sched_list,        \* sequence of runnable slots
  asid_bitmap,           \* ASIDs in use
  envid_count,           \* static counter of mkenvid
  curenv, count,         \* running environment, its remaining slices
  panicked,              \* the kernel has stopped in panic()
  child                  \* the child a running fork() or spawn() is building

idvars    == <<env_id, env_parent_id, env_asid, env_pri,
               asid_bitmap, envid_count>>
ipcvars   == <<env_ipc_recving, env_ipc_from, waiting_return_value,
               return_value>>
schedvars == <<env_sched_list, curenv, count, panicked>>
vars      == <<env_status, env_free_list, child, idvars, ipcvars, schedvars>>

-----------------------------------------------------------------------------
(* Identifiers *)

\* Mutants of mkenvid: the next slot's number, and no serial number.
NextSlotId(i, e) == <<i, e + 1>>
SlotOnlyId(i, e) == <<1, e>>

mkenvid(i, e) == <<i, e>>

ENVX(id) == id[2]

\* envid2env finds an environment: the slot is live and still has this id.
Valid(id) == env_status[ENVX(id)] # "FREE" /\ env_id[ENVX(id)] = id

\* envid2env(id, _, 1): e is the caller or an immediate child of it.
MayControl(e) ==
  env_id[curenv] = env_id[e] \/ env_parent_id[e] = env_id[curenv]

Running == curenv # NoEnv /\ ~panicked

FreeAsids == Asid \ asid_bitmap

\* Mutant of asid_alloc: as if ASIDs were freed in the order of allocation.
AsidByCount == Cardinality(asid_bitmap)

\* asid_alloc takes the lowest clear bit of the bitmap.
asid_alloc == CHOOSE a \in FreeAsids : \A b \in FreeAsids : a <= b

-----------------------------------------------------------------------------
(* Scheduling *)

\* Mutants of Rotated: e is unlinked and lost, the head is rotated whoever it
\* is, e goes back to the front.
LoseCurenv(e, st, q) ==
  IF e # NoEnv /\ st[e] = "RUNNABLE" THEN TAILQ_REMOVE(q, e) ELSE q
RotateHead(e, st, q) ==
  IF q # <<>> THEN TAILQ_INSERT_TAIL(Tail(q), Head(q)) ELSE q
BackToFront(e, st, q) ==
  IF e # NoEnv /\ st[e] = "RUNNABLE"
  THEN TAILQ_INSERT_HEAD(TAILQ_REMOVE(q, e), e) ELSE q

\* A curenv e that is still RUNNABLE goes to the back of the run list q.
Rotated(e, st, q) ==
  IF e # NoEnv /\ st[e] = "RUNNABLE"
  THEN TAILQ_INSERT_TAIL(TAILQ_REMOVE(q, e), e) ELSE q

\* Mutant of Slices: the slice that starts now is not counted.
AllSlices(e) == env_pri[e]

\* The slices left after this one to an environment that is picked.
Slices(e) == env_pri[e] - 1

\* schedule(yield), entered with curenv = e, statuses st and run list q.
\* env_run makes the chosen environment curenv.
schedule(yield, e, st, q) ==
  LET repick  == yield \/ count = 0 \/ ~(e # NoEnv /\ st[e] = "RUNNABLE")
      rotated == Rotated(e, st, q)
  IN \/ /\ ~repick
        /\ env_sched_list' = q
        /\ curenv' = e
        /\ count' = count - 1
        /\ UNCHANGED panicked
     \/ /\ repick
        /\ rotated # <<>>
        /\ env_sched_list' = rotated
        /\ curenv' = Head(rotated)
        /\ count' = Slices(Head(rotated))
        /\ UNCHANGED panicked
     \/ /\ repick
        /\ rotated = <<>>            \* panic("no runnable envs")
        /\ env_sched_list' = rotated
        /\ curenv' = e
        /\ panicked' = TRUE
        /\ UNCHANGED count

\* The clock interrupt: schedule(0).
Timer ==
  /\ Running
  /\ schedule(FALSE, curenv, env_status, env_sched_list)
  /\ UNCHANGED <<env_status, env_free_list, child, idvars, ipcvars>>

sys_yield ==
  /\ Running
  /\ schedule(TRUE, curenv, env_status, env_sched_list)
  /\ UNCHANGED <<env_status, env_free_list, child, idvars, ipcvars>>

-----------------------------------------------------------------------------
(* Creating and starting environments *)

\* env_alloc for slot e: the first free slot and a free ASID.  The wait
\* flags and the IPC fields of the slot's last user are left as they were.
env_alloc(e, parent) ==
  /\ env_free_list # <<>>
  /\ e = LIST_FIRST(env_free_list)
  /\ FreeAsids # {}
  /\ envid_count < MaxAlloc
  /\ env_asid' = [env_asid EXCEPT ![e] = asid_alloc]
  /\ asid_bitmap' = asid_bitmap \cup {asid_alloc}
  /\ envid_count' = envid_count + 1
  /\ env_id' = [env_id EXCEPT ![e] = mkenvid(envid_count + 1, e)]
  /\ env_parent_id' = [env_parent_id EXCEPT ![e] = parent]
  /\ env_free_list' = Tail(env_free_list)   \* LIST_REMOVE of the first

\* Boot creates an environment (ENV_CREATE_PRIORITY in mips_init).
env_create(e, priority) ==
  /\ curenv = NoEnv /\ ~panicked
  /\ env_alloc(e, NoId)
  /\ env_pri' = [env_pri EXCEPT ![e] = priority]
  /\ env_status' = [env_status EXCEPT ![e] = "RUNNABLE"]
  /\ env_sched_list' = TAILQ_INSERT_HEAD(env_sched_list, e)
  /\ UNCHANGED <<child, ipcvars, curenv, count, panicked>>

\* mips_init has created its environments and ends in schedule(0).
StartFirst ==
  /\ curenv = NoEnv /\ ~panicked
  /\ env_sched_list # <<>>
  /\ schedule(FALSE, NoEnv, env_status, env_sched_list)
  /\ UNCHANGED <<env_status, env_free_list, child, idvars, ipcvars>>

\* fork() and spawn() make a child that is not yet runnable.
sys_exofork(e) ==
  /\ Running
  /\ child[curenv] = NoId
  /\ env_alloc(e, env_id[curenv])
  /\ env_pri' = [env_pri EXCEPT ![e] = env_pri[curenv]]
  /\ env_status' = [env_status EXCEPT ![e] = "NOT_RUNNABLE"]
  /\ child' = [child EXCEPT ![curenv] = mkenvid(envid_count + 1, e)]
  /\ UNCHANGED <<ipcvars, schedvars>>

\* fork() and spawn() end by making the child they built runnable.
sys_set_env_status(e) ==
  /\ Running
  /\ child[curenv] # NoId
  /\ e = ENVX(child[curenv])
  /\ Valid(child[curenv])
  /\ MayControl(e)
  /\ env_sched_list' = IF env_status[e] # "RUNNABLE"
                       THEN TAILQ_INSERT_TAIL(env_sched_list, e)
                       ELSE env_sched_list
  /\ env_status' = [env_status EXCEPT ![e] = "RUNNABLE"]
  /\ child' = [child EXCEPT ![curenv] = NoId]
  /\ UNCHANGED <<env_free_list, idvars, ipcvars, curenv, count, panicked>>

-----------------------------------------------------------------------------
(* Blocking and waking *)

\* Mutant of Block: the caller stays in the run list.
BlockLinked ==
  LET st == [env_status EXCEPT ![curenv] = "NOT_RUNNABLE"]
  IN env_status' = st /\ schedule(TRUE, curenv, st, env_sched_list)

\* The caller becomes NOT_RUNNABLE, leaves the run list and gives up the CPU.
Block ==
  LET st == [env_status EXCEPT ![curenv] = "NOT_RUNNABLE"]
  IN /\ env_status' = st
     /\ schedule(TRUE, curenv, st, TAILQ_REMOVE(env_sched_list, curenv))

sys_ipc_recv ==
  /\ Running
  /\ env_ipc_recving' = [env_ipc_recving EXCEPT ![curenv] = TRUE]
  /\ Block
  /\ UNCHANGED <<env_free_list, child, idvars, env_ipc_from,
                 waiting_return_value, return_value>>

sys_recv_return_value ==
  /\ Running
  /\ waiting_return_value' = [waiting_return_value EXCEPT ![curenv] = TRUE]
  /\ Block
  /\ UNCHANGED <<env_free_list, child, idvars, env_ipc_from,
                 env_ipc_recving, return_value>>

Wake(e) ==
  /\ env_status' = [env_status EXCEPT ![e] = "RUNNABLE"]
  /\ env_sched_list' = TAILQ_INSERT_TAIL(env_sched_list, e)

\* Mutant of Receiving: any live environment may be sent to.
Alive(id) == Valid(id)

\* The target exists and waits for a message; otherwise -E_BAD_ENV or
\* -E_IPC_NOT_RECV is returned and nothing changes.
Receiving(id) == Valid(id) /\ env_ipc_recving[ENVX(id)]

sys_ipc_try_send(id) ==
  LET e == ENVX(id) IN
  /\ Running
  /\ Receiving(id)
  /\ env_ipc_from' = [env_ipc_from EXCEPT ![e] = env_id[curenv]]
  /\ env_ipc_recving' = [env_ipc_recving EXCEPT ![e] = FALSE]
  /\ Wake(e)
  /\ UNCHANGED <<env_free_list, child, idvars, waiting_return_value,
                 return_value, curenv, count, panicked>>

\* Mutant of EndWait: the flag stays up.
KeepWaiting(e) == UNCHANGED waiting_return_value

EndWait(e) == waiting_return_value' = [waiting_return_value EXCEPT ![e] = FALSE]

sys_send_return_value(id, value) ==
  LET e == ENVX(id) IN
  /\ Running
  /\ Valid(id)
  /\ waiting_return_value[e]
  /\ env_ipc_from' = [env_ipc_from EXCEPT ![e] = env_id[curenv]]
  /\ env_ipc_recving' = [env_ipc_recving EXCEPT ![e] = FALSE]
  /\ EndWait(e)
  /\ return_value' = [return_value EXCEPT ![e] = value]
  /\ Wake(e)
  /\ UNCHANGED <<env_free_list, child, idvars, curenv, count, panicked>>

-----------------------------------------------------------------------------
(* Destroying environments *)

\* env_free(e) followed, when e is the caller, by schedule(1).
env_destroy(e) ==
  LET st == [env_status EXCEPT ![e] = "FREE"]
      q  == TAILQ_REMOVE(env_sched_list, e)
  IN /\ asid_bitmap' = asid_bitmap \ {env_asid[e]}
     /\ env_status' = st
     /\ env_free_list' = LIST_INSERT_HEAD(env_free_list, e)
     /\ child' = [child EXCEPT ![e] = NoId]
     /\ IF e = curenv
        THEN schedule(TRUE, NoEnv, st, q)
        ELSE env_sched_list' = q /\ UNCHANGED <<curenv, count, panicked>>
     /\ UNCHANGED <<env_id, env_parent_id, env_asid, env_pri, envid_count,
                    ipcvars>>

sys_env_destroy(e) ==
  /\ Running
  /\ env_status[e] = "RUNNABLE"
  /\ MayControl(e)
  /\ env_destroy(e)

-----------------------------------------------------------------------------
\* env_init: every slot free, the free list in slot order.
Init ==
  /\ env_status = [e \in Slot |-> "FREE"]
  /\ env_id = [e \in Slot |-> NoId]
  /\ env_parent_id = [e \in Slot |-> NoId]
  /\ env_asid = [e \in Slot |-> 0]
  /\ env_pri = [e \in Slot |-> 0]
  /\ env_ipc_recving = [e \in Slot |-> FALSE]
  /\ env_ipc_from = [e \in Slot |-> NoId]
  /\ waiting_return_value = [e \in Slot |-> FALSE]
  /\ return_value = [e \in Slot |-> 0]
  /\ env_free_list = [i \in 1 .. NENV |-> i-1]
  /\ env_sched_list = <<>>
  /\ asid_bitmap = {}
  /\ envid_count = 0
  /\ curenv = NoEnv
  /\ count = 0
  /\ panicked = FALSE
  /\ child = [e \in Slot |-> NoId]

Next ==
  \/ Timer
  \/ sys_yield
  \/ StartFirst
  \/ sys_ipc_recv
  \/ sys_recv_return_value
  \/ \E e \in Slot :
       \/ sys_exofork(e)
       \/ sys_set_env_status(e)
       \/ sys_env_destroy(e)
       \/ \E p \in Priorities : env_create(e, p)
  \/ \E id \in EnvId :
       \/ sys_ipc_try_send(id)
       \/ \E v \in Value : sys_send_return_value(id, v)

Spec == Init /\ [][Next]_vars

\* The clock is re-armed whenever an environment is resumed (RESET_KCLOCK in
\* env_pop_tf), so a running environment is interrupted again and again.
FairSpec == Spec /\ WF_vars(Timer)
-----------------------------------------------------------------------------
(* Properties *)

\* Every variable keeps its type: slots in the lists, ids that mkenvid can
\* have made, a curenv that is a slot or NULL.
TypeOK ==
  /\ env_status \in [Slot -> Status]
  /\ env_id \in [Slot -> EnvId]
  /\ env_parent_id \in [Slot -> EnvId]
  /\ env_asid \in [Slot -> Asid]
  /\ env_pri \in [Slot -> Nat]
  /\ env_ipc_recving \in [Slot -> BOOLEAN]
  /\ env_ipc_from \in [Slot -> EnvId]
  /\ waiting_return_value \in [Slot -> BOOLEAN]
  /\ return_value \in [Slot -> Value]
  /\ env_free_list \in Seq(Slot)
  /\ env_sched_list \in Seq(Slot)
  /\ asid_bitmap \subseteq Asid
  /\ envid_count \in 0 .. MaxAlloc
  /\ curenv \in Slot \cup {NoEnv}
  /\ count \in Int
  /\ panicked \in BOOLEAN
  /\ child \in [Slot -> EnvId]

\* The comment on env_sched_list (kern/env.c:15): an environment is in the
\* list iff it is RUNNABLE, and then once, although it is linked and unlinked
\* by seven different functions.
SchedIffRunnable ==
  Lists(env_sched_list, {e \in Slot : env_status[e] = "RUNNABLE"})

\* env_alloc can only hand out slots nobody uses, and env_free returns every
\* slot: the free list is exactly the FREE slots, each once.
FreeListExact ==
  Lists(env_free_list, {e \in Slot : env_status[e] = "FREE"})

\* A wait flag is up only while its owner is blocked, and one at a time.
\* env_alloc does not clear the flags, so a slot that was freed with a flag
\* up would give its next user a message it never asked for and a second
\* link into env_sched_list.
WaitFlags ==
  \A e \in Slot :
    /\ env_ipc_recving[e] \/ waiting_return_value[e]
         => env_status[e] = "NOT_RUNNABLE"
    /\ ~(env_ipc_recving[e] /\ waiting_return_value[e])

\* The child a fork() or spawn() is building stays as sys_exofork left it:
\* alive under the same id, not runnable, not waiting, and nobody else is
\* building it.  So sys_set_env_status never finds a reused slot.
ChildFresh ==
  \A e \in Slot : child[e] # NoId =>
    LET c == ENVX(child[e]) IN
    /\ env_status[e] # "FREE"
    /\ env_id[c] = child[e]
    /\ env_status[c] = "NOT_RUNNABLE"
    /\ ~env_ipc_recving[c] /\ ~waiting_return_value[c]
    /\ env_parent_id[c] = env_id[e]
    /\ \A f \in Slot : child[f] = child[e] => f = e

\* Two live environments never share an ASID (their TLB entries would mix),
\* and the bitmap marks no ASID that is not in use.
AsidExact ==
  LET live == {e \in Slot : env_status[e] # "FREE"} IN
  /\ \A e \in live : env_asid[e] \in asid_bitmap
  /\ \A a \in asid_bitmap : \E e \in live : env_asid[e] = a
  /\ \A e, f \in live : env_asid[e] = env_asid[f] => e = f

\* What a live environment was given at its creation: an id of its slot, with
\* a serial number no other live environment has, and a priority.
LiveFields ==
  \A e \in Slot : env_status[e] # "FREE" =>
    /\ env_id[e][2] = e
    /\ env_id[e][1] \in 1 .. envid_count
    /\ env_pri[e] # 0
    /\ \A f \in Slot : env_status[f] # "FREE" /\ env_id[f][1] = env_id[e][1]
                       => f = e

\* What env_run asserts and schedule assumes: while the kernel is not
\* running, curenv is RUNNABLE and has between 0 and env_pri - 1 slices left.
\* A count that once went below zero would never be 0 again.
CurenvRuns ==
  Running => /\ env_status[curenv] = "RUNNABLE"
             /\ count \in 0 .. env_pri[curenv] - 1

\* schedule panics only if no environment is runnable.
PanicOnlyIfIdle == panicked => \A e \in Slot : env_status[e] # "RUNNABLE"

\* wait() polls for a change of id or status: an id that is not valid, of an
\* environment that was created, never becomes valid again.
DeadStaysDead ==
  [][\A id \in EnvId : id[1] <= envid_count /\ ~Valid(id) => ~Valid(id)']_vars

Before(s, a, b) ==
  \E i, j \in 1 .. Len(s) : i < j /\ s[i] = a /\ s[j] = b

\* Round robin: no step lets one waiting environment overtake another in the
\* run list; only the environment that gives up the CPU goes to the back.
NoOvertaking ==
  [][\A a, b \in Slot :
       /\ a # curenv
       /\ Before(env_sched_list, a, b)
       /\ a \in ToSet(env_sched_list') /\ b \in ToSet(env_sched_list')
       => Before(env_sched_list, a, b)']_vars

\* ipc_recv() reads the message from the Env after the system call returns:
\* a message or return value is stored only in an environment that is
\* blocked, and wakes it, so none is overwritten before its receiver runs.
MessageStable ==
  [][\A e \in Slot :
       (env_ipc_from[e] # env_ipc_from'[e] \/ return_value[e] # return_value'[e])
       => env_status[e] = "NOT_RUNNABLE" /\ env_status'[e] = "RUNNABLE"]_vars

\* No runnable environment starves: it gets the CPU, or is destroyed.
RunnableRuns ==
  \A e \in Slot :
    curenv # NoEnv /\ env_status[e] = "RUNNABLE"
      ~> curenv = e \/ env_status[e] # "RUNNABLE"
=============================================================================
