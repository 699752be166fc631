----------------------------- MODULE SchedQueue ------------------------------
(***************************************************************************)
(* env_sched_list as it is in memory: the TAILQ of include/queue.h, with   *)
(* a pointer to the first element, the address of the last tqe_next, and   *)
(* in every struct Env a tqe_next and the address tqe_prev of the pointer  *)
(* to it.  TAILQ_REMOVE leaves the links of the removed element as they    *)
(* are, and env_alloc does not reset them.                                 *)
(*                                                                         *)
(* The actions are the uses of the list in kern/env.c, kern/sched.c and    *)
(* kern/syscall_all.c; everything else about environments is in KernelEnv. *)
(* Spec shows that the links implement module RunList.  ErrSpec adds the   *)
(* one caller that breaks the rules: the error path of spawn().            *)
(***************************************************************************)
EXTENDS Integers, Sequences, FiniteSets

CONSTANTS
  Env,          \* the slots of envs[]
  HEAD,         \* the address of env_sched_list.tqh_first
  NULL

ASSUME QueueAssumption ==
  IsFiniteSet(Env) /\ HEAD \notin Env /\ NULL \notin Env /\ HEAD # NULL

VARIABLES
  q,       \* the list's memory: [first, last, next, prev]
  st,      \* env_status; BUILDING is NOT_RUNNABLE and not yet started
  curenv,  \* the running environment
  child,   \* the child its fork() or spawn() is building
  crashed  \* the kernel has panicked: an empty list, or a store through NULL

vars == <<q, st, curenv, child, crashed>>

\* The address of a pointer: HEAD, or e for &e->env_sched_link.tqe_next.
Address == Env \cup {HEAD}

-----------------------------------------------------------------------------
(* The macros of include/queue.h *)

\* *p = v
Store(m, p, v) ==
  IF p = HEAD THEN [m EXCEPT !.first = v] ELSE [m EXCEPT !.next[p] = v]

TAILQ_INSERT_HEAD(m, e) ==
  LET f      == m.first
      linked == IF f # NULL THEN [m EXCEPT !.prev[f] = e]
                            ELSE [m EXCEPT !.last = e]
  IN [linked EXCEPT !.next[e] = f, !.first = e, !.prev[e] = HEAD]

\* Mutant of TAILQ_INSERT_TAIL: tqh_last is not moved.
ForgetLast(m, e) ==
  Store([m EXCEPT !.next[e] = NULL, !.prev[e] = m.last], m.last, e)

TAILQ_INSERT_TAIL(m, e) ==
  LET linked == [m EXCEPT !.next[e] = NULL, !.prev[e] = m.last]
  IN [Store(linked, m.last, e) EXCEPT !.last = e]

\* Mutant of RemoveLinks: the next element keeps its tqe_prev.
KeepPrev(m, e) == IF m.next[e] # NULL THEN m ELSE [m EXCEPT !.last = m.prev[e]]

\* Everything of TAILQ_REMOVE but its last statement, *prev = next.
RemoveLinks(m, e) ==
  IF m.next[e] # NULL THEN [m EXCEPT !.prev[m.next[e]] = m.prev[e]]
                      ELSE [m EXCEPT !.last = m.prev[e]]

TAILQ_REMOVE(m, e) ==
  LET r == RemoveLinks(m, e) IN Store(r, r.prev[e], r.next[e])

-----------------------------------------------------------------------------
(* The callers *)

Running == curenv # NULL /\ ~crashed

Change(e, from, to) == st[e] = from /\ st' = [st EXCEPT ![e] = to]

\* The end of schedule(): run the first of the list m, or panic.
RunFirst(m) ==
  IF m.first = NULL THEN crashed' = TRUE /\ UNCHANGED curenv
                    ELSE curenv' = m.first /\ UNCHANGED crashed

\* env_create at boot, and the schedule(0) that ends the boot.
Create(e) ==
  /\ curenv = NULL
  /\ Change(e, "FREE", "RUNNABLE")
  /\ q' = TAILQ_INSERT_HEAD(q, e)
  /\ UNCHANGED <<curenv, child, crashed>>

StartFirst ==
  /\ curenv = NULL
  /\ q.first # NULL
  /\ RunFirst(q)
  /\ UNCHANGED <<q, st, child>>

\* sys_exofork: no list operation.
Exofork(e) ==
  /\ Running
  /\ child[curenv] = NULL
  /\ Change(e, "FREE", "BUILDING")
  /\ child' = [child EXCEPT ![curenv] = e]
  /\ UNCHANGED <<q, curenv, crashed>>

\* sys_set_env_status(child, ENV_RUNNABLE).
Start(e) ==
  /\ Running
  /\ child[curenv] = e
  /\ Change(e, "BUILDING", "RUNNABLE")
  /\ q' = TAILQ_INSERT_TAIL(q, e)
  /\ child' = [child EXCEPT ![curenv] = NULL]
  /\ UNCHANGED <<curenv, crashed>>

\* sys_ipc_recv and sys_recv_return_value.
Block ==
  /\ Running
  /\ Change(curenv, "RUNNABLE", "BLOCKED")
  /\ q' = TAILQ_REMOVE(q, curenv)
  /\ RunFirst(q')
  /\ UNCHANGED child

\* sys_ipc_try_send and sys_send_return_value.
Wake(e) ==
  /\ Running
  /\ Change(e, "BLOCKED", "RUNNABLE")
  /\ q' = TAILQ_INSERT_TAIL(q, e)
  /\ UNCHANGED <<curenv, child, crashed>>

\* Mutant of Rotate: linked at the tail without being unlinked.
RotateLinked ==
  /\ Running
  /\ st[curenv] = "RUNNABLE"
  /\ q' = TAILQ_INSERT_TAIL(q, curenv)
  /\ RunFirst(q')
  /\ UNCHANGED <<st, child>>

\* schedule() when curenv yields or has used its slices.
Rotate ==
  /\ Running
  /\ st[curenv] = "RUNNABLE"
  /\ q' = TAILQ_INSERT_TAIL(TAILQ_REMOVE(q, curenv), curenv)
  /\ RunFirst(q')
  /\ UNCHANGED <<st, child>>

\* env_destroy of a runnable environment.
Destroy(e) ==
  /\ Running
  /\ Change(e, "RUNNABLE", "FREE")
  /\ q' = TAILQ_REMOVE(q, e)
  /\ child' = [child EXCEPT ![e] = NULL]
  /\ IF e = curenv THEN RunFirst(q') ELSE UNCHANGED <<curenv, crashed>>

\* err1 and err2 of spawn(): env_destroy of the child, which is in no list.
\* In a slot that never ran tqe_prev is still NULL; the store to address 0
\* misses in the TLB and passive_alloc panics.
SpawnError(e) ==
  LET r == RemoveLinks(q, e) IN
  /\ Running
  /\ child[curenv] = e
  /\ Change(e, "BUILDING", "FREE")
  /\ child' = [child EXCEPT ![curenv] = NULL]
  /\ q' = IF r.prev[e] = NULL THEN r ELSE TAILQ_REMOVE(q, e)
  /\ crashed' = (r.prev[e] = NULL)
  /\ UNCHANGED curenv

\* TAILQ_INIT; the links of envs[] are zero.
Init ==
  /\ q = [first |-> NULL, last |-> HEAD,
          next |-> [e \in Env |-> NULL], prev |-> [e \in Env |-> NULL]]
  /\ st = [e \in Env |-> "FREE"]
  /\ curenv = NULL
  /\ child = [e \in Env |-> NULL]
  /\ crashed = FALSE

Next ==
  \/ StartFirst \/ Block \/ Rotate
  \/ \E e \in Env : Create(e) \/ Exofork(e) \/ Start(e) \/ Wake(e) \/ Destroy(e)

Spec == Init /\ [][Next]_vars

ErrNext == Next \/ \E e \in Env : SpawnError(e)

ErrSpec == Init /\ [][ErrNext]_vars
-----------------------------------------------------------------------------
(* Properties *)

\* The elements in the order TAILQ_FOREACH visits them, cut off where the
\* links would run in a circle.
Walk ==
  LET N == Cardinality(Env)
      at[i \in 0 .. N] == IF i = 0 THEN q.first
                          ELSE IF at[i-1] = NULL THEN NULL
                          ELSE q.next[at[i-1]]
      n == Cardinality({i \in 0 .. N : at[i] # NULL})
  IN [i \in 1 .. n |-> at[i-1]]

\* The links are a doubly linked list: tqh_last is the address of the last
\* tqe_next, and every tqe_prev is the address of the pointer to its element.
\* A removal that left either behind would show only at a later insertion.
WellLinked ==
  LET n == Len(Walk) IN
  /\ q.last = IF n = 0 THEN HEAD ELSE Walk[n]
  /\ \A i \in 1 .. n : q.prev[Walk[i]] = IF i = 1 THEN HEAD ELSE Walk[i-1]

\* The comment on env_sched_list (kern/env.c:15), of the memory: a walk along
\* the list meets exactly the RUNNABLE environments.
ListedIffRunnable ==
  /\ {Walk[i] : i \in DOMAIN Walk} = {e \in Env : st[e] = "RUNNABLE"}
  /\ Len(Walk) = Cardinality({e \in Env : st[e] = "RUNNABLE"})

\* Every operation on the links, with whatever stale links earlier ones left,
\* is one operation of the abstract list.
Abstract == INSTANCE RunList WITH list <- Walk
ImplementsRunList == Abstract!Spec
=============================================================================
