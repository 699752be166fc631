------------------------------- MODULE RunList -------------------------------
(***************************************************************************)
(* What env_sched_list promises its callers: a sequence without repeats    *)
(* that grows at either end, shrinks anywhere, and moves an element to its *)
(* back.  Module KernelEnv works on this abstraction; module SchedQueue    *)
(* implements it with the links of include/queue.h.                        *)
(***************************************************************************)
EXTENDS Integers, Sequences, Queue

CONSTANT Env          \* the elements: slots of envs[]
VARIABLE list

Init == list = <<>>

LinkHead(e) == e \notin ToSet(list) /\ list' = TAILQ_INSERT_HEAD(list, e)
LinkTail(e) == e \notin ToSet(list) /\ list' = TAILQ_INSERT_TAIL(list, e)
Unlink(e)   == e \in ToSet(list) /\ list' = TAILQ_REMOVE(list, e)
MoveToTail(e) == e \in ToSet(list)
                 /\ list' = TAILQ_INSERT_TAIL(TAILQ_REMOVE(list, e), e)

Next == \E e \in Env :
          LinkHead(e) \/ LinkTail(e) \/ Unlink(e) \/ MoveToTail(e)

Spec == Init /\ [][Next]_list
=============================================================================
