--------------------------- MODULE KernelEnvProofs ---------------------------
(***************************************************************************)
(* Proofs about KernelEnv, for any number of slots, ASIDs and priorities.  *)
(*                                                                         *)
(* No single invariant of the module is inductive.  Unlinking curenv needs *)
(* to know that it is RUNNABLE (CurenvRuns) and so in the list; waking a   *)
(* receiver, that a raised wait flag means it is in no list (WaitFlags);   *)
(* starting a child, that it is still as sys_exofork left it (ChildFresh); *)
(* reusing a slot, that it is FREE (FreeListExact) and hence has no flag   *)
(* up.  IInv is their conjunction.                                         *)
(***************************************************************************)
EXTENDS KernelEnv, QueueProofs, WellFoundedInduction

\* The inductive invariant.
IInv ==
  /\ TypeOK
  /\ SchedIffRunnable
  /\ FreeListExact
  /\ WaitFlags
  /\ ChildFresh
  /\ AsidExact
  /\ LiveFields
  /\ CurenvRuns
  /\ PanicOnlyIfIdle

Runnables(st) == {x \in Slot : st[x] = "RUNNABLE"}

-----------------------------------------------------------------------------
\* schedule: given statuses st and the list q of the runnable slots, it keeps
\* the list exact and either resumes a runnable slot with a positive share of
\* slices, or panics because there is none.
LEMMA ScheduleLemma ==
  ASSUME TypeOK, ~panicked,
         NEW yield \in BOOLEAN,
         NEW e \in Slot \cup {NoEnv},
         NEW st \in [Slot -> Status],
         NEW q \in Seq(Slot), Lists(q, Runnables(st)),
         \A x \in Runnables(st) : env_pri[x] \in Nat \ {0},
         e # NoEnv /\ st[e] = "RUNNABLE" => count \in 0 .. env_pri[e] - 1,
         schedule(yield, e, st, q)
  PROVE  /\ env_sched_list' \in Seq(Slot)
         /\ Lists(env_sched_list', Runnables(st))
         /\ curenv' \in Slot \cup {NoEnv}
         /\ count' \in Int
         /\ panicked' \in BOOLEAN
         /\ ~panicked' => /\ curenv' \in Runnables(st)
                          /\ count' \in 0 .. env_pri[curenv'] - 1
         /\ panicked' => Runnables(st) = {}
<1> DEFINE runnable == e # NoEnv /\ st[e] = "RUNNABLE"
           repick   == yield \/ count = 0 \/ ~runnable
           rotated  == IF runnable
                       THEN TAILQ_INSERT_TAIL(TAILQ_REMOVE(q, e), e) ELSE q
<1>1. rotated \in Seq(Slot) /\ Lists(rotated, Runnables(st))
  <2>1. CASE runnable
    <3>1. e \in Runnables(st)
      BY <2>1 DEF Runnables
    <3>2. /\ TAILQ_REMOVE(q, e) \in Seq(Slot)
          /\ Lists(TAILQ_REMOVE(q, e), Runnables(st) \ {e})
      BY <3>1, RemoveLists
    <3>3. e \in Slot /\ e \notin Runnables(st) \ {e}
      BY <2>1
    <3>4. /\ rotated \in Seq(Slot)
          /\ Lists(rotated, (Runnables(st) \ {e}) \cup {e})
      BY <2>1, <3>2, <3>3, InsertTailLists
    <3>5. (Runnables(st) \ {e}) \cup {e} = Runnables(st)
      BY <3>1
    <3> QED BY <3>4, <3>5
  <2>2. CASE ~runnable
    BY <2>2
  <2> QED BY <2>1, <2>2
<1>2. \/ /\ ~repick
         /\ env_sched_list' = q /\ curenv' = e /\ count' = count - 1
         /\ panicked' = panicked
      \/ /\ rotated # <<>>
         /\ env_sched_list' = rotated /\ curenv' = Head(rotated)
         /\ count' = env_pri[Head(rotated)] - 1
         /\ panicked' = panicked
      \/ /\ rotated = <<>>
         /\ env_sched_list' = rotated /\ curenv' = e
         /\ count' = count /\ panicked' = TRUE
  BY DEF schedule, Rotated, Slices
<1>3. count \in Int
  BY DEF TypeOK
<1>0. panicked = FALSE
  BY DEF TypeOK
<1> HIDE DEF rotated
<1>4. CASE /\ ~repick
           /\ env_sched_list' = q /\ curenv' = e /\ count' = count - 1
           /\ panicked' = panicked
  <2>1. e \in Runnables(st)
    BY <1>4 DEF Runnables
  <2>2. env_pri[e] \in Nat \ {0} /\ count \in 0 .. env_pri[e] - 1 /\ count # 0
    BY <1>4, <2>1
  <2>3. count' \in 0 .. env_pri[e] - 1 /\ count' \in Int
    BY <2>2, <1>4
  <2>4. panicked' = FALSE
    BY <1>0, <1>4
  <2> QED BY <1>4, <2>1, <2>3, <2>4
<1>5. CASE /\ rotated # <<>>
           /\ env_sched_list' = rotated /\ curenv' = Head(rotated)
           /\ count' = env_pri[Head(rotated)] - 1
           /\ panicked' = panicked
  <2>1. Head(rotated) \in Runnables(st)
    BY <1>1, <1>5, TailLists
  <2>2. env_pri[Head(rotated)] \in Nat \ {0}
    BY <2>1
  <2>3. count' \in 0 .. env_pri[Head(rotated)] - 1 /\ count' \in Int
    BY <2>2, <1>5
  <2>4. panicked' = FALSE
    BY <1>0, <1>5
  <2>5. Head(rotated) \in Slot
    BY <2>1 DEF Runnables
  <2> QED BY <1>1, <1>5, <2>1, <2>3, <2>4, <2>5
<1>6. CASE /\ rotated = <<>>
           /\ env_sched_list' = rotated /\ curenv' = e
           /\ count' = count /\ panicked' = TRUE
  <2>1. Len(rotated) = 0
    BY <1>6, EmptySeq
  <2>2. Runnables(st) = {}
    BY <1>1, <2>1 DEF Lists
  <2> QED BY <1>1, <1>3, <1>6, <2>2
<1> QED BY <1>2, <1>4, <1>5, <1>6

\* The facts about the state that a call of schedule needs.
LEMMA ScheduleFacts ==
  ASSUME IInv, ~panicked
  PROVE  /\ \A x \in Runnables(env_status) : env_pri[x] \in Nat \ {0}
         /\ Lists(env_sched_list, Runnables(env_status))
         /\ curenv # NoEnv => /\ curenv \in Runnables(env_status)
                              /\ count \in 0 .. env_pri[curenv] - 1
<1>1. \A x \in Runnables(env_status) : env_pri[x] \in Nat \ {0}
  BY DEF IInv, TypeOK, LiveFields, Runnables
<1>2. Lists(env_sched_list, Runnables(env_status))
  BY DEF IInv, SchedIffRunnable, Runnables
<1>3. ASSUME curenv # NoEnv
      PROVE  curenv \in Runnables(env_status) /\ count \in 0 .. env_pri[curenv] - 1
  BY <1>3 DEF IInv, CurenvRuns, Running, TypeOK, Runnables
<1> QED BY <1>1, <1>2, <1>3

\* The clock interrupt, sys_yield and the first schedule of mips_init.
LEMMA ScheduleStep ==
  ASSUME IInv, ~panicked, NEW yield \in BOOLEAN,
         schedule(yield, curenv, env_status, env_sched_list),
         UNCHANGED <<env_status, env_free_list, child, idvars, ipcvars>>
  PROVE  IInv'
<1>0. TypeOK
  BY DEF IInv
<1>1. /\ curenv \in Slot \cup {NoEnv}
      /\ env_status \in [Slot -> Status]
      /\ env_sched_list \in Seq(Slot)
  BY <1>0 DEF TypeOK
<1>2. /\ \A x \in Runnables(env_status) : env_pri[x] \in Nat \ {0}
      /\ Lists(env_sched_list, Runnables(env_status))
      /\ curenv # NoEnv => count \in 0 .. env_pri[curenv] - 1
  BY ScheduleFacts
<1>3. /\ env_sched_list' \in Seq(Slot)
      /\ Lists(env_sched_list', Runnables(env_status))
      /\ curenv' \in Slot \cup {NoEnv}
      /\ count' \in Int
      /\ panicked' \in BOOLEAN
      /\ ~panicked' => /\ curenv' \in Runnables(env_status)
                       /\ count' \in 0 .. env_pri[curenv'] - 1
      /\ panicked' => Runnables(env_status) = {}
  BY <1>0, <1>1, <1>2, ScheduleLemma
<1>4. TypeOK'
  BY <1>0, <1>3 DEF TypeOK, idvars, ipcvars
<1>5. SchedIffRunnable'
  BY <1>3 DEF SchedIffRunnable, Runnables
<1>6. CurenvRuns' /\ PanicOnlyIfIdle'
  <2>1. env_pri' = env_pri /\ env_status' = env_status
    BY DEF idvars
  <2>2. CASE panicked'
    BY <1>3, <2>1, <2>2 DEF CurenvRuns, PanicOnlyIfIdle, Running, Runnables
  <2>3. CASE ~panicked'
    BY <1>3, <2>1, <2>3 DEF CurenvRuns, PanicOnlyIfIdle, Running, Runnables
  <2> QED BY <2>2, <2>3
<1>7. FreeListExact' /\ WaitFlags' /\ ChildFresh'
  BY DEF IInv, FreeListExact, WaitFlags, ChildFresh, idvars, ipcvars
<1>8. AsidExact' /\ LiveFields'
  BY DEF IInv, AsidExact, LiveFields, idvars
<1> QED BY <1>4, <1>5, <1>6, <1>7, <1>8 DEF IInv

\* The caller blocks: one of its wait flags goes up as it leaves the list.
LEMMA BlockStep ==
  ASSUME IInv, Running, sys_ipc_recv \/ sys_recv_return_value
  PROVE  IInv'
<1> DEFINE st == [env_status EXCEPT ![curenv] = "NOT_RUNNABLE"]
           q  == TAILQ_REMOVE(env_sched_list, curenv)
<1>0. TypeOK /\ ~panicked /\ curenv # NoEnv
  BY DEF IInv, Running
<1>1. /\ env_status' = st
      /\ schedule(TRUE, curenv, st, q)
      /\ UNCHANGED <<env_free_list, child, idvars, env_ipc_from, return_value>>
      /\ \/ /\ env_ipc_recving' = [env_ipc_recving EXCEPT ![curenv] = TRUE]
            /\ UNCHANGED waiting_return_value
         \/ /\ waiting_return_value' = [waiting_return_value EXCEPT ![curenv] = TRUE]
            /\ UNCHANGED env_ipc_recving
  BY DEF sys_ipc_recv, sys_recv_return_value, Block
<1>2. /\ \A x \in Runnables(env_status) : env_pri[x] \in Nat \ {0}
      /\ Lists(env_sched_list, Runnables(env_status))
      /\ curenv \in Runnables(env_status)
  BY <1>0, ScheduleFacts
<1>3. /\ curenv \in Slot /\ env_status[curenv] = "RUNNABLE"
      /\ st \in [Slot -> Status]
      /\ \A x \in Slot : st[x] = IF x = curenv THEN "NOT_RUNNABLE" ELSE env_status[x]
      /\ env_sched_list \in Seq(Slot)
  BY <1>0, <1>2 DEF TypeOK, Runnables, Status
<1> HIDE DEF st
<1>4. Runnables(st) = Runnables(env_status) \ {curenv}
  BY <1>3 DEF Runnables
<1>5. q \in Seq(Slot) /\ Lists(q, Runnables(st))
  BY <1>2, <1>3, <1>4, RemoveLists
<1> HIDE DEF q
<1>6. /\ env_sched_list' \in Seq(Slot)
      /\ Lists(env_sched_list', Runnables(st))
      /\ curenv' \in Slot \cup {NoEnv}
      /\ count' \in Int
      /\ panicked' \in BOOLEAN
      /\ ~panicked' => /\ curenv' \in Runnables(st)
                       /\ count' \in 0 .. env_pri[curenv'] - 1
      /\ panicked' => Runnables(st) = {}
  <2>1. st[curenv] # "RUNNABLE"
    BY <1>3
  <2>2. \A x \in Runnables(st) : env_pri[x] \in Nat \ {0}
    BY <1>2, <1>4
  <2> QED BY <1>0, <1>1, <1>3, <1>5, <2>1, <2>2, ScheduleLemma
<1>7. TypeOK'
  BY <1>0, <1>1, <1>3, <1>6 DEF TypeOK, idvars
<1>8. SchedIffRunnable'
  BY <1>1, <1>6 DEF SchedIffRunnable, Runnables
<1>9. CurenvRuns' /\ PanicOnlyIfIdle'
  <2>1. env_pri' = env_pri /\ env_status' = st
    BY <1>1 DEF idvars
  <2>2. CASE panicked'
    BY <1>6, <2>1, <2>2 DEF CurenvRuns, PanicOnlyIfIdle, Running, Runnables
  <2>3. CASE ~panicked'
    BY <1>6, <2>1, <2>3 DEF CurenvRuns, PanicOnlyIfIdle, Running, Runnables
  <2> QED BY <2>2, <2>3
<1>10. FreeListExact'
  <2>1. {x \in Slot : env_status'[x] = "FREE"} = {x \in Slot : env_status[x] = "FREE"}
    BY <1>1, <1>3
  <2> QED BY <1>1, <2>1 DEF IInv, FreeListExact
<1>11. WaitFlags'
  BY <1>0, <1>1, <1>3 DEF IInv, WaitFlags, TypeOK
<1>12. ChildFresh'
  <2>1. ASSUME NEW e \in Slot, child[e] # NoId
        PROVE  ENVX(child[e]) # curenv /\ ENVX(child[e]) \in Slot
    BY <1>0, <1>3, <2>1 DEF IInv, ChildFresh, TypeOK, EnvId, ENVX
  <2> QED BY <1>0, <1>1, <1>3, <2>1 DEF IInv, ChildFresh, idvars, TypeOK
<1>13. AsidExact'
  <2>1. {x \in Slot : env_status'[x] # "FREE"} = {x \in Slot : env_status[x] # "FREE"}
    BY <1>1, <1>3
  <2> QED BY <1>1, <2>1 DEF IInv, AsidExact, idvars
<1>14. LiveFields'
  BY <1>1, <1>3 DEF IInv, LiveFields, idvars
<1> QED BY <1>7, <1>8, <1>9, <1>10, <1>11, <1>12, <1>13, <1>14 DEF IInv

\* A slot that is NOT_RUNNABLE, and that no fork or spawn is building any
\* more, becomes RUNNABLE and is linked at the tail: both sends and the end
\* of fork and spawn.
LEMMA WakeStep ==
  ASSUME IInv, Running, NEW e \in Slot,
         env_status[e] = "NOT_RUNNABLE",
         Wake(e),
         UNCHANGED <<env_free_list, idvars, curenv, count, panicked>>
  PROVE  /\ env_status' \in [Slot -> Status]
         /\ env_sched_list' \in Seq(Slot)
         /\ \A x \in Slot : env_status'[x] = IF x = e THEN "RUNNABLE" ELSE env_status[x]
         /\ SchedIffRunnable'
         /\ FreeListExact'
         /\ AsidExact'
         /\ LiveFields'
         /\ CurenvRuns'
         /\ PanicOnlyIfIdle'
<1>0. /\ TypeOK /\ panicked = FALSE /\ curenv # NoEnv
      /\ env_status \in [Slot -> Status] /\ env_sched_list \in Seq(Slot)
      /\ curenv \in Slot /\ env_status[curenv] = "RUNNABLE"
  BY DEF IInv, Running, TypeOK, CurenvRuns
<1>1. /\ env_status' \in [Slot -> Status]
      /\ \A x \in Slot : env_status'[x] = IF x = e THEN "RUNNABLE" ELSE env_status[x]
  BY <1>0 DEF Wake, Status
<1>2. /\ env_sched_list' \in Seq(Slot)
      /\ Lists(env_sched_list', Runnables(env_status) \cup {e})
  <2>1. e \notin Runnables(env_status)
    BY DEF Runnables
  <2>2. Lists(env_sched_list, Runnables(env_status))
    BY <1>0, ScheduleFacts
  <2> QED BY <1>0, <2>1, <2>2, InsertTailLists DEF Wake
<1>3. SchedIffRunnable'
  <2>1. Runnables(env_status) \cup {e} = {x \in Slot : env_status'[x] = "RUNNABLE"}
    BY <1>1 DEF Runnables
  <2> QED BY <1>2, <2>1 DEF SchedIffRunnable
<1>4. FreeListExact'
  <2>1. {x \in Slot : env_status'[x] = "FREE"} = {x \in Slot : env_status[x] = "FREE"}
    BY <1>1
  <2> QED BY <2>1 DEF IInv, FreeListExact
<1>5. AsidExact'
  <2>1. {x \in Slot : env_status'[x] # "FREE"} = {x \in Slot : env_status[x] # "FREE"}
    BY <1>1
  <2> QED BY <2>1 DEF IInv, AsidExact, idvars
<1>6. LiveFields'
  BY <1>1 DEF IInv, LiveFields, idvars
<1>7. CurenvRuns'
  BY <1>0, <1>1 DEF IInv, CurenvRuns, Running, idvars
<1>8. PanicOnlyIfIdle'
  BY <1>0 DEF PanicOnlyIfIdle
<1> QED BY <1>1, <1>2, <1>3, <1>4, <1>5, <1>6, <1>7, <1>8

\* The two sends: the flag that let the sender through goes down and its
\* owner, who was blocked and so in no list, is woken.
LEMMA SendStep ==
  ASSUME IInv, NEW id \in EnvId,
         \/ sys_ipc_try_send(id)
         \/ \E v \in Value : sys_send_return_value(id, v)
  PROVE  IInv'
<1> DEFINE e == ENVX(id)
<1>0. TypeOK /\ Running /\ e \in Slot /\ curenv \in Slot
  BY DEF IInv, EnvId, ENVX, sys_ipc_try_send, Receiving, sys_send_return_value, Running, TypeOK
<1>1. /\ Wake(e)
      /\ UNCHANGED <<env_free_list, child, idvars, curenv, count, panicked>>
      /\ env_ipc_recving[e] \/ waiting_return_value[e]
      /\ env_ipc_from' = [env_ipc_from EXCEPT ![e] = env_id[curenv]]
      /\ env_ipc_recving' = [env_ipc_recving EXCEPT ![e] = FALSE]
      /\ \/ UNCHANGED <<waiting_return_value, return_value>> /\ env_ipc_recving[e]
         \/ /\ waiting_return_value' = [waiting_return_value EXCEPT ![e] = FALSE]
            /\ \E v \in Value : return_value' = [return_value EXCEPT ![e] = v]
  BY DEF sys_ipc_try_send, sys_send_return_value, Receiving, EndWait
<1> HIDE DEF e
<1>2. env_status[e] = "NOT_RUNNABLE"
  BY <1>0, <1>1 DEF IInv, WaitFlags
<1>3. /\ env_status' \in [Slot -> Status]
      /\ env_sched_list' \in Seq(Slot)
      /\ \A x \in Slot : env_status'[x] = IF x = e THEN "RUNNABLE" ELSE env_status[x]
      /\ SchedIffRunnable' /\ FreeListExact' /\ AsidExact' /\ LiveFields'
      /\ CurenvRuns' /\ PanicOnlyIfIdle'
  BY <1>0, <1>1, <1>2, WakeStep
<1>4. TypeOK'
  BY <1>0, <1>1, <1>3 DEF TypeOK, idvars
<1>5. WaitFlags'
  BY <1>0, <1>1, <1>3 DEF IInv, WaitFlags, TypeOK
<1>6. ChildFresh'
  <2>1. ASSUME NEW x \in Slot, child[x] # NoId
        PROVE  ENVX(child[x]) # e /\ ENVX(child[x]) \in Slot
    BY <1>0, <1>1, <2>1 DEF IInv, ChildFresh, TypeOK, EnvId, ENVX
  <2> QED BY <1>0, <1>1, <1>3, <2>1 DEF IInv, ChildFresh, idvars, TypeOK
<1> QED BY <1>3, <1>4, <1>5, <1>6 DEF IInv

\* sys_set_env_status on the child that ChildFresh keeps as it was made.
LEMMA SetStatusStep ==
  ASSUME IInv, NEW e \in Slot, sys_set_env_status(e)
  PROVE  IInv'
<1>0. TypeOK /\ Running /\ curenv \in Slot /\ child[curenv] # NoId /\ e = ENVX(child[curenv])
  BY DEF IInv, sys_set_env_status, Running, TypeOK
<1>1. /\ env_status[e] = "NOT_RUNNABLE"
      /\ ~env_ipc_recving[e] /\ ~waiting_return_value[e]
      /\ \A f \in Slot : child[f] = child[curenv] => f = curenv
      /\ env_id[e] = child[curenv]
  BY <1>0 DEF IInv, ChildFresh
<1>2. /\ Wake(e)
      /\ child' = [child EXCEPT ![curenv] = NoId]
      /\ UNCHANGED <<env_free_list, idvars, ipcvars, curenv, count, panicked>>
  BY <1>1 DEF sys_set_env_status, Wake
<1>3. /\ env_status' \in [Slot -> Status]
      /\ env_sched_list' \in Seq(Slot)
      /\ \A x \in Slot : env_status'[x] = IF x = e THEN "RUNNABLE" ELSE env_status[x]
      /\ SchedIffRunnable' /\ FreeListExact' /\ AsidExact' /\ LiveFields'
      /\ CurenvRuns' /\ PanicOnlyIfIdle'
  BY <1>0, <1>1, <1>2, WakeStep
<1>4. NoId \in EnvId
  BY KernelAssumption DEF NoId, EnvId, Slot
<1>5. TypeOK'
  BY <1>0, <1>2, <1>3, <1>4 DEF TypeOK, idvars, ipcvars
<1>6. WaitFlags'
  BY <1>0, <1>1, <1>2, <1>3 DEF IInv, WaitFlags, ipcvars
<1>7. ChildFresh'
  <2>1. \A x \in Slot : child'[x] = IF x = curenv THEN NoId ELSE child[x]
    BY <1>0, <1>2 DEF TypeOK
  <2>2. ASSUME NEW x \in Slot, child[x] # NoId, x # curenv
        PROVE  ENVX(child[x]) # e /\ ENVX(child[x]) \in Slot
    <3>1. env_id[ENVX(child[x])] = child[x] /\ ENVX(child[x]) \in Slot
      BY <1>0, <2>2 DEF IInv, ChildFresh, TypeOK, EnvId, ENVX
    <3> QED BY <1>0, <1>1, <2>2, <3>1
  <2> QED BY <1>0, <1>2, <1>3, <2>1, <2>2 DEF IInv, ChildFresh, idvars, ipcvars, TypeOK
<1> QED BY <1>3, <1>5, <1>6, <1>7 DEF IInv

-----------------------------------------------------------------------------
\* A non-empty set of naturals has a least element.
LEMMA LeastExists ==
  ASSUME NEW T, T \subseteq Nat, T # {}
  PROVE  \E m \in T : \A y \in T : m <= y
<1>1. \E R : IsWellFoundedOn(R, Nat) /\ \A x, y \in Nat : x < y => <<x, y>> \in R
  <2>1. \A x, y \in Nat : x < y => <<x, y>> \in OpToRel(<, Nat)
    BY Zenon DEF OpToRel
  <2> QED BY <2>1, NatLessThanWellFounded, Zenon
<1>2. PICK R : IsWellFoundedOn(R, Nat) /\ \A x, y \in Nat : x < y => <<x, y>> \in R
  BY <1>1, Zenon
<1>3. \E m \in T : \A y \in T : ~(<<y, m>> \in R)
  <2>1. IsWellFoundedOn(R, Nat)
    BY <1>2, Zenon
  <2> QED BY <2>1, WFMin
<1>4. PICK m \in T : \A y \in T : ~(<<y, m>> \in R)
  BY <1>3, Zenon
<1>5. ASSUME NEW y \in T
      PROVE  m <= y
  <2>1. ~(<<y, m>> \in R) /\ y \in Nat /\ m \in Nat
    BY <1>4, Zenon
  <2>2. ~(y < m)
    BY <1>2, <2>1, Zenon
  <2> QED BY <2>1, <2>2
<1> QED BY <1>5

\* asid_alloc returns a clear bit whenever there is one.
LEMMA AsidAllocFree ==
  ASSUME FreeAsids # {}
  PROVE  asid_alloc \in FreeAsids
<1>1. FreeAsids \subseteq Nat
  BY KernelAssumption DEF FreeAsids, Asid
<1>2. \E m \in FreeAsids : \A y \in FreeAsids : m <= y
  BY <1>1, LeastExists
<1> QED BY <1>2 DEF asid_alloc

\* A slot is taken off the free list and given an id, an ASID, a priority p
\* and its first status s.
LEMMA AllocStep ==
  ASSUME IInv, NEW e \in Slot, NEW parent \in EnvId, env_alloc(e, parent),
         NEW s \in {"RUNNABLE", "NOT_RUNNABLE"}, NEW p \in Nat \ {0},
         env_pri' = [env_pri EXCEPT ![e] = p],
         env_status' = [env_status EXCEPT ![e] = s]
  PROVE  /\ env_status[e] = "FREE"
         /\ env_status' \in [Slot -> Status]
         /\ \A x \in Slot : env_status'[x] = IF x = e THEN s ELSE env_status[x]
         /\ env_free_list' \in Seq(Slot)
         /\ env_asid' \in [Slot -> Asid] /\ asid_bitmap' \subseteq Asid
         /\ env_id' \in [Slot -> EnvId] /\ env_parent_id' \in [Slot -> EnvId]
         /\ env_pri' \in [Slot -> Nat] /\ envid_count' \in 0 .. MaxAlloc
         /\ mkenvid(envid_count + 1, e) \in EnvId
         /\ mkenvid(envid_count + 1, e) # NoId
         /\ \A x \in Slot : env_id'[x] = IF x = e THEN mkenvid(envid_count + 1, e) ELSE env_id[x]
         /\ \A x \in Slot : env_parent_id'[x] = IF x = e THEN parent ELSE env_parent_id[x]
         /\ FreeListExact'
         /\ AsidExact'
         /\ LiveFields'
<1>0. /\ TypeOK
      /\ env_free_list # <<>> /\ e = Head(env_free_list)
      /\ env_free_list' = Tail(env_free_list)
      /\ env_free_list \in Seq(Slot)
      /\ Lists(env_free_list, {x \in Slot : env_status[x] = "FREE"})
  BY DEF IInv, env_alloc, LIST_FIRST, TypeOK, FreeListExact
<1>1. /\ env_status[e] = "FREE"
      /\ env_free_list' \in Seq(Slot)
      /\ Lists(env_free_list', {x \in Slot : env_status[x] = "FREE"} \ {e})
  <2> DEFINE F == {x \in Slot : env_status[x] = "FREE"}
  <2> HIDE DEF F
  <2>1. Lists(env_free_list, F)
    BY <1>0 DEF F
  <2>2. /\ e \in F
        /\ env_free_list' \in Seq(Slot)
        /\ Lists(env_free_list', F \ {e})
    BY <1>0, <2>1, TailLists
  <2> QED BY <2>2 DEF F
<1>2. /\ env_status' \in [Slot -> Status]
      /\ \A x \in Slot : env_status'[x] = IF x = e THEN s ELSE env_status[x]
  BY <1>0 DEF TypeOK, Status
<1>3. FreeListExact'
  <2>1. {x \in Slot : env_status'[x] = "FREE"} = {x \in Slot : env_status[x] = "FREE"} \ {e}
    BY <1>2
  <2> QED BY <1>1, <2>1 DEF FreeListExact
<1>4. asid_alloc \in Asid /\ asid_alloc \notin asid_bitmap
  BY AsidAllocFree DEF env_alloc, FreeAsids
<1>5. /\ env_asid' \in [Slot -> Asid] /\ asid_bitmap' \subseteq Asid
      /\ asid_bitmap' = asid_bitmap \cup {asid_alloc}
      /\ \A x \in Slot : env_asid'[x] = IF x = e THEN asid_alloc ELSE env_asid[x]
  BY <1>0, <1>4 DEF TypeOK, env_alloc
<1>6. AsidExact'
  <2> DEFINE live == {x \in Slot : env_status[x] # "FREE"}
             new  == {x \in Slot : env_status'[x] # "FREE"}
  <2>1. new = live \cup {e} /\ e \notin live
    BY <1>1, <1>2
  <2>2. /\ \A x \in live : env_asid[x] \in asid_bitmap
        /\ \A a \in asid_bitmap : \E x \in live : env_asid[x] = a
        /\ \A x, f \in live : env_asid[x] = env_asid[f] => x = f
    BY DEF IInv, AsidExact
  <2>3. live \subseteq Slot
    OBVIOUS
  <2> HIDE DEF live, new
  <2>4. \A x \in new : env_asid'[x] \in asid_bitmap'
    BY <1>4, <1>5, <2>1, <2>2, <2>3
  <2>5. \A a \in asid_bitmap' : \E x \in new : env_asid'[x] = a
    BY <1>4, <1>5, <2>1, <2>2, <2>3
  <2>6. \A x, f \in new : env_asid'[x] = env_asid'[f] => x = f
    BY <1>4, <1>5, <2>1, <2>2, <2>3
  <2> QED BY <2>4, <2>5, <2>6 DEF AsidExact, new
<1>7. /\ envid_count \in 0 .. MaxAlloc - 1 /\ envid_count' = envid_count + 1
      /\ MaxAlloc \in Nat
  BY <1>0, KernelAssumption DEF env_alloc, TypeOK
<1>8. /\ mkenvid(envid_count + 1, e) \in EnvId
      /\ mkenvid(envid_count + 1, e) # NoId
      /\ mkenvid(envid_count + 1, e)[1] = envid_count + 1
      /\ mkenvid(envid_count + 1, e)[2] = e
  BY <1>7 DEF mkenvid, EnvId, NoId
<1>9. /\ env_id' \in [Slot -> EnvId] /\ env_parent_id' \in [Slot -> EnvId]
      /\ env_pri' \in [Slot -> Nat] /\ envid_count' \in 0 .. MaxAlloc
  BY <1>0, <1>7, <1>8 DEF env_alloc, TypeOK
<1>10. /\ \A x \in Slot : env_id'[x] = IF x = e THEN mkenvid(envid_count + 1, e) ELSE env_id[x]
       /\ \A x \in Slot : env_parent_id'[x] = IF x = e THEN parent ELSE env_parent_id[x]
       /\ \A x \in Slot : env_pri'[x] = IF x = e THEN p ELSE env_pri[x]
  BY <1>0 DEF env_alloc, TypeOK
<1>11. LiveFields'
  <2>1. ASSUME NEW x \in Slot, env_status'[x] # "FREE"
        PROVE  /\ env_id'[x][2] = x
               /\ env_id'[x][1] \in 1 .. envid_count'
               /\ env_pri'[x] # 0
               /\ x = e => env_id'[x][1] = envid_count + 1
               /\ x # e => env_id'[x][1] # envid_count + 1
    <3>1. CASE x = e
      BY <1>7, <1>8, <1>10, <3>1
    <3>2. CASE x # e
      <4>1. /\ env_id[x][2] = x
            /\ env_id[x][1] \in 1 .. envid_count
            /\ env_pri[x] # 0
        BY <1>2, <2>1, <3>2 DEF IInv, LiveFields
      <4> QED BY <1>7, <1>10, <3>2, <4>1
    <3> QED BY <3>1, <3>2
  <2>2. ASSUME NEW x \in Slot, env_status'[x] # "FREE",
               NEW f \in Slot, env_status'[f] # "FREE", env_id'[f][1] = env_id'[x][1]
        PROVE  f = x
    <3>1. CASE x = e \/ f = e
      BY <2>1, <2>2, <3>1
    <3>2. CASE x # e /\ f # e
      BY <1>2, <1>10, <2>2, <3>2 DEF IInv, LiveFields
    <3> QED BY <3>1, <3>2
  <2> QED BY <2>1, <2>2 DEF LiveFields
<1> QED BY <1>1, <1>2, <1>3, <1>5, <1>6, <1>8, <1>9, <1>10, <1>11

\* env_create at boot: the new slot is RUNNABLE and at the head of the list.
LEMMA CreateStep ==
  ASSUME IInv, NEW e \in Slot, NEW priority \in Priorities, env_create(e, priority)
  PROVE  IInv'
<1>0. /\ TypeOK /\ curenv = NoEnv /\ panicked = FALSE
      /\ env_alloc(e, NoId)
      /\ env_pri' = [env_pri EXCEPT ![e] = priority]
      /\ env_status' = [env_status EXCEPT ![e] = "RUNNABLE"]
      /\ env_sched_list' = <<e>> \o env_sched_list
      /\ UNCHANGED <<child, ipcvars, curenv, count, panicked>>
  BY DEF IInv, env_create, TypeOK, TAILQ_INSERT_HEAD
<1>1. NoId \in EnvId /\ priority \in Nat \ {0}
  BY KernelAssumption DEF NoId, EnvId, Slot
<1>2. /\ env_status[e] = "FREE"
      /\ env_status' \in [Slot -> Status]
      /\ \A x \in Slot : env_status'[x] = IF x = e THEN "RUNNABLE" ELSE env_status[x]
      /\ env_free_list' \in Seq(Slot)
      /\ env_asid' \in [Slot -> Asid] /\ asid_bitmap' \subseteq Asid
      /\ env_id' \in [Slot -> EnvId] /\ env_parent_id' \in [Slot -> EnvId]
      /\ env_pri' \in [Slot -> Nat] /\ envid_count' \in 0 .. MaxAlloc
      /\ \A x \in Slot : x # e => env_id'[x] = env_id[x]
      /\ \A x \in Slot : x # e => env_parent_id'[x] = env_parent_id[x]
      /\ FreeListExact' /\ AsidExact' /\ LiveFields'
  BY <1>0, <1>1, AllocStep
<1>3. /\ env_sched_list' \in Seq(Slot)
      /\ Lists(env_sched_list', Runnables(env_status) \cup {e})
  <2>1. e \notin Runnables(env_status)
    BY <1>2 DEF Runnables
  <2>2. Lists(env_sched_list, Runnables(env_status)) /\ env_sched_list \in Seq(Slot)
    BY <1>0, ScheduleFacts DEF TypeOK
  <2> QED BY <1>0, <2>1, <2>2, InsertHeadLists
<1>4. SchedIffRunnable'
  <2>1. Runnables(env_status) \cup {e} = {x \in Slot : env_status'[x] = "RUNNABLE"}
    BY <1>2 DEF Runnables
  <2> QED BY <1>3, <2>1 DEF SchedIffRunnable
<1>5. TypeOK'
  BY <1>0, <1>2, <1>3 DEF TypeOK, ipcvars
<1>6. WaitFlags'
  BY <1>0, <1>2 DEF IInv, WaitFlags, ipcvars
<1>7. ChildFresh'
  <2>1. ASSUME NEW x \in Slot, child[x] # NoId
        PROVE  ENVX(child[x]) # e /\ ENVX(child[x]) \in Slot /\ x # e
    BY <1>0, <1>2, <2>1 DEF IInv, ChildFresh, TypeOK, EnvId, ENVX
  <2> QED BY <1>0, <1>2, <2>1 DEF IInv, ChildFresh, ipcvars
<1>8. CurenvRuns' /\ PanicOnlyIfIdle'
  BY <1>0 DEF CurenvRuns, PanicOnlyIfIdle, Running
<1> QED BY <1>2, <1>4, <1>5, <1>6, <1>7, <1>8 DEF IInv

\* sys_exofork: the new slot is NOT_RUNNABLE, in no list, and has no flag up
\* although env_alloc clears none.
LEMMA ExoforkStep ==
  ASSUME IInv, NEW e \in Slot, sys_exofork(e)
  PROVE  IInv'
<1> DEFINE id == mkenvid(envid_count + 1, e)
<1>0. /\ TypeOK /\ Running /\ curenv \in Slot /\ panicked = FALSE
      /\ child[curenv] = NoId
      /\ env_alloc(e, env_id[curenv])
      /\ env_pri' = [env_pri EXCEPT ![e] = env_pri[curenv]]
      /\ env_status' = [env_status EXCEPT ![e] = "NOT_RUNNABLE"]
      /\ child' = [child EXCEPT ![curenv] = id]
      /\ UNCHANGED <<ipcvars, schedvars>>
  BY DEF IInv, sys_exofork, TypeOK, Running
<1>1. /\ env_id[curenv] \in EnvId /\ env_pri[curenv] \in Nat \ {0}
      /\ env_status[curenv] = "RUNNABLE"
  <2>1. curenv \in Runnables(env_status) /\ env_pri[curenv] \in Nat \ {0}
    BY <1>0, ScheduleFacts DEF Running
  <2> QED BY <1>0, <2>1 DEF TypeOK, Runnables
<1> HIDE DEF id
<1>2. /\ env_status[e] = "FREE"
      /\ env_status' \in [Slot -> Status]
      /\ \A x \in Slot : env_status'[x] = IF x = e THEN "NOT_RUNNABLE" ELSE env_status[x]
      /\ env_free_list' \in Seq(Slot)
      /\ env_asid' \in [Slot -> Asid] /\ asid_bitmap' \subseteq Asid
      /\ env_id' \in [Slot -> EnvId] /\ env_parent_id' \in [Slot -> EnvId]
      /\ env_pri' \in [Slot -> Nat] /\ envid_count' \in 0 .. MaxAlloc
      /\ id \in EnvId /\ id # NoId
      /\ \A x \in Slot : env_id'[x] = IF x = e THEN id ELSE env_id[x]
      /\ \A x \in Slot : env_parent_id'[x] = IF x = e THEN env_id[curenv] ELSE env_parent_id[x]
      /\ FreeListExact' /\ AsidExact' /\ LiveFields'
  BY <1>0, <1>1, AllocStep DEF id
<1>3. e # curenv /\ ENVX(id) = e
  BY <1>1, <1>2 DEF id, mkenvid, ENVX
<1>4. SchedIffRunnable'
  <2>1. {x \in Slot : env_status'[x] = "RUNNABLE"} = {x \in Slot : env_status[x] = "RUNNABLE"}
    BY <1>2
  <2> QED BY <1>0, <2>1 DEF IInv, SchedIffRunnable, schedvars
<1>5. TypeOK'
  BY <1>0, <1>2 DEF TypeOK, ipcvars, schedvars
<1>6. WaitFlags'
  BY <1>0, <1>2 DEF IInv, WaitFlags, ipcvars
<1>7. ChildFresh'
  <2>1. \A x \in Slot : child'[x] = IF x = curenv THEN id ELSE child[x]
    BY <1>0 DEF TypeOK
  <2>2. ASSUME NEW x \in Slot, child[x] # NoId
        PROVE  /\ ENVX(child[x]) # e /\ ENVX(child[x]) \in Slot /\ x # e
               /\ child[x] # id /\ x # curenv
    BY <1>0, <1>2, <1>3, <2>2 DEF IInv, ChildFresh, TypeOK, EnvId, ENVX
  <2>3. ~env_ipc_recving[e] /\ ~waiting_return_value[e]
    BY <1>2 DEF IInv, WaitFlags
  <2>4. ASSUME NEW x \in Slot, child'[x] # NoId
        PROVE  LET c == ENVX(child'[x]) IN
               /\ env_status'[x] # "FREE"
               /\ env_id'[c] = child'[x]
               /\ env_status'[c] = "NOT_RUNNABLE"
               /\ ~env_ipc_recving'[c] /\ ~waiting_return_value'[c]
               /\ env_parent_id'[c] = env_id'[x]
               /\ \A f \in Slot : child'[f] = child'[x] => f = x
    <3>1. CASE x = curenv
      BY <1>0, <1>1, <1>2, <1>3, <2>1, <2>2, <2>3, <3>1 DEF ipcvars
    <3>2. CASE x # curenv
      <4>1. child[x] # NoId
        BY <2>1, <2>4, <3>2
      <4>2. LET c == ENVX(child[x]) IN
            /\ env_status[x] # "FREE"
            /\ env_id[c] = child[x]
            /\ env_status[c] = "NOT_RUNNABLE"
            /\ ~env_ipc_recving[c] /\ ~waiting_return_value[c]
            /\ env_parent_id[c] = env_id[x]
            /\ \A f \in Slot : child[f] = child[x] => f = x
        BY <4>1 DEF IInv, ChildFresh
      <4> QED BY <1>0, <1>2, <2>1, <2>2, <3>2, <4>1, <4>2 DEF ipcvars
    <3> QED BY <3>1, <3>2
  <2> QED BY <2>4 DEF ChildFresh
<1>8. CurenvRuns' /\ PanicOnlyIfIdle'
  <2>1. env_pri'[curenv] = env_pri[curenv] /\ env_status'[curenv] = env_status[curenv]
    BY <1>0, <1>2, <1>3 DEF TypeOK
  <2>2. CurenvRuns'
    BY <1>0, <2>1 DEF IInv, CurenvRuns, Running, schedvars
  <2>3. PanicOnlyIfIdle'
    BY <1>0 DEF PanicOnlyIfIdle, schedvars
  <2> QED BY <2>2, <2>3
<1> QED BY <1>2, <1>4, <1>5, <1>6, <1>7, <1>8 DEF IInv

\* env_destroy of any RUNNABLE environment, the caller or another.
LEMMA DestroyStep ==
  ASSUME IInv, Running, NEW e \in Slot, env_status[e] = "RUNNABLE", env_destroy(e)
  PROVE  IInv'
<1> DEFINE st == [env_status EXCEPT ![e] = "FREE"]
           q  == TAILQ_REMOVE(env_sched_list, e)
<1>0. TypeOK /\ panicked = FALSE /\ curenv \in Slot /\ curenv # NoEnv
  BY DEF IInv, Running, TypeOK
<1>1. /\ asid_bitmap' = asid_bitmap \ {env_asid[e]}
      /\ env_status' = st
      /\ env_free_list' = <<e>> \o env_free_list
      /\ child' = [child EXCEPT ![e] = NoId]
      /\ e = curenv => schedule(TRUE, NoEnv, st, q)
      /\ e # curenv => env_sched_list' = q /\ UNCHANGED <<curenv, count, panicked>>
      /\ UNCHANGED <<env_id, env_parent_id, env_asid, env_pri, envid_count, ipcvars>>
  BY DEF env_destroy, LIST_INSERT_HEAD
<1>2. /\ \A x \in Runnables(env_status) : env_pri[x] \in Nat \ {0}
      /\ Lists(env_sched_list, Runnables(env_status))
      /\ curenv \in Runnables(env_status)
      /\ count \in 0 .. env_pri[curenv] - 1
  BY <1>0, ScheduleFacts
<1>3. /\ st \in [Slot -> Status]
      /\ \A x \in Slot : st[x] = IF x = e THEN "FREE" ELSE env_status[x]
      /\ env_sched_list \in Seq(Slot) /\ env_free_list \in Seq(Slot)
  BY <1>0 DEF TypeOK, Status
<1> HIDE DEF st
<1>4. Runnables(st) = Runnables(env_status) \ {e} /\ e \in Runnables(env_status)
  BY <1>3 DEF Runnables
<1>5. q \in Seq(Slot) /\ Lists(q, Runnables(st))
  BY <1>2, <1>3, <1>4, RemoveLists
<1> HIDE DEF q
<1>6. /\ env_sched_list' \in Seq(Slot)
      /\ Lists(env_sched_list', Runnables(st))
      /\ curenv' \in Slot \cup {NoEnv}
      /\ count' \in Int
      /\ panicked' \in BOOLEAN
      /\ ~panicked' => /\ curenv' \in Runnables(st)
                       /\ count' \in 0 .. env_pri[curenv'] - 1
      /\ panicked' => Runnables(st) = {}
  <2>1. CASE e = curenv
    <3>1. \A x \in Runnables(st) : env_pri[x] \in Nat \ {0}
      BY <1>2, <1>4
    <3> QED BY <1>0, <1>1, <1>3, <1>5, <2>1, <3>1, ScheduleLemma
  <2>2. CASE e # curenv
    <3>1. curenv \in Runnables(st) /\ count \in Int
      BY <1>0, <1>2, <1>4, <2>2 DEF TypeOK
    <3>2. curenv' = curenv /\ count' = count /\ panicked' = FALSE
      BY <1>0, <1>1, <2>2
    <3>3. count' \in 0 .. env_pri[curenv'] - 1
      BY <1>2, <3>2
    <3> QED BY <1>0, <1>1, <1>5, <2>2, <3>1, <3>2, <3>3
  <2> QED BY <2>1, <2>2
<1>7. env_free_list' \in Seq(Slot) /\ FreeListExact'
  <2> DEFINE F == {x \in Slot : env_status[x] = "FREE"}
  <2>1. e \notin F /\ Lists(env_free_list, F)
    BY DEF IInv, FreeListExact
  <2>2. F \cup {e} = {x \in Slot : env_status'[x] = "FREE"}
    BY <1>1, <1>3
  <2> HIDE DEF F
  <2>3. env_free_list' \in Seq(Slot) /\ Lists(env_free_list', F \cup {e})
    BY <1>1, <1>3, <2>1, InsertHeadLists
  <2> QED BY <2>2, <2>3 DEF FreeListExact
<1>8. TypeOK'
  <2>1. NoId \in EnvId
    BY KernelAssumption DEF NoId, EnvId, Slot
  <2> QED BY <1>0, <1>1, <1>3, <1>6, <1>7, <2>1 DEF TypeOK, ipcvars
<1>9. SchedIffRunnable'
  BY <1>1, <1>6 DEF SchedIffRunnable, Runnables
<1>10. CurenvRuns' /\ PanicOnlyIfIdle'
  <2>1. env_pri' = env_pri /\ env_status' = st
    BY <1>1
  <2>2. CASE panicked'
    BY <1>6, <2>1, <2>2 DEF CurenvRuns, PanicOnlyIfIdle, Running, Runnables
  <2>3. CASE ~panicked'
    BY <1>6, <2>1, <2>3 DEF CurenvRuns, PanicOnlyIfIdle, Running, Runnables
  <2> QED BY <2>2, <2>3
<1>11. WaitFlags'
  BY <1>1, <1>3 DEF IInv, WaitFlags, ipcvars
<1>12. ChildFresh'
  <2>1. \A x \in Slot : child'[x] = IF x = e THEN NoId ELSE child[x]
    BY <1>0, <1>1 DEF TypeOK
  <2>2. ASSUME NEW x \in Slot, child[x] # NoId
        PROVE  ENVX(child[x]) # e /\ ENVX(child[x]) \in Slot
    BY <1>0, <2>2 DEF IInv, ChildFresh, TypeOK, EnvId, ENVX
  <2> QED BY <1>1, <1>3, <2>1, <2>2 DEF IInv, ChildFresh, ipcvars
<1>13. AsidExact'
  <2> DEFINE live == {x \in Slot : env_status[x] # "FREE"}
             new  == {x \in Slot : env_status'[x] # "FREE"}
  <2>1. new = live \ {e} /\ e \in live
    BY <1>1, <1>3
  <2>2. /\ \A x \in live : env_asid[x] \in asid_bitmap
        /\ \A a \in asid_bitmap : \E x \in live : env_asid[x] = a
        /\ \A x, f \in live : env_asid[x] = env_asid[f] => x = f
    BY DEF IInv, AsidExact
  <2>3. env_asid' = env_asid /\ asid_bitmap' = asid_bitmap \ {env_asid[e]}
    BY <1>1
  <2> HIDE DEF live, new
  <2>4. /\ \A x \in new : env_asid'[x] \in asid_bitmap'
        /\ \A a \in asid_bitmap' : \E x \in new : env_asid'[x] = a
        /\ \A x, f \in new : env_asid'[x] = env_asid'[f] => x = f
    BY <2>1, <2>2, <2>3
  <2> QED BY <2>4 DEF AsidExact, new
<1>14. LiveFields'
  BY <1>1, <1>3 DEF IInv, LiveFields
<1> QED BY <1>7, <1>8, <1>9, <1>10, <1>11, <1>12, <1>13, <1>14 DEF IInv

-----------------------------------------------------------------------------
\* env_init establishes the invariant.
LEMMA InitIInv == Init => IInv
<1> SUFFICES ASSUME Init PROVE IInv
  OBVIOUS
<1> USE KernelAssumption
<1>0. NENV \in Nat /\ 0 \in Slot /\ 0 \in Asid /\ NoId \in EnvId
  BY DEF Slot, Asid, NoId, EnvId
<1>1. env_free_list \in Seq(Slot) /\ Len(env_free_list) = NENV
  <2>1. env_free_list \in [1 .. NENV -> Slot]
    BY <1>0 DEF Init, Slot
  <2> QED BY <1>0, <2>1, LenProperties DEF Init
<1>2. TypeOK
  <2>1. /\ env_status \in [Slot -> Status]
        /\ env_ipc_recving \in [Slot -> BOOLEAN]
        /\ waiting_return_value \in [Slot -> BOOLEAN]
    BY Zenon DEF Init, Status
  <2>2. /\ env_id \in [Slot -> EnvId]
        /\ env_parent_id \in [Slot -> EnvId]
        /\ env_ipc_from \in [Slot -> EnvId]
        /\ child \in [Slot -> EnvId]
    BY <1>0 DEF Init
  <2>3. /\ env_asid \in [Slot -> Asid]
        /\ env_pri \in [Slot -> Nat]
        /\ return_value \in [Slot -> Value]
    BY <1>0 DEF Init
  <2>4. /\ env_sched_list \in Seq(Slot)
        /\ asid_bitmap \subseteq Asid
        /\ envid_count \in 0 .. MaxAlloc
        /\ curenv \in Slot \cup {NoEnv}
        /\ count \in Int
    BY DEF Init
  <2>5. panicked \in BOOLEAN
    BY DEF Init
  <2> QED BY <1>1, <2>1, <2>2, <2>3, <2>4, <2>5 DEF TypeOK
<1>3. FreeListExact
  <2>1. {x \in Slot : env_status[x] = "FREE"} = Slot
    BY DEF Init
  <2>2. \A i \in 1 .. NENV : env_free_list[i] = i - 1
    BY DEF Init
  <2>3. ASSUME NEW x \in Slot
        PROVE  \E i \in 1 .. Len(env_free_list) : env_free_list[i] = x
    <3>1. x + 1 \in 1 .. NENV /\ (x + 1) - 1 = x
      BY <1>0 DEF Slot
    <3> QED BY <1>1, <2>2, <3>1
  <2>4. /\ \A i \in 1 .. Len(env_free_list) : env_free_list[i] \in Slot
        /\ \A i, j \in 1 .. Len(env_free_list) : env_free_list[i] = env_free_list[j] => i = j
    BY <1>0, <1>1, <2>2 DEF Slot
  <2> QED BY <2>1, <2>3, <2>4 DEF FreeListExact, Lists
<1>4. SchedIffRunnable
  <2>1. {x \in Slot : env_status[x] = "RUNNABLE"} = {}
    BY DEF Init
  <2>2. Len(env_sched_list) = 0
    BY DEF Init
  <2> QED BY <2>1, <2>2 DEF SchedIffRunnable, Lists
<1>5. WaitFlags /\ ChildFresh /\ LiveFields /\ CurenvRuns /\ PanicOnlyIfIdle
  BY DEF Init, WaitFlags, ChildFresh, LiveFields, CurenvRuns, PanicOnlyIfIdle, Running
<1>6. AsidExact
  BY DEF Init, AsidExact
<1> QED BY <1>2, <1>3, <1>4, <1>5, <1>6 DEF IInv

\* Every system call and every clock interrupt preserves the invariant.
LEMMA NextIInv == IInv /\ [Next]_vars => IInv'
<1> SUFFICES ASSUME IInv, [Next]_vars PROVE IInv'
  OBVIOUS
<1>1. CASE Timer
  BY <1>1, ScheduleStep DEF Timer, Running
<1>2. CASE sys_yield
  BY <1>2, ScheduleStep DEF sys_yield, Running
<1>3. CASE StartFirst
  BY <1>3, ScheduleStep DEF StartFirst
<1>4. CASE sys_ipc_recv
  BY <1>4, BlockStep DEF sys_ipc_recv
<1>5. CASE sys_recv_return_value
  BY <1>5, BlockStep DEF sys_recv_return_value
<1>6. ASSUME NEW e \in Slot, sys_exofork(e) PROVE IInv'
  BY <1>6, ExoforkStep
<1>7. ASSUME NEW e \in Slot, sys_set_env_status(e) PROVE IInv'
  BY <1>7, SetStatusStep
<1>8. ASSUME NEW e \in Slot, sys_env_destroy(e) PROVE IInv'
  BY <1>8, DestroyStep DEF sys_env_destroy
<1>9. ASSUME NEW e \in Slot, NEW p \in Priorities, env_create(e, p) PROVE IInv'
  BY <1>9, CreateStep
<1>10. ASSUME NEW id \in EnvId, sys_ipc_try_send(id) PROVE IInv'
  BY <1>10, SendStep
<1>11. ASSUME NEW id \in EnvId, NEW v \in Value, sys_send_return_value(id, v) PROVE IInv'
  BY <1>11, SendStep
<1>12. CASE UNCHANGED vars
  BY <1>12 DEF vars, idvars, ipcvars, schedvars, IInv, TypeOK, SchedIffRunnable,
     FreeListExact, WaitFlags, ChildFresh, AsidExact, LiveFields, CurenvRuns,
     PanicOnlyIfIdle, Running
<1> QED BY <1>1, <1>2, <1>3, <1>4, <1>5, <1>6, <1>7, <1>8, <1>9, <1>10, <1>11, <1>12
        DEF Next

\* IInv holds in every state the kernel reaches.
THEOREM KernelInvariant == Spec => []IInv
BY InitIInv, NextIInv, PTL DEF Spec

\* Every variable of the kernel keeps its type.
THEOREM KernelTypes == Spec => []TypeOK
<1>1. IInv => TypeOK
  BY DEF IInv
<1> QED BY <1>1, KernelInvariant, PTL

\* The claim of kern/env.c:15: an environment is in env_sched_list iff it is
\* RUNNABLE, and then exactly once.
THEOREM SchedListExact == Spec => []SchedIffRunnable
<1>1. IInv => SchedIffRunnable
  BY DEF IInv
<1> QED BY <1>1, KernelInvariant, PTL

\* No wait flag outlives the wait: a slot is never freed, reused or run with
\* env_ipc_recving or waiting_return_value still set, although env_alloc and
\* env_free clear neither.
THEOREM NoStaleWaitFlag == Spec => []WaitFlags
<1>1. IInv => WaitFlags
  BY DEF IInv
<1> QED BY <1>1, KernelInvariant, PTL

\* The scheduler only resumes a RUNNABLE environment, as env_run asserts, and
\* its slice counter never runs below zero.
THEOREM OnlyRunnableRuns == Spec => []CurenvRuns
<1>1. IInv => CurenvRuns
  BY DEF IInv
<1> QED BY <1>1, KernelInvariant, PTL

\* Live environments never share an ASID, and no ASID leaks.
THEOREM AsidsExact == Spec => []AsidExact
<1>1. IInv => AsidExact
  BY DEF IInv
<1> QED BY <1>1, KernelInvariant, PTL

-----------------------------------------------------------------------------
\* No step makes an id valid that was issued and is not valid, whoever
\* destroys whom.
LEMMA IssuedStaysDead ==
  ASSUME IInv, [Next]_vars \/ \E e \in Slot : env_destroy(e),
         NEW id \in EnvId, id[1] <= envid_count, Valid(id)'
  PROVE  Valid(id)
<1> DEFINE x == ENVX(id)
<1>0. x \in Slot /\ env_status'[x] # "FREE" /\ env_id'[x] = id /\ TypeOK
  BY DEF EnvId, ENVX, Valid, IInv
<1>a. SUFFICES env_status[x] # "FREE" /\ env_id[x] = id
  BY DEF Valid
<1>1. ASSUME NEW e \in Slot, NEW parent \in EnvId, env_alloc(e, parent),
             NEW s, env_status' = [env_status EXCEPT ![e] = s]
      PROVE  env_status[x] # "FREE" /\ env_id[x] = id
  <2>1. x # e
    <3> SUFFICES ASSUME x = e PROVE FALSE
      OBVIOUS
    <3>1. id = <<envid_count + 1, e>>
      BY <1>0, <1>1 DEF env_alloc, mkenvid, TypeOK
    <3>2. envid_count \in Nat /\ id[1] = envid_count + 1
      BY <1>0, <3>1, KernelAssumption DEF TypeOK
    <3> QED BY <3>2
  <2> QED BY <1>0, <1>1, <2>1 DEF env_alloc, TypeOK
<1>2. NoId \in EnvId /\ (Running => env_id[curenv] \in EnvId)
  <2>1. NoId \in EnvId
    BY KernelAssumption DEF NoId, EnvId, Slot
  <2>2. Running => env_id[curenv] \in EnvId
    BY <1>0 DEF TypeOK, Running
  <2> QED BY <2>1, <2>2
<1>3. ASSUME NEW e \in Slot, sys_exofork(e) PROVE env_status[x] # "FREE" /\ env_id[x] = id
  BY <1>1, <1>2, <1>3 DEF sys_exofork
<1>4. ASSUME NEW e \in Slot, NEW p \in Priorities, env_create(e, p)
      PROVE  env_status[x] # "FREE" /\ env_id[x] = id
  BY <1>1, <1>2, <1>4 DEF env_create
<1>5. ASSUME NEW e \in Slot, sys_set_env_status(e)
      PROVE  env_status[x] # "FREE" /\ env_id[x] = id
  <2>1. env_status[e] # "FREE"
    BY <1>5 DEF sys_set_env_status, Valid
  <2> QED BY <1>0, <1>5, <2>1 DEF sys_set_env_status, idvars, TypeOK
<1>6. ASSUME NEW e \in Slot, env_destroy(e)
      PROVE  env_status[x] # "FREE" /\ env_id[x] = id
  BY <1>0, <1>6 DEF env_destroy, TypeOK
<1>7. ASSUME Timer \/ sys_yield \/ StartFirst
      PROVE  env_status[x] # "FREE" /\ env_id[x] = id
  BY <1>0, <1>7 DEF Timer, sys_yield, StartFirst, idvars
<1>8. ASSUME sys_ipc_recv \/ sys_recv_return_value
      PROVE  env_status[x] # "FREE" /\ env_id[x] = id
  <2>1. curenv \in Slot /\ env_status[curenv] = "RUNNABLE"
    BY <1>0, <1>8 DEF sys_ipc_recv, sys_recv_return_value, Running, IInv, CurenvRuns, TypeOK
  <2> QED BY <1>0, <1>8, <2>1 DEF sys_ipc_recv, sys_recv_return_value, Block, idvars, TypeOK
<1>9. ASSUME NEW d \in EnvId,
             \/ sys_ipc_try_send(d)
             \/ \E v \in Value : sys_send_return_value(d, v)
      PROVE  env_status[x] # "FREE" /\ env_id[x] = id
  <2>1. env_status[ENVX(d)] # "FREE"
    BY <1>9 DEF sys_ipc_try_send, sys_send_return_value, Valid, Receiving
  <2> QED BY <1>0, <1>9, <2>1 DEF sys_ipc_try_send, sys_send_return_value, Wake, idvars, TypeOK
<1>10. CASE UNCHANGED vars
  BY <1>0, <1>10 DEF vars, idvars
<1> QED BY <1>3, <1>4, <1>5, <1>6, <1>7, <1>8, <1>9, <1>10 DEF Next, sys_env_destroy

\* An id that has died never becomes valid again: wait() cannot mistake the
\* next user of a slot for the process it waits for.
THEOREM DeadIdsStayDead == Spec => DeadStaysDead
<1>1. IInv /\ [Next]_vars =>
        [\A id \in EnvId : id[1] <= envid_count /\ ~Valid(id) => ~Valid(id)']_vars
  BY IssuedStaysDead
<1> QED BY <1>1, KernelInvariant, PTL DEF Spec, DeadStaysDead

\* schedule panics only when nothing is left to run.
THEOREM PanicsOnlyIdle == Spec => []PanicOnlyIfIdle
<1>1. IInv => PanicOnlyIfIdle
  BY DEF IInv
<1> QED BY <1>1, KernelInvariant, PTL

-----------------------------------------------------------------------------
\* A message or a return value is stored only in an environment that is
\* blocked, in the step that wakes it: what ipc_recv() and wait() read when
\* they run again is what was sent to them, however many others send.
THEOREM MessagesStable == Spec => MessageStable
<1> DEFINE A == \A e \in Slot :
       (env_ipc_from[e] # env_ipc_from'[e] \/ return_value[e] # return_value'[e])
       => env_status[e] = "NOT_RUNNABLE" /\ env_status'[e] = "RUNNABLE"
<1>1. IInv /\ [Next]_vars => [A]_vars
  <2> SUFFICES ASSUME IInv, Next, NEW e \in Slot,
                      env_ipc_from[e] # env_ipc_from'[e] \/ return_value[e] # return_value'[e]
               PROVE  env_status[e] = "NOT_RUNNABLE" /\ env_status'[e] = "RUNNABLE"
    OBVIOUS
  <2>0. TypeOK /\ WaitFlags
    BY DEF IInv
  <2>1. PICK id \in EnvId : \/ sys_ipc_try_send(id)
                            \/ \E v \in Value : sys_send_return_value(id, v)
    BY DEF Next, Timer, sys_yield, StartFirst, sys_ipc_recv, sys_recv_return_value,
           sys_exofork, sys_set_env_status, sys_env_destroy, env_destroy, env_create,
           ipcvars
  <2>2. /\ env_ipc_recving[ENVX(id)] \/ waiting_return_value[ENVX(id)]
        /\ env_ipc_from' = [env_ipc_from EXCEPT ![ENVX(id)] = env_id[curenv]]
        /\ \/ UNCHANGED return_value
           \/ \E v \in Value : return_value' = [return_value EXCEPT ![ENVX(id)] = v]
        /\ env_status' = [env_status EXCEPT ![ENVX(id)] = "RUNNABLE"]
    BY <2>1 DEF sys_ipc_try_send, sys_send_return_value, Receiving, Wake
  <2>3. ENVX(id) = e
    BY <2>0, <2>2 DEF TypeOK
  <2> QED BY <2>0, <2>2, <2>3 DEF TypeOK, WaitFlags
<1> QED BY <1>1, KernelInvariant, PTL DEF Spec, MessageStable

-----------------------------------------------------------------------------
\* Unlinking an element keeps the order of the others.
LEMMA RemoveKeepsOrder ==
  ASSUME NEW T, NEW s \in Seq(T), NEW S, Lists(s, S), NEW e \in S,
         NEW a, NEW b, a # e, b # e, Before(s, a, b)
  PROVE  Before(TAILQ_REMOVE(s, e), a, b)
<1> DEFINE p == Position(s, e)
           r == RemoveAt(s, p)
<1>0. Len(s) \in Nat
  BY LenProperties
<1>1. p \in 1 .. Len(s) /\ s[p] = e
  BY DEF Position, Lists
<1> HIDE DEF p
<1>2. /\ Len(r) = Len(s) - 1
      /\ \A j \in 1 .. Len(s) - 1 : r[j] = IF j < p THEN s[j] ELSE s[j+1]
  BY <1>1, RemoveAtProperties
<1>3. TAILQ_REMOVE(s, e) = r
  BY DEF TAILQ_REMOVE, p
<1> HIDE DEF r
<1>4. PICK i \in 1 .. Len(s), j \in 1 .. Len(s) : i < j /\ s[i] = a /\ s[j] = b
  BY DEF Before
<1>5. i # p /\ j # p
  BY <1>1, <1>4
<1>6. ASSUME NEW k \in 1 .. Len(s), k # p
      PROVE  LET m == IF k < p THEN k ELSE k - 1
             IN  m \in 1 .. Len(r) /\ r[m] = s[k]
  <2>1. CASE k < p
    BY <2>1, <1>0, <1>1, <1>2
  <2>2. CASE k > p
    <3>1. k - 1 \in 1 .. Len(s) - 1 /\ ~(k - 1 < p) /\ (k - 1) + 1 = k
      BY <2>2, <1>0, <1>1
    <3>2. r[k - 1] = s[(k - 1) + 1]
      BY <3>1, <1>2
    <3> QED BY <2>2, <3>1, <3>2, <1>0, <1>1, <1>2
  <2> QED BY <2>1, <2>2, <1>6, <1>0, <1>1
<1> DEFINE i2 == IF i < p THEN i ELSE i - 1
           j2 == IF j < p THEN j ELSE j - 1
<1>7. i2 < j2
  BY <1>0, <1>1, <1>4, <1>5
<1>8. /\ i2 \in 1 .. Len(r) /\ r[i2] = a
      /\ j2 \in 1 .. Len(r) /\ r[j2] = b
  BY <1>4, <1>5, <1>6
<1> QED BY <1>3, <1>7, <1>8 DEF Before

\* Linking an element at the tail keeps the order of the others, and puts it
\* behind all of them.
LEMMA InsertTailKeepsOrder ==
  ASSUME NEW T, NEW s \in Seq(T), NEW e \in T, NEW a, NEW b,
         \/ Before(s, a, b)
         \/ b = e /\ \E i \in 1 .. Len(s) : s[i] = a
  PROVE  Before(TAILQ_INSERT_TAIL(s, e), a, b)
<1> DEFINE r == Append(s, e)
<1>0. Len(s) \in Nat
  BY LenProperties
<1>1. /\ Len(r) = Len(s) + 1
      /\ \A i \in 1 .. Len(s) : r[i] = s[i]
      /\ r[Len(s) + 1] = e
  BY AppendProperties
<1>2. TAILQ_INSERT_TAIL(s, e) = r
  BY DEF TAILQ_INSERT_TAIL
<1> HIDE DEF r
<1>3. CASE Before(s, a, b)
  BY <1>0, <1>1, <1>2, <1>3 DEF Before
<1>4. CASE b = e /\ \E i \in 1 .. Len(s) : s[i] = a
  BY <1>0, <1>1, <1>2, <1>4 DEF Before
<1> QED BY <1>3, <1>4

\* Rotating e to the tail lets nobody but e fall back.
LEMMA RotateKeepsOrder ==
  ASSUME NEW T, NEW s \in Seq(T), NEW S, Lists(s, S), NEW e \in S, e \in T,
         NEW a, NEW b, a # e, Before(s, a, b)
  PROVE  Before(TAILQ_INSERT_TAIL(TAILQ_REMOVE(s, e), e), a, b)
<1>1. TAILQ_REMOVE(s, e) \in Seq(T) /\ Lists(TAILQ_REMOVE(s, e), S \ {e})
  BY RemoveLists
<1>2. CASE b # e
  BY <1>1, <1>2, RemoveKeepsOrder, InsertTailKeepsOrder
<1>3. CASE b = e
  <2>1. a \in S \ {e}
    BY DEF Before, Lists
  <2>2. \E i \in 1 .. Len(TAILQ_REMOVE(s, e)) : TAILQ_REMOVE(s, e)[i] = a
    BY <1>1, <2>1 DEF Lists
  <2> QED BY <1>1, <1>3, <2>2, InsertTailKeepsOrder
<1> QED BY <1>2, <1>3

\* Linking an element at the head keeps the order of the others.
LEMMA InsertHeadKeepsOrder ==
  ASSUME NEW T, NEW s \in Seq(T), NEW e \in T, NEW a, NEW b, Before(s, a, b)
  PROVE  Before(TAILQ_INSERT_HEAD(s, e), a, b)
<1> DEFINE r == <<e>> \o s
<1>0. Len(s) \in Nat
  BY LenProperties
<1>1. <<e>> \in Seq(T) /\ Len(<<e>>) = 1
  OBVIOUS
<1>2. /\ Len(r) = Len(<<e>>) + Len(s)
      /\ \A i \in 1 .. Len(<<e>>) + Len(s) :
           r[i] = IF i <= Len(<<e>>) THEN <<e>>[i] ELSE s[i - Len(<<e>>)]
  BY <1>1, ConcatProperties
<1>3. TAILQ_INSERT_HEAD(s, e) = r
  BY DEF TAILQ_INSERT_HEAD
<1> HIDE DEF r
<1>4. PICK i \in 1 .. Len(s), j \in 1 .. Len(s) : i < j /\ s[i] = a /\ s[j] = b
  BY DEF Before
<1>5. i + 1 \in 1 .. Len(r) /\ j + 1 \in 1 .. Len(r) /\ i + 1 < j + 1
  BY <1>0, <1>1, <1>2, <1>4
<1>6. r[i + 1] = s[i] /\ r[j + 1] = s[j]
  BY <1>0, <1>1, <1>2, <1>4, <1>5
<1> QED BY <1>3, <1>4, <1>5, <1>6 DEF Before

\* Round robin: whatever the kernel does, a waiting environment stays in front
\* of those it is in front of.
THEOREM RoundRobin == Spec => NoOvertaking
<1> DEFINE A == \A a, b \in Slot :
       /\ a # curenv
       /\ Before(env_sched_list, a, b)
       /\ a \in ToSet(env_sched_list') /\ b \in ToSet(env_sched_list')
       => Before(env_sched_list, a, b)'
<1>1. IInv /\ [Next]_vars => [A]_vars
  <2> SUFFICES ASSUME IInv, Next, NEW a \in Slot, NEW b \in Slot,
                      a # curenv,
                      Before(env_sched_list, a, b),
                      a \in ToSet(env_sched_list'), b \in ToSet(env_sched_list')
               PROVE  Before(env_sched_list', a, b)
    BY DEF Before
  <2> DEFINE R == Runnables(env_status)
             q == env_sched_list
  <2>0. /\ TypeOK /\ q \in Seq(Slot) /\ Lists(q, R)
        /\ env_status \in [Slot -> Status]
        /\ Running => curenv \in Slot /\ curenv \in R
    BY DEF IInv, TypeOK, SchedIffRunnable, Runnables, CurenvRuns, Running
  <2>1. ASSUME Timer \/ sys_yield PROVE Before(env_sched_list', a, b)
    <3>1. /\ Running
          /\ env_sched_list' \in {q, TAILQ_INSERT_TAIL(TAILQ_REMOVE(q, curenv), curenv)}
      BY <2>1 DEF Timer, sys_yield, schedule, Rotated
    <3> QED BY <2>0, <3>1, RotateKeepsOrder
  <2>2. ASSUME StartFirst PROVE Before(env_sched_list', a, b)
    BY <2>2 DEF StartFirst, schedule, Rotated
  <2>3. ASSUME sys_ipc_recv \/ sys_recv_return_value PROVE Before(env_sched_list', a, b)
    <3>1. /\ Running /\ Block
      BY <2>3 DEF sys_ipc_recv, sys_recv_return_value
    <3>2. env_sched_list' = TAILQ_REMOVE(q, curenv)
      BY <2>0, <3>1 DEF Block, schedule, Rotated
    <3>3. b # curenv
      <4>1. TAILQ_REMOVE(q, curenv) \in Seq(Slot) /\ Lists(TAILQ_REMOVE(q, curenv), R \ {curenv})
        BY <2>0, <3>1, RemoveLists
      <4> QED BY <4>1, <3>2 DEF ToSet, Lists
    <3> QED BY <2>0, <3>1, <3>2, <3>3, RemoveKeepsOrder
  <2>4. ASSUME NEW e \in Slot, sys_exofork(e) PROVE Before(env_sched_list', a, b)
    BY <2>4 DEF sys_exofork, schedvars
  <2>5. ASSUME NEW e \in Slot, sys_set_env_status(e) PROVE Before(env_sched_list', a, b)
    BY <2>0, <2>5, InsertTailKeepsOrder DEF sys_set_env_status
  <2>6. ASSUME NEW e \in Slot, sys_env_destroy(e) PROVE Before(env_sched_list', a, b)
    <3>1. e \in R /\ env_sched_list' = TAILQ_REMOVE(q, e)
      BY <2>6 DEF sys_env_destroy, env_destroy, schedule, Rotated, Runnables
    <3>2. TAILQ_REMOVE(q, e) \in Seq(Slot) /\ Lists(TAILQ_REMOVE(q, e), R \ {e})
      BY <2>0, <3>1, RemoveLists
    <3>3. a # e /\ b # e
      BY <3>1, <3>2 DEF ToSet, Lists
    <3> QED BY <2>0, <3>1, <3>3, RemoveKeepsOrder
  <2>7. ASSUME NEW e \in Slot, NEW p \in Priorities, env_create(e, p)
        PROVE  Before(env_sched_list', a, b)
    BY <2>0, <2>7, InsertHeadKeepsOrder DEF env_create
  <2>8. ASSUME NEW id \in EnvId,
               \/ sys_ipc_try_send(id)
               \/ \E v \in Value : sys_send_return_value(id, v)
        PROVE  Before(env_sched_list', a, b)
    <3>1. ENVX(id) \in Slot /\ Wake(ENVX(id))
      BY <2>8 DEF EnvId, ENVX, sys_ipc_try_send, sys_send_return_value
    <3> QED BY <2>0, <3>1, InsertTailKeepsOrder DEF Wake
  <2> QED BY <2>1, <2>2, <2>3, <2>4, <2>5, <2>6, <2>7, <2>8 DEF Next
<1> QED BY <1>1, KernelInvariant, PTL DEF Spec, NoOvertaking
=============================================================================
