----------------------------- MODULE ShellProofs -----------------------------
(***************************************************************************)
(* Proofs about Shell, for any number of slots.  There are three parts,    *)
(* each with an invariant that contains the one before: SInv (Done jobs    *)
(* have ended, any sessions), WInv (nobody wakes a subshell early) and     *)
(* MInv (commands run as the line says), the last two for the sessions     *)
(* that the hypotheses RegularSessions and PlainSessions describe.         *)
(*                                                                         *)
(* A job is Done either because its process said so in its last steps or   *)
(* because kill found something RUNNABLE in the slot of its id.  That the  *)
(* id is not in use afterwards needs: the ids in the table were issued, so *)
(* that no new process gets one (IdsIssued); a process on its way out can  *)
(* run, so that it is not the child that some fork is building, whose      *)
(* program counter the end of fork sets (LeavingCanRun); and the invariant *)
(* of the kernel, which the steps of the shell keep although kill destroys *)
(* processes that are no children of its caller.                           *)
(***************************************************************************)
EXTENDS Shell, KernelEnvProofs

Issued(id) == id \in EnvId /\ id[1] <= envid_count

\* The locals of a process as far as the job table depends on them.
GoodLocals(l) ==
  /\ DOMAIN l = DOMAIN NoLocals
  /\ Issued(l.kid) /\ Issued(l.rightpipe)
  /\ l.value \in {-1, 0, 1}

Locals ==
  /\ DOMAIN pc = Slot /\ DOMAIN loc = Slot
  /\ \A e \in Slot : GoodLocals(loc[e])

Job == [envid : EnvId, job_status : {0, 1}]

IdsIssued ==
  /\ jobs \in Seq(Job)
  /\ \A i \in DOMAIN jobs : Issued(jobs[i].envid)

\* A process that is about to destroy itself is runnable.
LeavingCanRun == \A e \in Slot : pc[e] = "exit" => env_status[e] = "RUNNABLE"

\* The inductive invariant.
SInv == IInv /\ Locals /\ IdsIssued /\ LeavingCanRun /\ DoneMeansEnded

-----------------------------------------------------------------------------
\* A step of the kernel, or the destruction of a process by anyone.
KernelStep ==
  \/ [Next]_vars
  \/ \E e \in Slot : Running /\ env_status[e] = "RUNNABLE" /\ env_destroy(e)

LEMMA KernelKept ==
  ASSUME IInv, KernelStep
  PROVE  IInv' /\ envid_count <= envid_count'
<1>1. IInv'
  BY NextIInv, DestroyStep DEF KernelStep
<1>2. envid_count \in Int
  BY KernelAssumption DEF IInv, TypeOK
<1>3. envid_count' = envid_count \/ envid_count' = envid_count + 1
  BY DEF KernelStep, Next, Timer, sys_yield, StartFirst, sys_ipc_recv,
         sys_recv_return_value, sys_exofork, sys_set_env_status, sys_env_destroy,
         env_destroy, env_create, env_alloc, sys_ipc_try_send,
         sys_send_return_value, vars, idvars
<1> QED BY <1>1, <1>2, <1>3

\* A slot on its way out stays on its way out unless it is destroyed.
Leaves ==
  \A e \in Slot : pc[e] = "exit" /\ env_status'[e] # "FREE" => pc'[e] = "exit"

\* The jobs that are Done after a step were Done before, or have ended.
DoneFairly ==
  \A i \in DOMAIN jobs' :
    jobs'[i].job_status = 0 =>
      \/ i \in DOMAIN jobs /\ jobs[i] = jobs'[i]
      \/ ~Valid(jobs[i].envid)'
      \/ pc'[ENVX(jobs'[i].envid)] = "exit"

\* What is left to show of a step of the shell.
LEMMA StepKeeps ==
  ASSUME SInv, KernelStep, Locals', IdsIssued', LeavingCanRun', Leaves, DoneFairly
  PROVE  SInv'
<1>1. IInv'
  BY KernelKept DEF SInv
<1>2. ASSUME NEW i \in DOMAIN jobs', jobs'[i].job_status = 0, Valid(jobs[i].envid)'
      PROVE  pc'[ENVX(jobs'[i].envid)] = "exit"
  <2>1. PICK id : id = jobs'[i].envid
    OBVIOUS
  <2>2. CASE i \in DOMAIN jobs /\ jobs[i] = jobs'[i]
    <3>1. jobs[i].job_status = 0 /\ jobs[i].envid = id
      BY <1>2, <2>1, <2>2
    <3>2. Issued(id)
      BY <2>2, <3>1 DEF SInv, IdsIssued
    <3>3. id \in EnvId /\ id[1] <= envid_count
      BY <3>2 DEF Issued
    <3>4. Valid(id)'
      BY <1>2, <2>1 DEF Valid
    <3>5. Valid(id)
      BY <3>3, <3>4, IssuedStaysDead DEF SInv, KernelStep
    <3>6. pc[ENVX(id)] = "exit"
      BY <2>2, <3>1, <3>5 DEF SInv, DoneMeansEnded
    <3>7. ENVX(id) \in Slot /\ env_status'[ENVX(id)] # "FREE"
      BY <3>3, <3>4 DEF EnvId, ENVX, Valid
    <3> QED BY <2>1, <3>6, <3>7 DEF Leaves
  <2> QED BY <1>2, <2>2 DEF DoneFairly
<1>3. DoneMeansEnded'
  BY <1>2 DEF DoneMeansEnded
<1> QED BY <1>1, <1>3 DEF SInv

\* Ids that were issued stay issued.
LEMMA GoodLocalsStay ==
  ASSUME SInv, KernelStep, NEW l, GoodLocals(l)
  PROVE  GoodLocals(l)'
<1>1. envid_count \in Int /\ envid_count' \in Int /\ envid_count <= envid_count'
  BY KernelKept, KernelAssumption DEF SInv, IInv, TypeOK
<1>2. \A id : Issued(id) => Issued(id)'
  BY <1>1 DEF Issued, EnvId
<1> QED BY <1>2 DEF GoodLocals

\* No process has the id NoId, but it counts as issued.
LEMMA NoIdIssued ==
  ASSUME SInv
  PROVE  Issued(NoId)
<1>1. envid_count \in 0 .. MaxAlloc
  BY DEF SInv, IInv, TypeOK
<1>2. NoId \in EnvId /\ NoId[1] = 0
  BY KernelAssumption DEF NoId, EnvId, Slot
<1> QED BY <1>1, <1>2, KernelAssumption DEF Issued

-----------------------------------------------------------------------------
\* The processes' own variables: what a step must do to them.
LEMMA LocalsKept ==
  ASSUME SInv, KernelStep, DOMAIN pc' = Slot, DOMAIN loc' = Slot,
         \A e \in Slot : \E l : loc'[e] = l /\ GoodLocals(l)
  PROVE  Locals'
<1>1. ASSUME NEW e \in Slot PROVE GoodLocals(loc[e])'
  <2>1. PICK l : loc'[e] = l /\ GoodLocals(l)
    OBVIOUS
  <2>2. GoodLocals(l)'
    BY <2>1, GoodLocalsStay
  <2> QED BY <2>1, <2>2 DEF GoodLocals
<1> QED BY <1>1 DEF Locals

LEMMA TableKept ==
  ASSUME SInv, KernelStep, jobs' = jobs
  PROVE  IdsIssued' /\ DoneFairly
<1>1. envid_count \in Int /\ envid_count' \in Int /\ envid_count <= envid_count'
  BY KernelKept, KernelAssumption DEF SInv, IInv, TypeOK
<1>2. IdsIssued'
  BY <1>1 DEF SInv, IdsIssued, Issued, EnvId, Job
<1>3. DoneFairly
  BY DEF DoneFairly
<1> QED BY <1>2, <1>3

\* What is known of the process that takes a step.
LEMMA Mover ==
  ASSUME SInv, NEW p, At(p)
  PROVE  /\ curenv \in Slot /\ env_status[curenv] = "RUNNABLE" /\ pc[curenv] = p
         /\ env_id[curenv] \in EnvId /\ ENVX(env_id[curenv]) = curenv
         /\ L = loc[curenv] /\ GoodLocals(L)
         /\ child[curenv] \in EnvId /\ env_parent_id[curenv] \in EnvId
         /\ return_value[curenv] \in Value
<1>1. Running /\ pc[curenv] = p /\ curenv \in Slot
  BY DEF At, Running, SInv, IInv, TypeOK
<1>2. env_status[curenv] = "RUNNABLE"
  BY <1>1 DEF SInv, IInv, CurenvRuns
<1>3. env_id[curenv][2] = curenv
  BY <1>1, <1>2 DEF SInv, IInv, LiveFields
<1>4. GoodLocals(L)
  BY <1>1 DEF SInv, Locals, L
<1> QED BY <1>1, <1>2, <1>3, <1>4 DEF SInv, IInv, TypeOK, L, ENVX

\* A step of one process that is no system call.
LEMMA LocalStep ==
  ASSUME SInv, NEW p, At(p), p # "exit", UNCHANGED <<vars, jobs>>,
         NEW q, pc' = pc \/ Goto(q),
         NEW l, GoodLocals(l), loc' = loc \/ loc' = [loc EXCEPT ![curenv] = l]
  PROVE  SInv'
<1>1. /\ curenv \in Slot /\ env_status[curenv] = "RUNNABLE" /\ pc[curenv] = p
      /\ DOMAIN pc = Slot /\ DOMAIN loc = Slot
  BY Mover DEF SInv, Locals
<1>2. KernelStep /\ env_status' = env_status
  BY DEF KernelStep, vars
<1>3. \A e \in Slot : \E m : loc'[e] = m /\ GoodLocals(m)
  BY <1>1 DEF SInv, Locals
<1>4. Locals'
  BY <1>1, <1>2, <1>3, LocalsKept DEF Goto
<1>5. IdsIssued' /\ DoneFairly
  BY <1>2, TableKept
<1>6. Leaves /\ LeavingCanRun'
  BY <1>1, <1>2 DEF SInv, LeavingCanRun, Leaves, Goto
<1> QED BY <1>2, <1>4, <1>5, <1>6, StepKeeps

\* The steps that parse, decide and record.
LEMMA ParseSteps ==
  ASSUME SInv, ParseWord \/ ParseEnd \/ ParseOperator \/ Condition
  PROVE  SInv'
<1>1. PICK p \in {"parse", "cond"} : At(p)
  BY DEF ParseWord, ParseEnd, ParseOperator, Condition
<1>2. GoodLocals(L) /\ curenv \in Slot /\ L = loc[curenv] /\ DOMAIN loc = Slot
  BY <1>1, Mover DEF SInv, Locals
<1>3. /\ UNCHANGED <<vars, jobs>>
      /\ \E q : pc' = pc \/ Goto(q)
      /\ \E l : GoodLocals(l) /\ (loc' = loc \/ loc' = [loc EXCEPT ![curenv] = l])
  <2>1. CASE ParseWord
    BY <1>2, <2>1 DEF ParseWord, GoodLocals, NoLocals
  <2>2. CASE ParseEnd
    <3> DEFINE l == [L EXCEPT !.argc = IF L.mark THEN @ ELSE 0, !.flag = FALSE]
    <3>1. GoodLocals(l)
      BY <1>2 DEF GoodLocals, NoLocals
    <3>2. loc' = [loc EXCEPT ![curenv] = l]
      BY <1>2, <2>2 DEF ParseEnd, GoodLocals, NoLocals
    <3>3. UNCHANGED <<vars, jobs>> /\ Goto("run")
      BY <2>2 DEF ParseEnd
    <3> QED BY <3>1, <3>2, <3>3
  <2>3. CASE ParseOperator
    BY <1>2, <2>3 DEF ParseOperator, GoodLocals, NoLocals
  <2>4. CASE Condition
    BY <1>2, <2>4 DEF Condition, Fresh, GoodLocals, NoLocals
  <2> QED BY <2>1, <2>2, <2>3, <2>4
<1> QED BY <1>1, <1>3, LocalStep

LEMMA CommandSteps ==
  ASSUME SInv,
         \/ RunSpawn \/ AfterCommand
         \/ \E s \in Sessions : Prompt(s)
         \/ \E v \in {-1, 0, 1} : MainReturns(v)
  PROVE  SInv'
<1>1. PICK p \in {"run", "after", "prompt", "main"} : At(p)
  BY DEF RunSpawn, AfterCommand, Prompt, MainReturns
<1>2. GoodLocals(L) /\ curenv \in Slot /\ L = loc[curenv] /\ DOMAIN loc = Slot
  BY <1>1, Mover DEF SInv, Locals
<1>3. Issued(NoId)
  BY NoIdIssued
<1>4. /\ UNCHANGED <<vars, jobs>>
      /\ \E q : pc' = pc \/ Goto(q)
      /\ \E l : GoodLocals(l) /\ (loc' = loc \/ loc' = [loc EXCEPT ![curenv] = l])
  <2>1. CASE RunSpawn
    <3> DEFINE l == [L EXCEPT !.op = "spawn"]
    <3>1. GoodLocals(l)
      BY <1>2 DEF GoodLocals, NoLocals
    <3>2. loc' = [loc EXCEPT ![curenv].op = "spawn"] => loc' = [loc EXCEPT ![curenv] = l]
      BY <1>2
    <3>3. loc' = [loc EXCEPT ![curenv] = l] \/ loc' = loc
      BY <2>1, <3>2 DEF RunSpawn
    <3>4. UNCHANGED <<vars, jobs>> /\ \E q : Goto(q)
      BY <2>1 DEF RunSpawn
    <3> QED BY <1>2, <3>1, <3>3, <3>4
  <2>2. CASE AfterCommand
    <3> DEFINE l == [L EXCEPT !.kid = L.rightpipe, !.op = "rightpipe"]
    <3>1. GoodLocals(l)
      BY <1>2 DEF GoodLocals, NoLocals
    <3>2. loc' = [loc EXCEPT ![curenv].kid = L.rightpipe, ![curenv].op = "rightpipe"]
            => loc' = [loc EXCEPT ![curenv] = l]
      BY <1>2
    <3>3. loc' = [loc EXCEPT ![curenv] = l] \/ loc' = loc
      BY <2>2, <3>2 DEF AfterCommand
    <3>4. UNCHANGED <<vars, jobs>> /\ \E q : Goto(q)
      BY <2>2 DEF AfterCommand
    <3> QED BY <1>2, <3>1, <3>3, <3>4
  <2>3. ASSUME NEW s \in Sessions, Prompt(s)
        PROVE  /\ UNCHANGED <<vars, jobs>>
               /\ Goto("fork")
               /\ \E l : GoodLocals(l) /\ (loc' = loc \/ loc' = [loc EXCEPT ![curenv] = l])
    <3> DEFINE l == [NoLocals EXCEPT !.n = L.n + 1, !.line = s[L.n + 1], !.op = "line"]
    <3>1. GoodLocals(l)
      BY <1>3 DEF GoodLocals, NoLocals
    <3>2. loc' = [loc EXCEPT ![curenv] = l] /\ UNCHANGED <<vars, jobs>> /\ Goto("fork")
      BY <2>3 DEF Prompt
    <3> QED BY <3>1, <3>2
  <2>4. ASSUME NEW v \in {-1, 0, 1}, MainReturns(v)
        PROVE  /\ UNCHANGED <<vars, jobs>>
               /\ Goto("return")
               /\ \E l : GoodLocals(l) /\ (loc' = loc \/ loc' = [loc EXCEPT ![curenv] = l])
    <3> DEFINE l == [L EXCEPT !.value = v]
    <3>1. GoodLocals(l)
      BY <1>2 DEF GoodLocals, NoLocals
    <3>2. loc' = [loc EXCEPT ![curenv].value = v] /\ UNCHANGED <<vars, jobs>> /\ Goto("return")
      BY <2>4 DEF MainReturns
    <3>3. loc' = [loc EXCEPT ![curenv] = l]
      BY <1>2, <3>2
    <3> QED BY <3>1, <3>2, <3>3
  <2> QED BY <2>1, <2>2, <2>3, <2>4
<1> QED BY <1>1, <1>4, LocalStep

-----------------------------------------------------------------------------
\* A step of the kernel that destroys nobody, with at most a new program
\* counter for the process that runs.
LEMMA KernelOnly ==
  ASSUME SInv, [Next]_vars, UNCHANGED <<loc, jobs>>,
         \A e \in Slot : env_status[e] = "RUNNABLE" /\ pc'[e] = "exit"
                           => env_status'[e] = "RUNNABLE",
         \/ pc' = pc
         \/ \E p, q : At(p) /\ p # "exit" /\ Goto(q)
  PROVE  SInv'
<1>1. KernelStep
  BY DEF KernelStep
<1>2. Locals'
  BY <1>1, LocalsKept DEF SInv, Locals, Goto
<1>3. IdsIssued' /\ DoneFairly
  BY <1>1, TableKept
<1>4. Leaves
  BY DEF SInv, Locals, Leaves, Goto, At
<1>5. ASSUME NEW e \in Slot, pc'[e] = "exit" PROVE env_status'[e] = "RUNNABLE"
  <2>1. CASE pc[e] = "exit"
    BY <1>5, <2>1 DEF SInv, LeavingCanRun
  <2>2. CASE pc[e] # "exit"
    <3>1. PICK p, q : At(p) /\ Goto(q)
      BY <1>5, <2>2
    <3>2. e = curenv
      BY <1>5, <2>2, <3>1 DEF Goto, SInv, Locals
    <3>3. env_status[e] = "RUNNABLE"
      BY <3>1, <3>2, Mover
    <3> QED BY <1>5, <3>3
  <2> QED BY <2>1, <2>2
<1>6. LeavingCanRun'
  BY <1>5 DEF LeavingCanRun
<1> QED BY <1>1, <1>2, <1>3, <1>4, <1>6, StepKeeps

LEMMA BootSteps ==
  ASSUME SInv, BootShell \/ Clock
  PROVE  SInv'
<1>1. UNCHANGED <<loc, jobs>> /\ pc' = pc
  BY DEF BootShell, Clock, shellvars
<1>2. [Next]_vars
  <2>1. 0 \in Slot
    BY KernelAssumption DEF Slot
  <2>2. 1 \in Priorities
    BY ShellAssumption
  <2> QED BY <2>1, <2>2 DEF BootShell, Clock, Next
<1>3. ASSUME NEW e \in Slot, env_status[e] = "RUNNABLE" PROVE env_status'[e] = "RUNNABLE"
  BY <1>3 DEF BootShell, Clock, Timer, StartFirst, env_create, SInv, IInv, TypeOK
<1> QED BY <1>1, <1>2, <1>3, KernelOnly

\* The blocking receives, and one turn of wait().
LEMMA WaitSteps ==
  ASSUME SInv, Wait \/ RecvCondition \/ RecvResult
  PROVE  SInv'
<1>1. CASE RecvCondition \/ RecvResult
  <2>1. PICK p \in {"recvcond", "recv", "spawned"} : At(p)
    BY <1>1 DEF RecvCondition, RecvResult
  <2>2. PICK q \in {"cond", "forward", "after"} : Goto(q)
    BY <1>1 DEF RecvCondition, RecvResult
  <2>3. sys_recv_return_value /\ UNCHANGED <<loc, jobs>>
    BY <1>1 DEF RecvCondition, RecvResult
  <2>4. [Next]_vars
    BY <2>3 DEF Next
  <2>5. ASSUME NEW e \in Slot, env_status[e] = "RUNNABLE", pc'[e] = "exit"
        PROVE  env_status'[e] = "RUNNABLE"
    <3>1. e # curenv
      BY <2>1, <2>2, <2>5 DEF Goto, SInv, Locals
    <3> QED BY <2>3, <2>5, <3>1 DEF sys_recv_return_value, Block, SInv, IInv, TypeOK
  <2> QED BY <2>1, <2>2, <2>3, <2>4, <2>5, KernelOnly
<1>2. CASE At("wait") /\ sys_yield /\ UNCHANGED shellvars
  <2>1. [Next]_vars /\ env_status' = env_status
    BY <1>2 DEF Next, sys_yield
  <2> QED BY <1>2, <2>1, KernelOnly DEF shellvars
<1>3. CASE ~(sys_yield /\ UNCHANGED shellvars) /\ Wait
  <2>1. At("wait") /\ GoodLocals(L) /\ UNCHANGED <<vars, jobs>> /\ \E q : Goto(q)
    BY <1>3, Mover DEF Wait
  <2>2. GoodLocals(Fresh)
    BY <2>1 DEF GoodLocals, Fresh, NoLocals
  <2>3. \E l : GoodLocals(l) /\ loc' = [loc EXCEPT ![curenv] = l]
    BY <1>3, <2>1, <2>2 DEF Wait
  <2> QED BY <2>1, <2>3, LocalStep
<1> QED BY <1>1, <1>2, <1>3 DEF Wait

\* sys_exofork, and the end of fork and spawn.  The child is not runnable,
\* so it is not on its way out, and its id has been issued.
LEMMA ForkSteps ==
  ASSUME SInv, NEW e \in Slot, Exofork(e) \/ StartChild(e)
  PROVE  SInv'
<1>1. CASE Exofork(e)
  <2>1. sys_exofork(e) /\ UNCHANGED <<loc, jobs>> /\ At("fork") /\ Goto("start")
    BY <1>1 DEF Exofork
  <2>2. [Next]_vars
    BY <2>1 DEF Next
  <2>3. env_status[e] = "FREE" /\ env_status' = [env_status EXCEPT ![e] = "NOT_RUNNABLE"]
    <3>1. env_free_list # <<>> /\ e = Head(env_free_list)
      BY <2>1 DEF sys_exofork, env_alloc, LIST_FIRST
    <3>2. /\ env_free_list \in Seq(Slot)
          /\ Lists(env_free_list, {x \in Slot : env_status[x] = "FREE"})
      BY DEF SInv, IInv, TypeOK, FreeListExact
    <3>3. e \in {x \in Slot : env_status[x] = "FREE"}
      BY <3>1, <3>2, TailLists
    <3> QED BY <2>1, <3>3 DEF sys_exofork
  <2>4. \A x \in Slot : env_status[x] = "RUNNABLE" => env_status'[x] = "RUNNABLE"
    BY <2>3 DEF SInv, IInv, TypeOK
  <2> QED BY <2>1, <2>2, <2>4, KernelOnly
<1>2. CASE StartChild(e)
  <2>1. /\ sys_set_env_status(e) /\ jobs' = jobs /\ At("start")
        /\ pc' = [pc EXCEPT ![e] = ChildPc, ![curenv] = ParentPc]
        /\ loc' = [loc EXCEPT ![e] = ChildLocals,
                              ![curenv] = ParentLocals(child[curenv])]
    BY <1>2 DEF StartChild
  <2>2. /\ curenv \in Slot /\ pc[curenv] = "start" /\ env_status[curenv] = "RUNNABLE"
        /\ GoodLocals(L) /\ child[curenv] \in EnvId
    BY <2>1, Mover
  <2>3. /\ child[curenv] # NoId /\ e = ENVX(child[curenv])
        /\ env_status' = [env_status EXCEPT ![e] = "RUNNABLE"]
    BY <2>1 DEF sys_set_env_status
  <2>4. env_status[e] = "NOT_RUNNABLE" /\ env_id[e] = child[curenv]
    BY <2>2, <2>3 DEF SInv, IInv, ChildFresh
  <2>5. Issued(child[curenv]) /\ Issued(NoId)
    <3>1. env_id[e][1] \in 1 .. envid_count
      BY <2>4 DEF SInv, IInv, LiveFields
    <3>2. child[curenv] \in EnvId /\ child[curenv][1] <= envid_count
      BY <2>2, <2>4, <3>1
    <3> QED BY <3>2, NoIdIssued DEF Issued
  <2>6. GoodLocals(ChildLocals)
    <3>1. GoodLocals([L EXCEPT !.argc = IF L.mark THEN @ ELSE 0])
      BY <2>2 DEF GoodLocals, NoLocals
    <3>2. GoodLocals([Fresh EXCEPT !.rightpipe = NoId])
      BY <2>2, <2>5 DEF GoodLocals, NoLocals, Fresh
    <3> QED BY <2>2, <3>1, <3>2 DEF ChildLocals
  <2>7. GoodLocals(ParentLocals(child[curenv]))
    <3>1. GoodLocals([L EXCEPT !.rightpipe = child[curenv]])
      BY <2>2, <2>5 DEF GoodLocals, NoLocals
    <3>2. GoodLocals([L EXCEPT !.kid = child[curenv]])
      BY <2>2, <2>5 DEF GoodLocals, NoLocals
    <3>3. GoodLocals(Fresh)
      BY <2>2 DEF GoodLocals, NoLocals, Fresh
    <3> QED BY <3>1, <3>2, <3>3 DEF ParentLocals
  <2>8. KernelStep
    BY <2>1 DEF KernelStep, Next
  <2>9. DOMAIN pc' = Slot /\ DOMAIN loc' = Slot
    BY <2>1 DEF SInv, Locals
  <2>10. \A x \in Slot : \E l : loc'[x] = l /\ GoodLocals(l)
    BY <2>1, <2>2, <2>6, <2>7 DEF SInv, Locals
  <2>11. Locals'
    BY <2>8, <2>9, <2>10, LocalsKept
  <2>12. IdsIssued' /\ DoneFairly
    BY <2>1, <2>8, TableKept
  <2>13. Leaves
    <3>1. ASSUME NEW x \in Slot, pc[x] = "exit" PROVE x # e /\ x # curenv
      BY <2>2, <2>4, <3>1 DEF SInv, LeavingCanRun
    <3>2. \A x \in Slot : x # e /\ x # curenv => pc'[x] = pc[x]
      BY <2>1 DEF SInv, Locals
    <3> QED BY <3>1, <3>2 DEF Leaves
  <2>14. LeavingCanRun'
    BY <2>1, <2>2, <2>3 DEF SInv, Locals, LeavingCanRun, IInv, TypeOK
  <2> QED BY <2>8, <2>11, <2>12, <2>13, <2>14, StepKeeps
<1> QED BY <1>1, <1>2

\* The steps that send a value to the parent, in vain or not.
LEMMA SendSteps ==
  ASSUME SInv, RunNothing \/ ForwardResult \/ SendResult
  PROVE  SInv'
<1>1. PICK p \in {"run", "forward", "return"} : At(p)
  BY DEF RunNothing, ForwardResult, SendResult
<1>2. PICK q : Goto(q)
  BY DEF RunNothing, ForwardResult, SendResult
<1>3. UNCHANGED <<loc, jobs>>
  BY DEF RunNothing, ForwardResult, SendResult
<1>4. GoodLocals(L) /\ return_value[curenv] \in Value /\ env_parent_id[curenv] \in EnvId
  BY <1>1, Mover
<1>5. PICK v \in Value : SendToParent(v)
  <2>1. 0 \in Value /\ L.value \in Value
    BY <1>4, ShellAssumption DEF GoodLocals
  <2> QED BY <1>4, <2>1 DEF RunNothing, ForwardResult, SendResult
<1>6. UNCHANGED vars \/ sys_send_return_value(env_parent_id[curenv], v)
  BY <1>5 DEF SendToParent
<1>7. [Next]_vars
  BY <1>4, <1>6 DEF Next
<1>8. \A e \in Slot : env_status[e] = "RUNNABLE" => env_status'[e] = "RUNNABLE"
  BY <1>6 DEF vars, sys_send_return_value, Wake, SInv, IInv, TypeOK
<1> QED BY <1>1, <1>2, <1>3, <1>7, <1>8, KernelOnly

\* A job enters the table, and its process says that it is done.
LEMMA JobSteps ==
  ASSUME SInv, CreateJob \/ SetJobDone
  PROVE  SInv'
<1>1. PICK p \in {"spawned", "done"} : At(p)
  BY DEF CreateJob, SetJobDone
<1>2. PICK q \in {"recv", "exit"} : Goto(q)
  BY DEF CreateJob, SetJobDone
<1>3. UNCHANGED <<vars, loc>> /\ KernelStep
  BY DEF CreateJob, SetJobDone, KernelStep
<1>4. /\ curenv \in Slot /\ env_status[curenv] = "RUNNABLE" /\ pc[curenv] = p
      /\ GoodLocals(L) /\ env_id[curenv] \in EnvId /\ ENVX(env_id[curenv]) = curenv
  BY <1>1, Mover
<1>5. envid_count' = envid_count /\ env_status' = env_status
  BY <1>3 DEF vars, idvars
<1>6. Locals'
  BY <1>2, <1>3, LocalsKept DEF SInv, Locals, Goto
<1>7. Leaves /\ LeavingCanRun'
  BY <1>2, <1>4, <1>5 DEF SInv, Locals, Goto, Leaves, LeavingCanRun
<1>8. jobs \in Seq(Job) /\ \A i \in DOMAIN jobs : Issued(jobs[i].envid)
  BY DEF SInv, IdsIssued
<1>9. CASE CreateJob
  <2> DEFINE j == [envid |-> L.kid, job_status |-> 1]
  <2>1. jobs' = Append(jobs, j)
    BY <1>9 DEF CreateJob, env_create_job
  <2>2. j \in Job /\ Issued(j.envid) /\ j.job_status = 1
    BY <1>4 DEF GoodLocals, Issued, Job
  <2> HIDE DEF j
  <2>3. /\ jobs' \in Seq(Job)
        /\ DOMAIN jobs = 1 .. Len(jobs) /\ DOMAIN jobs' = 1 .. Len(jobs) + 1
        /\ \A i \in DOMAIN jobs' : jobs'[i] = IF i \in DOMAIN jobs THEN jobs[i] ELSE j
    BY <1>8, <2>1, <2>2
  <2>4. \A i \in DOMAIN jobs' : Issued(jobs'[i].envid)
    BY <1>8, <2>2, <2>3
  <2>5. IdsIssued'
    BY <1>5, <2>3, <2>4 DEF IdsIssued, Issued
  <2>6. DoneFairly
    BY <2>2, <2>3 DEF DoneFairly
  <2> QED BY <1>3, <1>6, <1>7, <2>5, <2>6, StepKeeps
<1>10. CASE SetJobDone
  <2>1. jobs' = env_set_job_done(env_id[curenv]) /\ Goto("exit")
    BY <1>10 DEF SetJobDone
  <2>2. /\ DOMAIN jobs' = DOMAIN jobs
        /\ \A i \in DOMAIN jobs :
             \/ jobs'[i] = jobs[i]
             \/ /\ jobs[i].envid = env_id[curenv]
                /\ jobs'[i] = [jobs[i] EXCEPT !.job_status = 0]
    BY <2>1 DEF env_set_job_done
  <2>3. \A i \in DOMAIN jobs : jobs[i] \in Job
    BY <1>8
  <2>4. \A i \in DOMAIN jobs : jobs'[i] \in Job /\ jobs'[i].envid = jobs[i].envid
    BY <2>2, <2>3 DEF Job
  <2>5. jobs' \in Seq(Job)
    <3>1. DOMAIN jobs = 1 .. Len(jobs) /\ Len(jobs) \in Nat
      BY <1>8
    <3>2. jobs' = [i \in 1 .. Len(jobs) |-> jobs'[i]]
      BY <2>1, <3>1 DEF env_set_job_done
    <3>3. \A i \in 1 .. Len(jobs) : jobs'[i] \in Job
      BY <2>4, <3>1
    <3> QED BY <3>1, <3>2, <3>3
  <2>6. IdsIssued'
    BY <1>5, <1>8, <2>2, <2>4, <2>5 DEF IdsIssued, Issued
  <2>7. pc'[curenv] = "exit"
    BY <1>4, <2>1 DEF Goto, SInv, Locals
  <2>8. DoneFairly
    BY <1>4, <2>2, <2>4, <2>7 DEF DoneFairly
  <2> QED BY <1>3, <1>6, <1>7, <2>6, <2>8, StepKeeps
<1> QED BY <1>9, <1>10

\* A step that destroys the process in slot s, and sends a caller that
\* survives it to its exit.
LEMMA DestroyKeeps ==
  ASSUME SInv, NEW p, At(p), NEW s \in Slot, env_status[s] = "RUNNABLE",
         env_destroy(s), UNCHANGED loc,
         \/ s = curenv /\ pc' = [pc EXCEPT ![s] = "none"]
         \/ s # curenv /\ pc' = [pc EXCEPT ![s] = "none", ![curenv] = "exit"],
         IdsIssued', DoneFairly
  PROVE  SInv'
<1>1. curenv \in Slot /\ env_status[curenv] = "RUNNABLE" /\ Running
  BY Mover DEF At
<1>2. KernelStep
  BY <1>1 DEF KernelStep
<1>3. env_status' = [env_status EXCEPT ![s] = "FREE"]
  BY DEF env_destroy
<1>4. Locals'
  BY <1>2, LocalsKept DEF SInv, Locals
<1>5. /\ env_status'[s] = "FREE" /\ pc'[s] = "none"
      /\ \A x \in Slot : x # s => env_status'[x] = env_status[x]
      /\ \A x \in Slot : x # s => pc'[x] = pc[x] \/ (x = curenv /\ pc'[x] = "exit")
  BY <1>1, <1>3 DEF SInv, Locals, IInv, TypeOK
<1>6. Leaves
  BY <1>5 DEF Leaves
<1>7. LeavingCanRun'
  BY <1>1, <1>5 DEF SInv, LeavingCanRun
<1> QED BY <1>2, <1>4, <1>6, <1>7, StepKeeps

LEMMA ExitStep ==
  ASSUME SInv, Exit
  PROVE  SInv'
<1>1. /\ At("exit") /\ sys_env_destroy(curenv) /\ UNCHANGED <<loc, jobs>>
      /\ pc' = [pc EXCEPT ![curenv] = "none"]
  BY DEF Exit, Goto
<1>2. curenv \in Slot /\ env_status[curenv] = "RUNNABLE" /\ env_destroy(curenv) /\ Running
  BY <1>1, Mover DEF sys_env_destroy
<1>3. KernelStep
  BY <1>2 DEF KernelStep
<1>4. IdsIssued' /\ DoneFairly
  BY <1>1, <1>3, TableKept
<1> QED BY <1>1, <1>2, <1>4, DestroyKeeps

\* kill: whoever was in the slot of the job's id, the id has no process now.
LEMMA KillStep ==
  ASSUME SInv, NEW i, At("run"), env_kill_job(i), UNCHANGED loc
  PROVE  SInv'
<1>1. GoodLocals(L)
  BY Mover
<1>2. CASE Goto("exit") /\ UNCHANGED <<vars, jobs>>
  <2>1. [Next]_vars /\ env_status' = env_status
    BY <1>2 DEF vars
  <2> QED BY <1>2, <2>1, KernelOnly
<1>3. CASE ~(Goto("exit") /\ UNCHANGED <<vars, jobs>>)
  <2>1. PICK s : s = ENVX(jobs[i].envid)
    OBVIOUS
  <2>2. /\ i \in DOMAIN jobs /\ env_status[s] = "RUNNABLE" /\ env_destroy(s)
        /\ pc' = IF s = curenv THEN [pc EXCEPT ![s] = "none"]
                 ELSE [pc EXCEPT ![s] = "none", ![curenv] = "exit"]
        /\ jobs' = IF s = curenv THEN jobs
                   ELSE [jobs EXCEPT ![i].job_status = 0]
    BY <1>3, <2>1 DEF env_kill_job
  <2>3. jobs \in Seq(Job) /\ \A k \in DOMAIN jobs : Issued(jobs[k].envid)
    BY DEF SInv, IdsIssued
  <2>4. s \in Slot
    BY <2>1, <2>2, <2>3 DEF Issued, EnvId, ENVX
  <2>5. Running
    BY DEF At
  <2>6. KernelStep
    BY <2>2, <2>4, <2>5 DEF KernelStep
  <2>7. envid_count' = envid_count /\ env_status' = [env_status EXCEPT ![s] = "FREE"]
    BY <2>2 DEF env_destroy
  <2>8. jobs' = jobs => IdsIssued' /\ DoneFairly
    BY <2>6, TableKept
  <2>9. ASSUME jobs' = [jobs EXCEPT ![i].job_status = 0]
        PROVE  IdsIssued' /\ DoneFairly
    <3>1. DOMAIN jobs' = DOMAIN jobs /\ jobs[i] \in Job
      BY <2>2, <2>3, <2>9
    <3>2. /\ jobs'[i] = [jobs[i] EXCEPT !.job_status = 0]
          /\ \A k \in DOMAIN jobs : k # i => jobs'[k] = jobs[k]
      BY <2>2, <2>3, <2>9
    <3>3. jobs'[i] \in Job /\ jobs'[i].envid = jobs[i].envid
      BY <3>1, <3>2 DEF Job
    <3>4. jobs' \in Seq(Job)
      <4>1. PICK j : j = jobs'[i]
        OBVIOUS
      <4>2. jobs' = [jobs EXCEPT ![i] = j] /\ j \in Job
        BY <2>9, <3>2, <3>3, <4>1
      <4> QED BY <2>2, <2>3, <4>2
    <3>5. IdsIssued'
      BY <2>3, <2>7, <3>1, <3>2, <3>3, <3>4 DEF IdsIssued, Issued
    <3>6. ~Valid(jobs[i].envid)'
      <4>1. env_status'[s] = "FREE"
        BY <2>4, <2>7 DEF SInv, IInv, TypeOK
      <4> QED BY <2>1, <3>3, <4>1 DEF Valid
    <3>7. DoneFairly
      BY <3>1, <3>2, <3>6 DEF DoneFairly
    <3> QED BY <3>5, <3>7
  <2>10. IdsIssued' /\ DoneFairly
    BY <2>2, <2>8, <2>9
  <2> QED BY <2>2, <2>4, <2>10, DestroyKeeps
<1> QED BY <1>2, <1>3

LEMMA BuiltinStep ==
  ASSUME SInv, RunBuiltin
  PROVE  SInv'
<1>1. At("run") /\ GoodLocals(L)
  BY Mover DEF RunBuiltin
<1>2. CASE env_kill_job(1) /\ UNCHANGED loc
  BY <1>1, <1>2, KillStep
<1>3. CASE ~(env_kill_job(1) /\ UNCHANGED loc)
  <2>1. UNCHANGED <<vars, jobs>> /\ \E q : Goto(q)
    BY <1>3 DEF RunBuiltin
  <2>2. \/ loc' = loc
        \/ /\ jobs # <<>>
           /\ loc' = [loc EXCEPT ![curenv].kid = jobs[1].envid, ![curenv].op = "fg"]
    BY <1>3 DEF RunBuiltin
  <2>3. ASSUME jobs # <<>>,
               loc' = [loc EXCEPT ![curenv].kid = jobs[1].envid, ![curenv].op = "fg"]
        PROVE  \E l : GoodLocals(l) /\ loc' = [loc EXCEPT ![curenv] = l]
    <3> DEFINE l == [L EXCEPT !.kid = jobs[1].envid, !.op = "fg"]
    <3>1. 1 \in DOMAIN jobs
      BY <2>3 DEF SInv, IdsIssued
    <3>2. Issued(jobs[1].envid)
      BY <3>1 DEF SInv, IdsIssued
    <3>3. GoodLocals(l)
      BY <1>1, <3>2 DEF GoodLocals, NoLocals
    <3>4. curenv \in Slot /\ L = loc[curenv] /\ DOMAIN loc = Slot
      BY <1>1, Mover DEF SInv, Locals
    <3>5. loc' = [loc EXCEPT ![curenv] = l]
      BY <2>3, <3>4
    <3> QED BY <3>3, <3>5
  <2>4. \E l : GoodLocals(l) /\ (loc' = loc \/ loc' = [loc EXCEPT ![curenv] = l])
    BY <1>1, <2>2, <2>3
  <2> QED BY <1>1, <2>1, <2>4, LocalStep
<1> QED BY <1>2, <1>3

-----------------------------------------------------------------------------
LEMMA ShellInitInv == ShellInit => SInv
<1> SUFFICES ASSUME ShellInit PROVE SInv
  OBVIOUS
<1>1. IInv
  BY InitIInv DEF ShellInit
<1>2. envid_count = 0 /\ NoId \in EnvId /\ NoId[1] = 0
  BY KernelAssumption DEF ShellInit, Init, NoId, EnvId, Slot
<1>3. Locals
  BY <1>2 DEF ShellInit, Locals, GoodLocals, Issued, NoLocals
<1>4. IdsIssued /\ DoneMeansEnded
  BY DEF ShellInit, IdsIssued, DoneMeansEnded
<1>5. LeavingCanRun
  BY DEF ShellInit, LeavingCanRun
<1> QED BY <1>1, <1>3, <1>4, <1>5 DEF SInv

LEMMA ShellNextInv == SInv /\ [ShellNext]_allvars => SInv'
<1> SUFFICES ASSUME SInv, [ShellNext]_allvars PROVE SInv'
  OBVIOUS
<1>1. CASE BootShell \/ Clock
  BY <1>1, BootSteps
<1>2. CASE ParseWord \/ ParseEnd \/ ParseOperator \/ Condition
  BY <1>2, ParseSteps
<1>3. CASE \/ RunSpawn \/ AfterCommand
           \/ \E s \in Sessions : Prompt(s)
           \/ \E v \in {-1, 0, 1} : MainReturns(v)
  BY <1>3, CommandSteps
<1>4. CASE \E e \in Slot : Exofork(e) \/ StartChild(e)
  BY <1>4, ForkSteps
<1>5. CASE Wait \/ RecvCondition \/ RecvResult
  BY <1>5, WaitSteps
<1>6. CASE RunNothing \/ ForwardResult \/ SendResult
  BY <1>6, SendSteps
<1>7. CASE CreateJob \/ SetJobDone
  BY <1>7, JobSteps
<1>8. CASE RunBuiltin \/ Exit
  BY <1>8, BuiltinStep, ExitStep
<1>9. CASE UNCHANGED allvars
  <2>1. UNCHANGED <<vars, pc, loc, jobs>>
    BY <1>9 DEF allvars, shellvars
  <2>2. [Next]_vars /\ env_status' = env_status
    BY <2>1 DEF vars
  <2> QED BY <2>1, <2>2, KernelOnly
<1> QED BY <1>1, <1>2, <1>3, <1>4, <1>5, <1>6, <1>7, <1>8, <1>9 DEF ShellNext, Step

\* A job that jobs lists as Done has ended, or is one instruction from its
\* exit, whatever was typed: libmain reports the end of the first entry with
\* its id (kern/env.c env_set_job_done), and kill of a finished job, which may
\* hit the next user of the slot, still says Done only of a dead id.
THEOREM DoneJobsHaveEnded == ShellSpec => []DoneMeansEnded
<1>1. SInv => DoneMeansEnded
  BY DEF SInv
<1> QED BY <1>1, ShellInitInv, ShellNextInv, PTL DEF ShellSpec

\* The shell's processes keep the invariant of the kernel, kill included: it
\* destroys processes that are no children of its caller, so ShellSpec does
\* not implement the specification of KernelEnv.
THEOREM ShellKeepsKernel == ShellSpec => []IInv
<1>1. SInv => IInv
  BY DEF SInv
<1> QED BY <1>1, ShellInitInv, ShellNextInv, PTL DEF ShellSpec

-----------------------------------------------------------------------------
(***************************************************************************)
(* Who may wake a subshell that waits for its command.  Any process may    *)
(* send to its parent: a program (pc main, return), a subshell made at &&  *)
(* or || and a subshell with nothing to run.  NoEarlyReturn needs to know, *)
(* of every pair of a process and its parent, where the parent is while    *)
(* the process may still send (Kids); that no two processes work on the    *)
(* same command of a line, or its result could be reset to Started         *)
(* (Owner); and what the locals say about the place in the line (Places).  *)
(* It holds for the lines of RegularLine only; README.md says why.         *)
(***************************************************************************)
WordTokens == {"w", "x", "b", "k", "g"}
OperatorTokens == {"a", "o", ";", "&", "|"}

\* A line of commands separated by operators.  It may end in ; or & but not
\* if it has a |, and there is no && or || to the right of a |.
RegularLine ==
  {l \in Seq(WordTokens \cup OperatorTokens) :
     /\ l # <<>> /\ l[1] \in WordTokens
     /\ \A i \in 2 .. Len(l) : l[i] \in OperatorTokens => l[i-1] \in WordTokens
     /\ \A i \in 1 .. Len(l) : l[i] = "|" => l[Len(l)] \in WordTokens
     /\ \A i, j \in 1 .. Len(l) : i < j /\ l[i] = "|" => l[j] \notin {"a", "o"}}

RegularSessions == \A s \in Sessions : s \in Seq(RegularLine)

\* The lines typed, and a result for each of their tokens.
Entry == [line : RegularLine, result : Seq(Int)]

HistForm(h) ==
  h \in Seq(Entry) /\ \A n \in DOMAIN h : DOMAIN h[n].result = DOMAIN h[n].line

HistOK == HistForm(hist)

\* There is a | in the part of the line that has been parsed.
Piped(l) == \E k \in 1 .. l.pos - 1 : l.line[k] = "|"

\* A process at p with locals l is between two steps of parsing,
Parsing(p, l) ==
  \/ p \in {"parse", "recvcond", "cond"}
  \/ p \in {"fork", "start"} /\ l.op \notin {"spawn", "line"}
  \/ p = "wait" /\ l.op = ";"

\* it will parse, or have a child parse, the line from l.pos on,
Ahead(p, l) == Parsing(p, l) \/ (p \in {"fork", "start"} /\ l.op = "line")

\* it has the command l.word to run, or has run it,
Holding(p, l) ==
  \/ p \in {"parse", "run"} /\ l.argc # 0
  \/ p \in {"fork", "start"} /\ (l.op = "spawn" \/ l.argc # 0)
  \/ p \in {"spawned", "recv", "forward", "after"}

\* it is a program that may still send its value,
Program(p) == p \in {"main", "return"}

\* it is a subshell of && or || that may still send,
Teller(p, l) ==
  /\ l.flag
  /\ \/ p = "run"
     \/ p \in {"fork", "start"} /\ l.op = "spawn"
     \/ p \in {"spawned", "recv", "forward"}

\* it is the subshell of a whole line, before any |, and may still find that
\* there is nothing to run.
MainLine(p, l) ==
  /\ ~Piped(l)
  /\ Parsing(p, l) \/ (p = "run" /\ l.argc = 0 /\ ~l.flag)

\* The interactive shell.
AtShell(p, l) == p = "prompt" \/ (p \in {"fork", "start", "wait"} /\ l.op = "line")

\* What the locals say about the place in the line.
Place(p, l) ==
  /\ l.n \in 0 .. Len(hist)
  /\ p # "prompt" => l.n # 0 /\ l.line = hist[l.n].line
  /\ Ahead(p, l) => l.pos \in 1 .. Len(l.line) + 1
  /\ Holding(p, l) \/ Program(p) => l.word \in DOMAIN l.line
  /\ Holding(p, l) /\ Ahead(p, l) => l.word < l.pos
  /\ p = "parse" /\ l.argc = 0 /\ l.pos # 1 => l.line[l.pos - 1] \in OperatorTokens
  /\ p = "parse" /\ Piped(l) => l.mark
  /\ p \in {"fork", "start"} => l.op \in OperatorTokens \cup {"spawn", "line"}
  /\ Parsing(p, l) /\ p # "parse" => l.pos # 1 /\ l.op = l.line[l.pos - 1]
  /\ Parsing(p, l) /\ p \in {"fork", "start"}
       => l.argc # 0 /\ (l.flag <=> l.op \in {"a", "o"})
  /\ p \in {"recvcond", "cond"} => l.op \in {"a", "o"}
  /\ p = "forward" => l.flag
  /\ p = "run" /\ l.argc = 0 /\ ~l.flag => ~Piped(l)
  /\ AtShell(p, l) => l.n = Len(hist)
  /\ p \in {"fork", "start"} /\ l.op = "line" => l.pos = 1 /\ l.argc = 0

Places ==
  \A e \in Slot : pc[e] # "none" =>
    Place(pc[e], loc[e]) /\ (AtShell(pc[e], loc[e]) => e = 0)

\* No two processes have the same part of a line.
Apart(p, l, q, m) ==
  l.n = m.n =>
    /\ ~(Ahead(p, l) /\ Ahead(q, m))
    /\ Holding(p, l) /\ Holding(q, m) => l.word # m.word
    /\ Holding(p, l) /\ Ahead(q, m) => l.word < m.pos

Owner ==
  \A e, f \in Slot : e # f => Apart(pc[e], loc[e], pc[f], loc[f])

\* Process e is the parent of process c.
KidOf(c, e) ==
  /\ env_status[c] # "FREE" /\ env_status[e] # "FREE"
  /\ env_parent_id[c] = env_id[e]

\* Where a parent at q with locals m, waiting for a value or not, is while
\* its child id is at p with locals l.
KidFits(p, l, id, q, m, waiting) ==
  /\ Program(p) => /\ l.n = m.n /\ l.word = m.word /\ m.kid = id
                   /\ \/ q \in {"spawned", "recv"}
                      \/ q \in {"forward", "after"} /\ waiting
  /\ Teller(p, l) => /\ l.n = m.n /\ l.word = m.word /\ m.kid = id
                     /\ q = "recvcond" \/ (q = "cond" /\ waiting)
  /\ MainLine(p, l) => m.kid = id /\ q = "wait" /\ m.op = "line"

Kids ==
  \A c, e \in Slot : KidOf(c, e) =>
    KidFits(pc[c], loc[c], env_id[c], pc[e], loc[e], waiting_return_value[e])

Result(l) == hist[l.n].result[l.word]

\* A program that is about to send has left its result in hist.
Answered ==
  \A c, e \in Slot : KidOf(c, e) /\ pc[c] = "return" => Result(loc[c]) # Started

\* Program counters and the kernel's state of a slot.
SlotsOK ==
  /\ \A e \in Slot : waiting_return_value[e] => pc[e] \in {"cond", "forward", "after"}
  /\ \A e \in Slot : env_status[e] = "NOT_RUNNABLE"
                       => waiting_return_value[e] \/ pc[e] = "none"
  /\ \A e \in Slot : env_status[e] = "FREE"
                       => \/ pc[e] = "none"
                          \/ e = 0 /\ envid_count = 0 /\ pc[e] = "prompt"
  /\ \A e \in Slot : env_status[e] # "FREE" => env_parent_id[e][1] < env_id[e][1]

\* The inductive invariant.
WInv ==
  /\ SInv /\ RegularSessions
  /\ HistOK /\ Places /\ Owner /\ Kids /\ Answered /\ SlotsOK /\ NoEarlyReturn

-----------------------------------------------------------------------------
\* A step of process x, seen by everybody else.  The other processes stay
\* where they are or die,
OthersStay(x) ==
  \A e \in Slot \ {x} :
    /\ loc'[e] = loc[e]
    /\ pc'[e] = pc[e] \/ (pc'[e] = "none" /\ env_status'[e] = "FREE")

\* nobody gets a parent except a child that has no program counter yet,
KidsOld ==
  \A c, e \in Slot : KidOf(c, e)' /\ pc'[c] # "none"
                       => KidOf(c, e) /\ env_id'[c] = env_id[c]

\* and x wakes only a process with no other child that may send, and whose
\* command, if it waits for one, has a result.
Quiet(p, l) == ~Program(p) /\ ~Teller(p, l) /\ ~MainLine(p, l)

FlagsFair(x) ==
  \A e \in Slot \ {x} :
    \/ waiting_return_value'[e] = waiting_return_value[e]
    \/ /\ \A c \in Slot : KidOf(c, e) /\ c # x => Quiet(pc[c], loc[c])
       /\ Quiet(pc'[x], loc'[x])
       /\ pc[e] \in {"forward", "after"} => Result(loc[e]) # Started

\* A line that was typed stays, and a result once there is one.
HistGrows ==
  /\ Len(hist) <= Len(hist')
  /\ \A n \in 1 .. Len(hist) :
       /\ hist'[n].line = hist[n].line
       /\ \A k \in DOMAIN hist[n].line :
            hist[n].result[k] # Started => hist'[n].result[k] # Started

\* The new place of x gives it nothing to send that it did not have, and no
\* part of the line that it did not have.
Tame(p, l, q, m) ==
  /\ Program(q) => Program(p) /\ m.n = l.n /\ m.word = l.word
  /\ Teller(q, m) => Teller(p, l) /\ m.n = l.n /\ m.word = l.word
  /\ MainLine(q, m) => MainLine(p, l)

OwnsLess(p, l, q, m) ==
  /\ Ahead(q, m) => Ahead(p, l) /\ m.n = l.n /\ l.pos <= m.pos
  /\ Holding(q, m) => /\ m.n = l.n
                      /\ \/ Holding(p, l) /\ m.word = l.word
                         \/ Ahead(p, l) /\ l.pos <= m.word

\* The children of x that may send find it where they need it.
KidsFound(x) ==
  \A c \in Slot : KidOf(c, x) =>
    KidFits(pc[c], loc[c], env_id[c], pc'[x], loc'[x], waiting_return_value'[x])

\* x itself is in a good place.
Lands(x) ==
  /\ pc'[x] # "none" =>
       Place(pc[x], loc[x])' /\ (AtShell(pc'[x], loc'[x]) => x = 0)
  /\ pc'[x] = "return" => Result(loc[x])' # Started
  /\ pc'[x] \in {"forward", "after"} /\ ~waiting_return_value'[x]
       => Result(loc[x])' # Started

-----------------------------------------------------------------------------
LEMMA HistFacts ==
  ASSUME NEW h, HistForm(h)
  PROVE  /\ Len(h) \in Nat /\ DOMAIN h = 1 .. Len(h)
         /\ \A n \in DOMAIN h :
              /\ h[n].line \in RegularLine
              /\ DOMAIN h[n].line = 1 .. Len(h[n].line)
              /\ Len(h[n].line) \in Nat \ {0}
              /\ DOMAIN h[n].result = DOMAIN h[n].line
              /\ DOMAIN h[n] = {"line", "result"}
              /\ h[n].result \in Seq(Int)
<1>1. Len(h) \in Nat /\ DOMAIN h = 1 .. Len(h)
  BY DEF HistForm
<1>2. ASSUME NEW n \in DOMAIN h
      PROVE  /\ h[n].line \in RegularLine /\ h[n].result \in Seq(Int)
             /\ DOMAIN h[n] = {"line", "result"}
  <2>1. h[n] \in Entry
    BY <1>1, <1>2 DEF HistForm
  <2> QED BY <2>1 DEF Entry
<1>3. ASSUME NEW l \in RegularLine
      PROVE  DOMAIN l = 1 .. Len(l) /\ Len(l) \in Nat \ {0}
  <2>1. l \in Seq(WordTokens \cup OperatorTokens) /\ l # <<>>
    BY DEF RegularLine
  <2> QED BY <2>1
<1> QED BY <1>1, <1>2, <1>3 DEF HistForm

\* A process that has a command, or is one, has an entry in hist for it.
LEMMA HasEntry ==
  ASSUME HistOK, NEW p, NEW l, Place(p, l), Holding(p, l) \/ Program(p)
  PROVE  l.n \in 1 .. Len(hist) /\ l.word \in DOMAIN hist[l.n].line
<1>1. p # "prompt"
  BY DEF Holding, Program
<1>2. l.n \in 0 .. Len(hist) /\ l.n # 0 /\ l.line = hist[l.n].line /\ l.word \in DOMAIN l.line
  BY <1>1 DEF Place
<1> QED BY <1>2, HistFacts DEF HistOK

\* A place stays good while hist grows.
LEMMA PlaceStays ==
  ASSUME HistOK, HistOK', HistGrows, NEW p, NEW l, Place(p, l),
         AtShell(p, l) => Len(hist') = Len(hist)
  PROVE  Place(p, l)'
<1>1. Len(hist) \in Nat /\ Len(hist') \in Nat /\ Len(hist) <= Len(hist')
  BY HistFacts DEF HistGrows, HistOK
<1>2. l.n \in 0 .. Len(hist')
  BY <1>1 DEF Place
<1>3. p # "prompt" => l.n # 0 /\ l.line = hist'[l.n].line
  BY <1>1 DEF Place, HistGrows
<1>4. AtShell(p, l) => l.n = Len(hist')
  BY <1>1 DEF Place
<1> QED BY <1>2, <1>3, <1>4 DEF Place

\* Two processes stay apart when one of them gets no more of the line.
LEMMA StaysApart ==
  ASSUME NEW p, NEW l, NEW q, NEW m, NEW r, NEW k,
         Apart(p, l, r, k), Apart(r, k, p, l), OwnsLess(p, l, q, m),
         Holding(r, k) => k.word \in Nat, Ahead(r, k) => k.pos \in Nat,
         Ahead(p, l) => l.pos \in Nat,
         Holding(q, m) => m.word \in Nat, Ahead(q, m) => m.pos \in Nat
  PROVE  Apart(q, m, r, k) /\ Apart(r, k, q, m)
BY DEF Apart, OwnsLess

\* The numbers in the locals of a process, now and after a step.
LEMMA NumbersOf ==
  ASSUME HistOK, NEW p, NEW l, Place(p, l)
  PROVE  (Holding(p, l) => l.word \in Nat) /\ (Ahead(p, l) => l.pos \in Nat)
<1>1. Holding(p, l) \/ Ahead(p, l) => p # "prompt"
  BY DEF Holding, Ahead, Parsing
<1>2. Holding(p, l) \/ Ahead(p, l) => l.n \in DOMAIN hist /\ l.line = hist[l.n].line
  BY <1>1, HistFacts DEF HistOK, Place
<1>3. Holding(p, l) \/ Ahead(p, l) => Len(l.line) \in Nat /\ DOMAIN l.line = 1 .. Len(l.line)
  BY <1>2, HistFacts DEF HistOK
<1> QED BY <1>3 DEF Place

LEMMA NumbersLater ==
  ASSUME HistOK', NEW p, NEW l, Place(p, l)'
  PROVE  (Holding(p, l) => l.word \in Nat) /\ (Ahead(p, l) => l.pos \in Nat)
<1>0. HistForm(hist')
  BY DEF HistOK
<1>1. Holding(p, l) \/ Ahead(p, l) => p # "prompt"
  BY DEF Holding, Ahead, Parsing
<1>2. Holding(p, l) \/ Ahead(p, l) => l.n \in DOMAIN hist' /\ l.line = hist'[l.n].line
  BY <1>0, <1>1, HistFacts DEF Place
<1>3. Holding(p, l) \/ Ahead(p, l) => Len(l.line) \in Nat /\ DOMAIN l.line = 1 .. Len(l.line)
  BY <1>0, <1>2, HistFacts
<1> QED BY <1>3 DEF Place

\* What is left to show of a step that starts no process.
LEMMA WaitersKept ==
  ASSUME WInv, SInv', HistOK', SlotsOK', HistGrows, NEW x \in Slot,
         x = 0 \/ Len(hist') = Len(hist),
         OthersStay(x), KidsOld, FlagsFair(x),
         Tame(pc[x], loc[x], pc'[x], loc'[x]),
         OwnsLess(pc[x], loc[x], pc'[x], loc'[x]) \/ loc'[x].n = Len(hist) + 1,
         KidsFound(x), Lands(x)
  PROVE  WInv'
<1>1. Places'
  <2>1. ASSUME NEW e \in Slot, e # x, pc'[e] # "none"
        PROVE  Place(pc[e], loc[e])' /\ (AtShell(pc'[e], loc'[e]) => e = 0)
    <3>1. pc'[e] = pc[e] /\ loc'[e] = loc[e]
      BY <2>1 DEF OthersStay
    <3>2. PICK p, l : p = pc[e] /\ l = loc[e]
      OBVIOUS
    <3>3. Place(p, l) /\ (AtShell(p, l) => e = 0)
      BY <2>1, <3>1, <3>2 DEF WInv, Places
    <3>4. AtShell(p, l) => Len(hist') = Len(hist)
      BY <2>1, <3>3
    <3>5. Place(p, l)'
      BY <3>3, <3>4, PlaceStays DEF WInv
    <3> QED BY <3>1, <3>2, <3>3, <3>5 DEF Place, AtShell
  <2> QED BY <2>1 DEF Places, Lands
<1>2. Owner'
  <2>1. ASSUME NEW e \in Slot, NEW f \in Slot, e # f, e # x, f # x
        PROVE  Apart(pc'[e], loc'[e], pc'[f], loc'[f])
    <3>1. pc'[e] = pc[e] \/ pc'[e] = "none"
      BY <2>1 DEF OthersStay
    <3>2. pc'[f] = pc[f] \/ pc'[f] = "none"
      BY <2>1 DEF OthersStay
    <3>3. Apart(pc[e], loc[e], pc[f], loc[f]) /\ loc'[e] = loc[e] /\ loc'[f] = loc[f]
      BY <2>1 DEF OthersStay, WInv, Owner
    <3> QED BY <3>1, <3>2, <3>3 DEF Apart, Ahead, Holding, Parsing
  <2>2. ASSUME NEW f \in Slot, f # x
        PROVE  Apart(pc'[x], loc'[x], pc'[f], loc'[f]) /\ Apart(pc'[f], loc'[f], pc'[x], loc'[x])
    <3>1. pc'[f] = pc[f] \/ pc'[f] = "none"
      BY <2>2 DEF OthersStay
    <3>2. CASE pc'[f] = "none"
      BY <3>2 DEF Apart, Ahead, Holding, Parsing
    <3>3. CASE pc'[f] = pc[f] /\ pc[f] # "none"
      <4>1. PICK p, l, q, m, r, k : /\ p = pc[x] /\ l = loc[x] /\ q = pc'[x] /\ m = loc'[x]
                                    /\ r = pc[f] /\ k = loc[f]
        OBVIOUS
      <4>2. /\ Apart(p, l, r, k) /\ Apart(r, k, p, l) /\ loc'[f] = k
            /\ OwnsLess(p, l, q, m) \/ m.n = Len(hist) + 1
        BY <2>2, <4>1 DEF WInv, Owner, OthersStay
      <4>3. (Holding(r, k) => k.word \in Nat) /\ (Ahead(r, k) => k.pos \in Nat)
        <5>1. Place(r, k)
          BY <3>3, <4>1 DEF WInv, Places
        <5> QED BY <5>1, NumbersOf DEF WInv, HistOK
      <4>4. Ahead(p, l) => l.pos \in Nat
        <5>1. Ahead(p, l) => Place(p, l)
          BY <4>1 DEF WInv, Places, Ahead, Parsing
        <5> QED BY <5>1, NumbersOf DEF WInv, HistOK
      <4>5. (Holding(q, m) => m.word \in Nat) /\ (Ahead(q, m) => m.pos \in Nat)
        <5>1. Holding(q, m) \/ Ahead(q, m) => Place(q, m)'
          BY <4>1 DEF Lands, Place, Ahead, Holding, Parsing
        <5> QED BY <5>1, NumbersLater
      <4>6. Apart(q, m, r, k) /\ Apart(r, k, q, m)
        <5>1. CASE OwnsLess(p, l, q, m)
          BY <4>2, <4>3, <4>4, <4>5, <5>1, StaysApart
        <5>2. CASE m.n = Len(hist) + 1
          <6>1. k.n \in 0 .. Len(hist)
            BY <3>3, <4>1 DEF WInv, Places, Place
          <6>2. k.n # m.n
            BY <5>2, <6>1, HistFacts DEF WInv, HistOK
          <6> QED BY <6>2 DEF Apart
        <5> QED BY <4>2, <5>1, <5>2
      <4> QED BY <3>3, <4>1, <4>2, <4>6
    <3> QED BY <3>1, <3>2, <3>3
  <2> QED BY <2>1, <2>2 DEF Owner
<1>3. \A c, e \in Slot : KidOf(c, e) => c # e
  <2> SUFFICES ASSUME NEW c \in Slot, KidOf(c, c) PROVE FALSE
    OBVIOUS
  <2>1. env_parent_id[c][1] < env_id[c][1] /\ env_id[c] \in EnvId
    BY DEF WInv, SlotsOK, KidOf, SInv, IInv, TypeOK
  <2>2. env_id[c][1] \in Int
    BY <2>1, KernelAssumption DEF EnvId
  <2> QED BY <2>1, <2>2 DEF KidOf
<1>4. Kids'
  <2> SUFFICES ASSUME NEW c \in Slot, NEW e \in Slot, KidOf(c, e)'
               PROVE  KidFits(pc'[c], loc'[c], env_id'[c], pc'[e], loc'[e],
                              waiting_return_value'[e])
    BY DEF Kids
  <2>1. CASE pc'[c] = "none"
    BY <2>1 DEF KidFits, Program, Teller, MainLine, Parsing
  <2>2. CASE pc'[c] # "none"
    <3>1. KidOf(c, e) /\ env_id'[c] = env_id[c] /\ c # e
      BY <1>3, <2>2 DEF KidsOld
    <3>2. env_status'[c] # "FREE" /\ env_status'[e] # "FREE"
      BY DEF KidOf
    <3>3. KidFits(pc[c], loc[c], env_id[c], pc[e], loc[e], waiting_return_value[e])
      BY <3>1 DEF WInv, Kids
    <3>4. CASE c # x /\ e # x
      <4>1. pc'[c] = pc[c] /\ loc'[c] = loc[c] /\ pc'[e] = pc[e] /\ loc'[e] = loc[e]
        BY <3>2, <3>4 DEF OthersStay
      <4>2. waiting_return_value'[e] = waiting_return_value[e] \/ Quiet(pc[c], loc[c])
        BY <3>1, <3>4 DEF FlagsFair
      <4> QED BY <3>1, <3>3, <4>1, <4>2 DEF KidFits, Quiet
    <3>5. CASE c = x
      <4>1. pc'[e] = pc[e] /\ loc'[e] = loc[e]
        BY <3>1, <3>2, <3>5 DEF OthersStay
      <4>2. waiting_return_value'[e] = waiting_return_value[e] \/ Quiet(pc'[c], loc'[c])
        BY <3>1, <3>5 DEF FlagsFair
      <4>3. Tame(pc[c], loc[c], pc'[c], loc'[c])
        BY <3>5
      <4> QED BY <3>1, <3>3, <4>1, <4>2, <4>3 DEF KidFits, Quiet, Tame
    <3>6. CASE e = x
      <4>1. pc'[c] = pc[c] /\ loc'[c] = loc[c]
        BY <3>1, <3>2, <3>6 DEF OthersStay
      <4> QED BY <3>1, <3>6, <4>1 DEF KidsFound
    <3> QED BY <3>4, <3>5, <3>6
  <2> QED BY <2>1, <2>2
<1>5. ASSUME NEW e \in Slot, Place(pc[e], loc[e]), Holding(pc[e], loc[e]) \/ Program(pc[e]),
             Result(loc[e]) # Started, loc'[e] = loc[e]
      PROVE  Result(loc[e])' # Started
  <2>1. loc[e].n \in 1 .. Len(hist) /\ loc[e].word \in DOMAIN hist[loc[e].n].line
    BY <1>5, HasEntry DEF WInv
  <2> QED BY <1>5, <2>1 DEF HistGrows, Result
<1>6. Answered'
  <2> SUFFICES ASSUME NEW c \in Slot, NEW e \in Slot, KidOf(c, e)', pc'[c] = "return", c # x
               PROVE  Result(loc[c])' # Started
    BY DEF Answered, Lands, Result
  <2>1. KidOf(c, e) /\ pc[c] = "return" /\ loc'[c] = loc[c]
    BY DEF KidsOld, OthersStay
  <2>2. Place(pc[c], loc[c]) /\ Program(pc[c]) /\ Result(loc[c]) # Started
    BY <2>1 DEF WInv, Places, Program, Answered
  <2> QED BY <1>5, <2>1, <2>2
<1>7. NoEarlyReturn'
  <2> SUFFICES ASSUME NEW e \in Slot, pc'[e] \in {"forward", "after"},
                      ~waiting_return_value'[e], e # x
               PROVE  Result(loc[e])' # Started
    BY DEF NoEarlyReturn, Lands, Result
  <2>1. pc[e] \in {"forward", "after"} /\ loc'[e] = loc[e]
    BY DEF OthersStay
  <2>2. Result(loc[e]) # Started
    BY <2>1 DEF FlagsFair, WInv, NoEarlyReturn, Result
  <2>3. Place(pc[e], loc[e]) /\ Holding(pc[e], loc[e])
    BY <2>1 DEF WInv, Places, Holding
  <2> QED BY <1>5, <2>1, <2>2, <2>3
<1> QED BY <1>1, <1>2, <1>4, <1>6, <1>7 DEF WInv, RegularSessions

-----------------------------------------------------------------------------
\* What is known of the process that takes a step.
LEMMA WaitMover ==
  ASSUME WInv, NEW p, At(p), p # "none"
  PROVE  /\ curenv \in Slot /\ env_status[curenv] = "RUNNABLE" /\ pc[curenv] = p
         /\ L = loc[curenv] /\ GoodLocals(L) /\ ~waiting_return_value[curenv]
         /\ Place(p, L) /\ (AtShell(p, L) => curenv = 0)
         /\ DOMAIN pc = Slot /\ DOMAIN loc = Slot
<1>1. /\ curenv \in Slot /\ env_status[curenv] = "RUNNABLE" /\ pc[curenv] = p
      /\ L = loc[curenv] /\ GoodLocals(L)
  BY Mover DEF WInv
<1>2. ~waiting_return_value[curenv]
  BY <1>1 DEF WInv, SInv, IInv, WaitFlags
<1>3. Place(p, L) /\ (AtShell(p, L) => curenv = 0)
  BY <1>1 DEF WInv, Places
<1> QED BY <1>1, <1>2, <1>3 DEF WInv, SInv, Locals

\* The children of a process that is not about to wait for them cannot send.
LEMMA KidsAreQuiet ==
  ASSUME WInv, NEW p, At(p), p \notin {"none", "spawned", "recv", "recvcond"},
         ~(p = "wait" /\ L.op = "line")
  PROVE  \A c \in Slot : KidOf(c, curenv) => Quiet(pc[c], loc[c])
<1>1. /\ curenv \in Slot /\ pc[curenv] = p /\ L = loc[curenv]
      /\ ~waiting_return_value[curenv]
  BY WaitMover
<1> QED BY <1>1 DEF WInv, Kids, KidFits, Quiet

LEMMA QuietFits ==
  ASSUME NEW p, NEW l, Quiet(p, l), NEW id, NEW q, NEW m, NEW w
  PROVE  KidFits(p, l, id, q, m, w)
BY DEF Quiet, KidFits

\* A step of one process that is no system call.
LEMMA LocalWaits ==
  ASSUME WInv, SInv', HistOK', HistGrows, NEW p, At(p), p # "none", UNCHANGED vars,
         NEW q, pc' = [pc EXCEPT ![curenv] = q] \/ (pc' = pc /\ q = p),
         NEW l, loc' = [loc EXCEPT ![curenv] = l] \/ (loc' = loc /\ l = L),
         curenv = 0 \/ Len(hist') = Len(hist),
         Tame(p, L, q, l), OwnsLess(p, L, q, l) \/ l.n = Len(hist) + 1,
         KidsFound(curenv),
         Place(q, l)', AtShell(q, l) => curenv = 0,
         q \in {"return", "forward", "after"} => Result(l)' # Started
  PROVE  WInv'
<1>1. /\ curenv \in Slot /\ env_status[curenv] = "RUNNABLE" /\ pc[curenv] = p
      /\ L = loc[curenv] /\ ~waiting_return_value[curenv]
      /\ DOMAIN pc = Slot /\ DOMAIN loc = Slot
  BY WaitMover
<1>2. /\ pc'[curenv] = q /\ loc'[curenv] = l
      /\ \A e \in Slot \ {curenv} : pc'[e] = pc[e] /\ loc'[e] = loc[e]
  BY <1>1
<1>3. /\ env_status' = env_status /\ env_id' = env_id /\ env_parent_id' = env_parent_id
      /\ waiting_return_value' = waiting_return_value /\ envid_count' = envid_count
  BY DEF vars, idvars, ipcvars
<1>4. OthersStay(curenv) /\ FlagsFair(curenv)
  BY <1>2, <1>3 DEF OthersStay, FlagsFair
<1>5. KidsOld
  BY <1>3 DEF KidsOld, KidOf
<1>6. SlotsOK'
  BY <1>1, <1>2, <1>3 DEF WInv, SlotsOK
<1>7. PICK x \in Slot : x = curenv
  BY <1>1
<1>8. Lands(x)
  BY <1>2, <1>7 DEF Lands, Place, Result
<1>9. /\ OthersStay(x) /\ FlagsFair(x) /\ KidsFound(x) /\ pc[x] = p /\ loc[x] = L
      /\ pc'[x] = q /\ loc'[x] = l /\ (x = 0 \/ Len(hist') = Len(hist))
  BY <1>1, <1>2, <1>4, <1>7
<1> QED BY <1>5, <1>6, <1>8, <1>9, WaitersKept

\* The same while nothing is recorded and the children are quiet.
LEMMA QuietMove ==
  ASSUME WInv, SInv', NEW p, At(p), UNCHANGED <<vars, hist>>,
         p \notin {"none", "spawned", "recv", "recvcond"}, ~(p = "wait" /\ L.op = "line"),
         NEW q, pc' = [pc EXCEPT ![curenv] = q] \/ (pc' = pc /\ q = p),
         q \notin {"return", "forward"},
         q = "after" => p = "forward",
         NEW l, loc' = [loc EXCEPT ![curenv] = l] \/ (loc' = loc /\ l = L),
         l = L \/ q # "after",
         Tame(p, L, q, l), OwnsLess(p, L, q, l),
         Place(q, l), AtShell(q, l) => curenv = 0
  PROVE  WInv'
<1>1. \A c \in Slot : KidOf(c, curenv) => Quiet(pc[c], loc[c])
  BY KidsAreQuiet
<1>2. KidsFound(curenv)
  BY <1>1, QuietFits DEF KidsFound
<1>3. HistOK' /\ HistGrows /\ Place(q, l)'
  BY HistFacts DEF WInv, HistOK, HistGrows, Place
<1>4. q \in {"return", "forward", "after"} => Result(l)' # Started
  <2>1. /\ curenv \in Slot /\ pc[curenv] = p /\ L = loc[curenv]
        /\ ~waiting_return_value[curenv]
    BY WaitMover
  <2> QED BY <2>1 DEF WInv, NoEarlyReturn, Result
<1> QED BY <1>2, <1>3, <1>4, LocalWaits

-----------------------------------------------------------------------------
\* The steps of parsecmd.
LEMMA WordWaits ==
  ASSUME WInv, SInv', ParseWord
  PROVE  WInv'
<1>1. /\ At("parse") /\ Token \in WordTokens /\ UNCHANGED <<vars, pc, hist>>
      /\ loc' = [loc EXCEPT ![curenv] = [L EXCEPT !.pos = @ + 1, !.word = L.pos,
               !.argc = 1, !.flag = FALSE, !.job_flag = FALSE]]
  BY DEF ParseWord, WordTokens
<1>2. /\ curenv \in Slot /\ L = loc[curenv] /\ GoodLocals(L) /\ pc[curenv] = "parse"
      /\ Place("parse", L) /\ DOMAIN pc = Slot
  BY <1>1, WaitMover
<1>3. PICK l : l = [L EXCEPT !.pos = @ + 1, !.word = L.pos,
                             !.argc = 1, !.flag = FALSE, !.job_flag = FALSE]
  OBVIOUS
<1>4. /\ l.n = L.n /\ l.line = L.line /\ l.pos = L.pos + 1 /\ l.word = L.pos
      /\ l.argc = 1 /\ ~l.flag /\ l.mark = L.mark /\ l.op = L.op
  BY <1>2, <1>3 DEF GoodLocals, NoLocals
<1>5. /\ L.n \in 0 .. Len(hist) /\ L.n # 0 /\ L.line = hist[L.n].line
      /\ L.pos \in 1 .. Len(L.line) + 1 /\ (Piped(L) => L.mark)
  BY <1>2 DEF Place, Ahead, Parsing
<1>6. DOMAIN L.line = 1 .. Len(L.line) /\ Len(L.line) \in Nat
  BY <1>5, HistFacts DEF WInv, HistOK
<1>7. L.pos \in 1 .. Len(L.line) /\ L.line[L.pos] \in WordTokens
  <2>1. L.pos <= Len(L.line)
    BY <1>1, <1>5, <1>6 DEF Token, WordTokens
  <2> QED BY <1>1, <1>5, <1>6, <2>1 DEF Token
<1>8. Piped(l) <=> Piped(L)
  <2>1. L.line[L.pos] # "|"
    BY <1>7 DEF WordTokens
  <2>2. 1 .. l.pos - 1 = (1 .. L.pos - 1) \cup {L.pos}
    BY <1>4, <1>7
  <2> QED BY <1>4, <2>1, <2>2 DEF Piped
<1>9. Place("parse", l)
  BY <1>4, <1>5, <1>6, <1>7, <1>8 DEF Place, Ahead, Parsing, Holding, AtShell
<1>10. Tame("parse", L, "parse", l)
  BY <1>8 DEF Tame, Program, Teller, MainLine, Parsing
<1>11. OwnsLess("parse", L, "parse", l)
  BY <1>4, <1>7 DEF OwnsLess, Ahead, Parsing, Holding
<1>12. pc' = pc /\ loc' = [loc EXCEPT ![curenv] = l]
  BY <1>1, <1>3
<1>13. ~AtShell("parse", l)
  BY DEF AtShell
<1> QED BY <1>1, <1>9, <1>10, <1>11, <1>12, <1>13, QuietMove

LEMMA EndWaits ==
  ASSUME WInv, SInv', ParseEnd
  PROVE  WInv'
<1>1. /\ At("parse") /\ Token = "end" /\ UNCHANGED <<vars, hist>>
      /\ pc' = [pc EXCEPT ![curenv] = "run"]
      /\ loc' = [loc EXCEPT ![curenv].argc = IF L.mark THEN @ ELSE 0,
                            ![curenv].flag = FALSE]
  BY DEF ParseEnd, Goto
<1>2. /\ curenv \in Slot /\ L = loc[curenv] /\ GoodLocals(L)
      /\ Place("parse", L) /\ DOMAIN loc = Slot
  BY <1>1, WaitMover
<1>3. PICK l : l = [L EXCEPT !.argc = IF L.mark THEN @ ELSE 0, !.flag = FALSE]
  OBVIOUS
<1>4. /\ l.n = L.n /\ l.line = L.line /\ l.pos = L.pos /\ l.word = L.word
      /\ l.argc = (IF L.mark THEN L.argc ELSE 0) /\ ~l.flag
  BY <1>2, <1>3 DEF GoodLocals, NoLocals
<1>5. /\ L.n \in 0 .. Len(hist) /\ L.n # 0 /\ L.line = hist[L.n].line
      /\ L.pos \in 1 .. Len(L.line) + 1 /\ (Piped(L) => L.mark)
      /\ L.argc = 0 /\ L.pos # 1 => L.line[L.pos - 1] \in OperatorTokens
      /\ L.argc # 0 => L.word \in DOMAIN L.line
  BY <1>2 DEF Place, Ahead, Parsing, Holding
<1>6. /\ DOMAIN L.line = 1 .. Len(L.line) /\ Len(L.line) \in Nat \ {0}
      /\ L.line \in RegularLine
  BY <1>5, HistFacts DEF WInv, HistOK
<1>7. L.pos = Len(L.line) + 1
  <2>1. ASSUME L.pos \in 1 .. Len(L.line) PROVE FALSE
    <3>1. L.line[L.pos] = "end"
      BY <1>1, <1>6, <2>1 DEF Token
    <3>2. L.line \in Seq(WordTokens \cup OperatorTokens)
      BY <1>6 DEF RegularLine
    <3>3. L.line[L.pos] \in WordTokens \cup OperatorTokens
      BY <2>1, <3>2
    <3> QED BY <3>1, <3>3 DEF WordTokens, OperatorTokens
  <2> QED BY <1>5, <1>6, <2>1
<1>8. Piped(l) <=> Piped(L)
  BY <1>4 DEF Piped
<1>9. Piped(L) => l.argc # 0
  <2> SUFFICES ASSUME Piped(L), l.argc = 0 PROVE FALSE
    OBVIOUS
  <2>1. L.line[Len(L.line)] \in WordTokens
    BY <1>6, <1>7 DEF Piped, RegularLine
  <2>2. L.line[Len(L.line)] \in OperatorTokens
    BY <1>4, <1>5, <1>6, <1>7
  <2> QED BY <2>1, <2>2 DEF WordTokens, OperatorTokens
<1>10. l.argc # 0 => L.argc # 0
  BY <1>4
<1>11. Place("run", l)
  BY <1>4, <1>5, <1>8, <1>9, <1>10 DEF Place, Ahead, Parsing, Holding, AtShell, Program
<1>12. Tame("parse", L, "run", l)
  BY <1>4, <1>8 DEF Tame, Program, Teller, MainLine, Parsing
<1>13. OwnsLess("parse", L, "run", l)
  BY <1>4, <1>10 DEF OwnsLess, Ahead, Parsing, Holding
<1>14. loc' = [loc EXCEPT ![curenv] = l]
  BY <1>1, <1>2, <1>3 DEF GoodLocals, NoLocals
<1>15. ~AtShell("run", l)
  BY DEF AtShell
<1> QED BY <1>1, <1>11, <1>12, <1>13, <1>14, <1>15, QuietMove

LEMMA OperatorWaits ==
  ASSUME WInv, SInv', ParseOperator
  PROVE  WInv'
<1>1. /\ At("parse") /\ Token \in OperatorTokens /\ UNCHANGED <<vars, hist>>
      /\ pc' = [pc EXCEPT ![curenv] = "fork"]
      /\ loc' = [loc EXCEPT ![curenv] = [L EXCEPT !.pos = @ + 1, !.op = Token,
                  !.flag = Token \in {"a", "o"}, !.job_flag = @ \/ Token = "&"]]
  BY DEF ParseOperator, OperatorTokens, Goto
<1>2. /\ curenv \in Slot /\ L = loc[curenv] /\ GoodLocals(L)
      /\ Place("parse", L)
  BY <1>1, WaitMover
<1>3. PICK t, l : /\ t = Token
                  /\ l = [L EXCEPT !.pos = @ + 1, !.op = Token,
                            !.flag = Token \in {"a", "o"}, !.job_flag = @ \/ Token = "&"]
  OBVIOUS
<1>4. /\ l.n = L.n /\ l.line = L.line /\ l.pos = L.pos + 1 /\ l.word = L.word
      /\ l.argc = L.argc /\ l.flag = (t \in {"a", "o"}) /\ l.op = t
  BY <1>2, <1>3 DEF GoodLocals, NoLocals
<1>5. /\ L.n \in 0 .. Len(hist) /\ L.n # 0 /\ L.line = hist[L.n].line
      /\ L.pos \in 1 .. Len(L.line) + 1
      /\ L.argc = 0 /\ L.pos # 1 => L.line[L.pos - 1] \in OperatorTokens
      /\ L.argc # 0 => L.word \in DOMAIN L.line /\ L.word < L.pos
  BY <1>2 DEF Place, Ahead, Parsing, Holding
<1>6. /\ DOMAIN L.line = 1 .. Len(L.line) /\ Len(L.line) \in Nat \ {0}
      /\ L.line \in RegularLine
  BY <1>5, HistFacts DEF WInv, HistOK
<1>7. L.pos \in 1 .. Len(L.line) /\ L.line[L.pos] = t /\ t \in OperatorTokens
  <2>0. Token # "end"
    BY <1>1 DEF OperatorTokens
  <2>1. L.pos <= Len(L.line)
    BY <1>5, <1>6, <2>0 DEF Token
  <2> QED BY <1>1, <1>3, <1>5, <1>6, <2>1 DEF Token
<1>8. L.pos # 1 /\ L.line[L.pos - 1] \in WordTokens
  <2>1. \A i \in 2 .. Len(L.line) : L.line[i] \in OperatorTokens => L.line[i-1] \in WordTokens
    BY <1>6 DEF RegularLine
  <2>2. L.line[1] \in WordTokens /\ t \notin WordTokens
    BY <1>6, <1>7 DEF RegularLine, WordTokens, OperatorTokens
  <2>3. L.pos \in 2 .. Len(L.line)
    BY <1>6, <1>7, <2>2
  <2> QED BY <1>7, <2>1, <2>3
<1>9. L.argc # 0
  BY <1>5, <1>8 DEF WordTokens, OperatorTokens
<1>10. Piped(L) => Piped(l)
  BY <1>4, <1>7 DEF Piped
<1>11. t \notin {"spawn", "line", "none", "wait"}
  BY <1>7 DEF OperatorTokens
<1>12. l.pos \in 1 .. Len(l.line) + 1 /\ l.pos # 1 /\ l.line[l.pos - 1] = t
  BY <1>4, <1>7
<1>13. l.word < l.pos /\ l.word \in DOMAIN l.line
  BY <1>4, <1>5, <1>6, <1>7, <1>9
<1>14. Place("fork", l)
  BY <1>4, <1>5, <1>7, <1>9, <1>11, <1>12, <1>13
     DEF Place, Ahead, Parsing, Holding, AtShell, Program
<1>15. Tame("parse", L, "fork", l)
  BY <1>4, <1>10, <1>11 DEF Tame, Program, Teller, MainLine, Parsing
<1>16. OwnsLess("parse", L, "fork", l)
  BY <1>4, <1>7, <1>9 DEF OwnsLess, Ahead, Parsing, Holding
<1>17. ~AtShell("fork", l)
  BY <1>4, <1>11 DEF AtShell
<1> QED BY <1>1, <1>3, <1>14, <1>15, <1>16, <1>17, QuietMove

\* Condition, and the end of the wait() of ;.
LEMMA FreshParse ==
  ASSUME WInv, NEW p, At(p), p \in {"cond", "wait"}, Parsing(p, L),
         NEW b, b \/ p = "cond",
         NEW l, l = [L EXCEPT !.argc = 0, !.mark = b]
  PROVE  /\ Place("parse", l) /\ Tame(p, L, "parse", l) /\ OwnsLess(p, L, "parse", l)
         /\ ~AtShell("parse", l)
<1>1. /\ GoodLocals(L) /\ Place(p, L)
  BY WaitMover
<1>2. /\ l.n = L.n /\ l.line = L.line /\ l.pos = L.pos
      /\ l.argc = 0 /\ l.mark = b /\ l.op = L.op
  BY <1>1 DEF GoodLocals, NoLocals
<1>3. /\ L.n \in 0 .. Len(hist) /\ L.n # 0 /\ L.line = hist[L.n].line
      /\ L.pos \in 1 .. Len(L.line) + 1 /\ L.pos # 1 /\ L.op = L.line[L.pos - 1]
      /\ p = "cond" => L.op \in {"a", "o"}
  BY <1>1 DEF Place, Ahead
<1>4. L.op \in OperatorTokens
  BY <1>3 DEF Parsing, OperatorTokens
<1>5. Len(L.line) \in Nat \ {0} /\ L.line \in RegularLine
  BY <1>3, HistFacts DEF WInv, HistOK
<1>6. Piped(l) <=> Piped(L)
  BY <1>2 DEF Piped
<1>7. p = "cond" => ~Piped(L)
  <2> SUFFICES ASSUME p = "cond", NEW k \in 1 .. L.pos - 1, L.line[k] = "|" PROVE FALSE
    BY DEF Piped
  <2>1. k # L.pos - 1
    BY <1>3
  <2>2. k \in 1 .. Len(L.line) /\ L.pos - 1 \in 1 .. Len(L.line) /\ k < L.pos - 1
    BY <1>3, <1>5, <2>1
  <2> QED BY <1>3, <1>5, <2>2 DEF RegularLine
<1>8. Place("parse", l)
  BY <1>2, <1>3, <1>4, <1>6, <1>7 DEF Place, Ahead, Parsing, Holding, AtShell, Program
<1>9. Tame(p, L, "parse", l)
  BY <1>2, <1>6 DEF Tame, Program, Teller, MainLine, Parsing
<1>10. OwnsLess(p, L, "parse", l)
  <2>1. L.pos <= l.pos
    BY <1>2, <1>3, <1>5
  <2>2. ~Holding("parse", l)
    BY <1>2 DEF Holding
  <2> QED BY <1>2, <2>1, <2>2 DEF OwnsLess, Ahead
<1> QED BY <1>8, <1>9, <1>10 DEF AtShell

LEMMA ConditionWaits ==
  ASSUME WInv, SInv', Condition
  PROVE  WInv'
<1>1. PICK b : b = ((L.op = "a") = (return_value[curenv] = 0))
  OBVIOUS
<1>2. /\ At("cond") /\ UNCHANGED <<vars, hist>>
      /\ pc' = [pc EXCEPT ![curenv] = "parse"]
      /\ loc' = [loc EXCEPT ![curenv] = [Fresh EXCEPT !.mark = b]]
  BY <1>1 DEF Condition, Goto
<1>3. GoodLocals(L)
  BY <1>2, WaitMover
<1>4. PICK l : l = [L EXCEPT !.argc = 0, !.mark = b]
  OBVIOUS
<1>5. [Fresh EXCEPT !.mark = b] = l
  BY <1>3, <1>4 DEF Fresh, GoodLocals, NoLocals
<1>6. Parsing("cond", L)
  BY DEF Parsing
<1>7. /\ Place("parse", l) /\ Tame("cond", L, "parse", l) /\ OwnsLess("cond", L, "parse", l)
      /\ ~AtShell("parse", l)
  BY <1>2, <1>4, <1>6, FreshParse
<1> QED BY <1>2, <1>5, <1>7, QuietMove

-----------------------------------------------------------------------------
\* Recording a result.
Put(n, k, r) == [hist EXCEPT ![n].result[k] = r]

LEMMA RecordFacts ==
  ASSUME HistOK, NEW n \in 1 .. Len(hist), NEW k \in DOMAIN hist[n].line,
         NEW r \in Int, hist' = Put(n, k, r)
  PROVE  /\ HistOK' /\ Len(hist') = Len(hist)
         /\ \A m \in 1 .. Len(hist) : hist'[m].line = hist[m].line
         /\ hist'[n].result[k] = r
         /\ \A m \in 1 .. Len(hist), j \in Int :
              m # n \/ (j # k /\ j \in DOMAIN hist[m].line)
                => hist'[m].result[j] = hist[m].result[j]
<1>1. /\ hist \in Seq(Entry) /\ DOMAIN hist = 1 .. Len(hist) /\ Len(hist) \in Nat
      /\ \A m \in DOMAIN hist : DOMAIN hist[m].result = DOMAIN hist[m].line
  BY HistFacts DEF HistOK, HistForm
<1>2. hist[n] \in Entry /\ k \in DOMAIN hist[n].result
  BY <1>1
<1>3. hist[n].line \in RegularLine /\ hist[n].result \in Seq(Int)
  BY <1>2 DEF Entry
<1>4. PICK t : t = [hist[n].result EXCEPT ![k] = r]
  OBVIOUS
<1>5. /\ t \in Seq(Int) /\ DOMAIN t = DOMAIN hist[n].result /\ t[k] = r
      /\ \A j \in DOMAIN t : j # k => t[j] = hist[n].result[j]
  BY <1>2, <1>3, <1>4
<1>6. PICK h : h = [hist[n] EXCEPT !.result = t]
  OBVIOUS
<1>7. h \in Entry /\ h.line = hist[n].line /\ h.result = t
  BY <1>2, <1>5, <1>6 DEF Entry
<1>8. hist' = [hist EXCEPT ![n] = h]
  BY <1>1, <1>2, <1>4, <1>6 DEF Entry, Put
<1>9. /\ hist' \in Seq(Entry) /\ DOMAIN hist' = DOMAIN hist /\ Len(hist') = Len(hist)
      /\ hist'[n] = h /\ \A m \in DOMAIN hist : m # n => hist'[m] = hist[m]
  BY <1>1, <1>7, <1>8
<1>10. HistOK'
  BY <1>1, <1>5, <1>7, <1>9 DEF HistOK, HistForm
<1> QED BY <1>1, <1>5, <1>7, <1>9, <1>10

\* No result goes back to Started when one is recorded.
LEMMA RecordGrows ==
  ASSUME HistOK, NEW p, Place(p, L), Holding(p, L) \/ Program(p),
         NEW r \in Int, r # Started, hist' = Record(r)
  PROVE  /\ HistOK' /\ HistGrows /\ Len(hist') = Len(hist)
         /\ hist'[L.n].result[L.word] = r
<1>1. L.n \in 1 .. Len(hist) /\ L.word \in DOMAIN hist[L.n].line
  BY HasEntry
<1>2. /\ HistOK' /\ Len(hist') = Len(hist)
      /\ \A m \in 1 .. Len(hist) : hist'[m].line = hist[m].line
      /\ hist'[L.n].result[L.word] = r
      /\ \A m \in 1 .. Len(hist), j \in Int :
           m # L.n \/ (j # L.word /\ j \in DOMAIN hist[m].line)
             => hist'[m].result[j] = hist[m].result[j]
  <2>1. PICK n, k : n = L.n /\ k = L.word
    OBVIOUS
  <2>2. hist' = Put(n, k, r)
    BY <2>1 DEF Record, Put
  <2>3. n \in 1 .. Len(hist) /\ k \in DOMAIN hist[n].line
    BY <1>1, <2>1
  <2>4. /\ HistOK' /\ Len(hist') = Len(hist)
        /\ \A m \in 1 .. Len(hist) : hist'[m].line = hist[m].line
        /\ hist'[n].result[k] = r
        /\ \A m \in 1 .. Len(hist), j \in Int :
             m # n \/ (j # k /\ j \in DOMAIN hist[m].line)
               => hist'[m].result[j] = hist[m].result[j]
    BY <2>2, <2>3, RecordFacts
  <2> QED BY <2>1, <2>4
<1>3. ASSUME NEW m \in 1 .. Len(hist), NEW j \in DOMAIN hist[m].line,
             hist[m].result[j] # Started
      PROVE  hist'[m].result[j] # Started
  <2>1. j \in Int
    BY <1>3, HistFacts DEF HistOK
  <2> QED BY <1>2, <1>3, <2>1
<1>4. Len(hist) \in Nat
  BY HistFacts DEF HistOK
<1> QED BY <1>2, <1>3, <1>4 DEF HistGrows

\* A step that records the result r of the command that it has or is.
LEMMA RecordMove ==
  ASSUME WInv, SInv', NEW p, At(p), p \in {"run", "main"}, UNCHANGED vars,
         Holding(p, L) \/ Program(p), NEW r \in Int, r # Started, hist' = Record(r),
         NEW q, pc' = [pc EXCEPT ![curenv] = q],
         NEW l, loc' = [loc EXCEPT ![curenv] = l] \/ (loc' = loc /\ l = L),
         l.n = L.n, l.word = L.word,
         Tame(p, L, q, l), OwnsLess(p, L, q, l), Place(q, l), ~AtShell(q, l)
  PROVE  WInv'
<1>1. Place(p, L) /\ HistOK
  BY WaitMover DEF WInv
<1>2. /\ HistOK' /\ HistGrows /\ Len(hist') = Len(hist)
      /\ hist'[L.n].result[L.word] = r
  BY <1>1, RecordGrows
<1>3. Result(l)' # Started
  BY <1>2 DEF Result
<1>4. Place(q, l)'
  BY <1>1, <1>2, PlaceStays
<1>5. \A c \in Slot : KidOf(c, curenv) => Quiet(pc[c], loc[c])
  BY KidsAreQuiet
<1>6. KidsFound(curenv)
  BY <1>5, QuietFits DEF KidsFound
<1> QED BY <1>2, <1>3, <1>4, <1>6, LocalWaits

\* The command of a process that runs it, and what it may do next: go to the
\* spawn, be done with it, or wait for something else.
LEMMA RunFacts ==
  ASSUME WInv, At("run"), L.argc # 0
  PROVE  Place("run", L) /\ Holding("run", L) /\ GoodLocals(L)
         /\ L.n \in 0 .. Len(hist) /\ L.n # 0 /\ L.line = hist[L.n].line
         /\ L.word \in DOMAIN L.line
<1>1. Place("run", L) /\ GoodLocals(L)
  BY WaitMover
<1> QED BY <1>1 DEF Place, Holding

LEMMA SpawnWaits ==
  ASSUME WInv, SInv', RunSpawn
  PROVE  WInv'
<1>1. At("run") /\ L.argc # 0 /\ UNCHANGED vars
  BY DEF RunSpawn
<1>2. /\ Place("run", L) /\ Holding("run", L) /\ GoodLocals(L)
      /\ L.n \in 0 .. Len(hist) /\ L.n # 0 /\ L.line = hist[L.n].line
      /\ L.word \in DOMAIN L.line
  BY <1>1, RunFacts
<1>3. curenv \in Slot /\ L = loc[curenv] /\ DOMAIN loc = Slot
  BY <1>1, WaitMover
<1>4. CASE /\ pc' = [pc EXCEPT ![curenv] = "fork"] /\ hist' = hist
           /\ loc' = [loc EXCEPT ![curenv].op = "spawn"]
  <2>1. PICK l : l = [L EXCEPT !.op = "spawn"]
    OBVIOUS
  <2>2. /\ l.n = L.n /\ l.line = L.line /\ l.word = L.word /\ l.flag = L.flag
        /\ l.op = "spawn"
    BY <1>2, <2>1 DEF GoodLocals, NoLocals
  <2>3. loc' = [loc EXCEPT ![curenv] = l]
    BY <1>3, <1>4, <2>1
  <2>4. Place("fork", l) /\ ~AtShell("fork", l)
    BY <1>2, <2>2 DEF Place, Ahead, Parsing, Holding, AtShell, Program
  <2>5. Tame("run", L, "fork", l)
    BY <2>2 DEF Tame, Program, Teller, MainLine, Parsing
  <2>6. OwnsLess("run", L, "fork", l)
    BY <1>2, <2>2 DEF OwnsLess, Ahead, Parsing
  <2> QED BY <1>1, <1>4, <2>3, <2>4, <2>5, <2>6, QuietMove
<1>5. CASE pc' = [pc EXCEPT ![curenv] = "after"] /\ hist' = Record(-1) /\ loc' = loc
  <2>1. Place("after", L) /\ ~AtShell("after", L)
    BY <1>2 DEF Place, Ahead, Parsing, Holding, AtShell, Program
  <2>2. Tame("run", L, "after", L)
    BY DEF Tame, Program, Teller, MainLine, Parsing
  <2>3. OwnsLess("run", L, "after", L)
    BY <1>2 DEF OwnsLess, Ahead, Parsing
  <2>4. -1 \in Int /\ -1 # Started
    BY DEF Started
  <2> QED BY <1>1, <1>2, <1>5, <2>1, <2>2, <2>3, <2>4, RecordMove
<1> QED BY <1>4, <1>5 DEF RunSpawn, Goto

\* Leaving the line, by exit or for the wait() of fg or of a pipe.
LEMMA Leaving ==
  ASSUME NEW p, NEW l, Place(p, l), p # "prompt",
         NEW q, NEW m, m.n = l.n, m.line = l.line,
         q \in {"exit", "done"} \/ (q = "wait" /\ m.op \in {"fg", "rightpipe"})
  PROVE  Place(q, m) /\ Tame(p, l, q, m) /\ OwnsLess(p, l, q, m) /\ ~AtShell(q, m)
<1>1. /\ ~Parsing(q, m) /\ ~Ahead(q, m) /\ ~Holding(q, m) /\ ~Program(q)
      /\ ~Teller(q, m) /\ ~MainLine(q, m) /\ ~AtShell(q, m)
  BY DEF Parsing, Ahead, Holding, Program, Teller, MainLine, AtShell
<1>2. Place(q, m)
  BY <1>1 DEF Place
<1> QED BY <1>1, <1>2 DEF Tame, OwnsLess

LEMMA AfterWaits ==
  ASSUME WInv, SInv', AfterCommand
  PROVE  WInv'
<1>1. At("after") /\ UNCHANGED <<vars, hist>>
  BY DEF AfterCommand
<1>2. curenv \in Slot /\ L = loc[curenv] /\ GoodLocals(L) /\ Place("after", L) /\ DOMAIN loc = Slot
  BY <1>1, WaitMover
<1>3. CASE /\ pc' = [pc EXCEPT ![curenv] = "wait"]
           /\ loc' = [loc EXCEPT ![curenv].kid = L.rightpipe, ![curenv].op = "rightpipe"]
  <2>1. PICK l : l = [L EXCEPT !.kid = L.rightpipe, !.op = "rightpipe"]
    OBVIOUS
  <2>2. l.n = L.n /\ l.line = L.line /\ l.op = "rightpipe"
    BY <1>2, <2>1 DEF GoodLocals, NoLocals
  <2>3. loc' = [loc EXCEPT ![curenv] = l]
    BY <1>2, <1>3, <2>1
  <2>4. /\ Place("wait", l) /\ Tame("after", L, "wait", l) /\ OwnsLess("after", L, "wait", l)
        /\ ~AtShell("wait", l)
    BY <1>2, <2>2, Leaving
  <2> QED BY <1>1, <1>3, <2>3, <2>4, QuietMove
<1>4. CASE pc' = [pc EXCEPT ![curenv] = "exit"] /\ loc' = loc
  <2>1. /\ Place("exit", L) /\ Tame("after", L, "exit", L) /\ OwnsLess("after", L, "exit", L)
        /\ ~AtShell("exit", L)
    BY <1>2, Leaving
  <2> QED BY <1>1, <1>4, <2>1, QuietMove
<1> QED BY <1>3, <1>4 DEF AfterCommand, Goto

LEMMA ReturnWaits ==
  ASSUME WInv, SInv', NEW v \in {-1, 0, 1}, MainReturns(v)
  PROVE  WInv'
<1>1. /\ At("main") /\ UNCHANGED vars /\ hist' = Record(v)
      /\ pc' = [pc EXCEPT ![curenv] = "return"]
      /\ loc' = [loc EXCEPT ![curenv].value = v]
  BY DEF MainReturns, Goto
<1>2. curenv \in Slot /\ L = loc[curenv] /\ GoodLocals(L) /\ Place("main", L) /\ DOMAIN loc = Slot
  BY <1>1, WaitMover
<1>3. PICK l : l = [L EXCEPT !.value = v]
  OBVIOUS
<1>4. l.n = L.n /\ l.line = L.line /\ l.word = L.word
  BY <1>2, <1>3 DEF GoodLocals, NoLocals
<1>5. loc' = [loc EXCEPT ![curenv] = l]
  BY <1>1, <1>2, <1>3
<1>6. Program("main") /\ Program("return") /\ ~AtShell("return", l)
  BY DEF Program, AtShell
<1>7. Place("return", l)
  BY <1>2, <1>4 DEF Place, Ahead, Parsing, Holding, AtShell, Program
<1>8. Tame("main", L, "return", l)
  BY <1>4 DEF Tame, Program, Teller, MainLine, Parsing
<1>9. OwnsLess("main", L, "return", l)
  BY DEF OwnsLess, Ahead, Parsing, Holding
<1>10. v \in Int /\ v # Started
  BY DEF Started
<1> QED BY <1>1, <1>4, <1>5, <1>6, <1>7, <1>8, <1>9, <1>10, RecordMove

\* The steps that only change the job table.
LEMMA TableWaits ==
  ASSUME WInv, SInv', CreateJob \/ SetJobDone
  PROVE  WInv'
<1>1. CASE CreateJob
  <2>1. /\ At("spawned") /\ UNCHANGED <<vars, loc, hist>>
        /\ pc' = [pc EXCEPT ![curenv] = "recv"]
    BY <1>1 DEF CreateJob, Goto
  <2>2. /\ curenv \in Slot /\ L = loc[curenv] /\ Place("spawned", L) /\ DOMAIN pc = Slot
        /\ pc[curenv] = "spawned"
    BY <2>1, WaitMover
  <2>3. Place("recv", L) /\ ~AtShell("recv", L)
    BY <2>2 DEF Place, Ahead, Parsing, Holding, AtShell, Program
  <2>4. Tame("spawned", L, "recv", L) /\ OwnsLess("spawned", L, "recv", L)
    BY DEF Tame, OwnsLess, Program, Teller, MainLine, Ahead, Parsing, Holding
  <2>5. KidsFound(curenv)
    <3>1. pc'[curenv] = "recv" /\ loc'[curenv] = L /\ waiting_return_value' = waiting_return_value
      BY <2>1, <2>2 DEF vars, ipcvars
    <3> QED BY <2>2, <3>1 DEF WInv, Kids, KidsFound, KidFits
  <2>6. PICK l : l = L
    OBVIOUS
  <2>7. HistOK' /\ HistGrows /\ Len(hist') = Len(hist)
    BY <2>1, HistFacts DEF WInv, HistOK, HistGrows
  <2>8. Place("recv", l)'
    BY <2>3, <2>6, <2>7, PlaceStays DEF WInv
  <2> QED BY <2>1, <2>3, <2>4, <2>5, <2>6, <2>7, <2>8, LocalWaits
<1>2. CASE SetJobDone
  <2>1. /\ At("done") /\ UNCHANGED <<vars, loc, hist>>
        /\ pc' = [pc EXCEPT ![curenv] = "exit"]
    BY <1>2 DEF SetJobDone, Goto
  <2>2. Place("done", L)
    BY <2>1, WaitMover
  <2>3. /\ Place("exit", L) /\ Tame("done", L, "exit", L) /\ OwnsLess("done", L, "exit", L)
        /\ ~AtShell("exit", L)
    BY <2>2, Leaving
  <2> QED BY <2>1, <2>3, QuietMove
<1> QED BY <1>1, <1>2

\* The end of a wait().
LEMMA WaitWaits ==
  ASSUME WInv, SInv', Wait, ~Valid(L.kid), UNCHANGED <<vars, hist>>
  PROVE  WInv'
<1>1. /\ At("wait")
      /\ pc' = [pc EXCEPT ![curenv] = CASE L.op = "line" -> "prompt"
                                        [] L.op = ";"    -> "parse"
                                        [] OTHER         -> "exit"]
      /\ loc' = [loc EXCEPT ![curenv] = IF L.op = ";" THEN Fresh ELSE L]
  BY DEF Wait, Goto
<1>2. /\ curenv \in Slot /\ L = loc[curenv] /\ GoodLocals(L) /\ Place("wait", L)
      /\ pc[curenv] = "wait" /\ (AtShell("wait", L) => curenv = 0)
      /\ DOMAIN pc = Slot /\ DOMAIN loc = Slot
  BY <1>1, WaitMover
<1>3. CASE L.op = ";"
  <2>1. Parsing("wait", L)
    BY <1>3 DEF Parsing
  <2>2. PICK l : l = Fresh
    OBVIOUS
  <2>3. l = [L EXCEPT !.argc = 0, !.mark = TRUE]
    BY <2>2 DEF Fresh
  <2>4. /\ Place("parse", l) /\ Tame("wait", L, "parse", l) /\ OwnsLess("wait", L, "parse", l)
        /\ ~AtShell("parse", l)
    BY <1>1, <2>1, <2>3, FreshParse
  <2>5. pc' = [pc EXCEPT ![curenv] = "parse"] /\ loc' = [loc EXCEPT ![curenv] = l]
    BY <1>1, <1>3, <2>2
  <2> QED BY <1>1, <1>3, <2>4, <2>5, QuietMove
<1>4. CASE L.op = "line"
  <2>1. PICK l : l = L
    OBVIOUS
  <2>2. pc' = [pc EXCEPT ![curenv] = "prompt"] /\ loc' = [loc EXCEPT ![curenv] = l]
    BY <1>1, <1>4, <2>1
  <2>3. AtShell("wait", l) /\ curenv = 0
    BY <1>2, <1>4, <2>1 DEF AtShell
  <2>4. Place("prompt", l)
    BY <1>2, <2>1, <2>3 DEF Place, Ahead, Parsing, Holding, Program
  <2>5. Tame("wait", L, "prompt", l) /\ OwnsLess("wait", L, "prompt", l)
    BY DEF Tame, OwnsLess, Program, Teller, MainLine, Ahead, Parsing, Holding
  <2>6. ASSUME NEW c \in Slot, KidOf(c, curenv) PROVE Quiet(pc[c], loc[c])
    <3>1. KidFits(pc[c], loc[c], env_id[c], "wait", L, waiting_return_value[curenv])
      BY <1>2, <2>6 DEF WInv, Kids
    <3>2. L.kid # env_id[c]
      <4>1. env_status[c] # "FREE" /\ env_id[c][2] = c
        BY <2>6 DEF KidOf, WInv, SInv, IInv, LiveFields
      <4>2. Valid(env_id[c])
        BY <4>1 DEF Valid, ENVX
      <4> QED BY <4>2
    <3> QED BY <3>1, <3>2 DEF KidFits, Quiet
  <2>7. KidsFound(curenv)
    BY <2>6, QuietFits DEF KidsFound
  <2>8. HistOK' /\ HistGrows /\ Len(hist') = Len(hist)
    BY HistFacts DEF WInv, HistOK, HistGrows
  <2>9. Place("prompt", l)'
    BY <2>4, <2>8, PlaceStays DEF WInv
  <2> QED BY <1>1, <2>2, <2>3, <2>5, <2>7, <2>8, <2>9, LocalWaits
<1>5. CASE L.op \notin {";", "line"}
  <2>1. pc' = [pc EXCEPT ![curenv] = "exit"] /\ loc' = [loc EXCEPT ![curenv] = L]
    BY <1>1, <1>5
  <2>2. /\ Place("exit", L) /\ Tame("wait", L, "exit", L) /\ OwnsLess("wait", L, "exit", L)
        /\ ~AtShell("exit", L)
    BY <1>2, Leaving
  <2> QED BY <1>1, <1>5, <2>1, <2>2, QuietMove
<1> QED BY <1>3, <1>4, <1>5

\* A new line.
LEMMA PromptWaits ==
  ASSUME WInv, SInv', NEW s \in Sessions, Prompt(s)
  PROVE  WInv'
<1>1. PICK l, t, h : /\ t = s[L.n + 1]
                     /\ l = [NoLocals EXCEPT !.n = L.n + 1, !.line = t, !.op = "line"]
                     /\ h = [line |-> t, result |-> [k \in DOMAIN t |-> NotRun]]
  OBVIOUS
<1>2. /\ At("prompt") /\ L.n < Len(s) /\ UNCHANGED vars
      /\ loc' = [loc EXCEPT ![curenv] = l] /\ hist' = Append(hist, h)
      /\ pc' = [pc EXCEPT ![curenv] = "fork"]
  BY <1>1 DEF Prompt, Goto
<1>3. curenv \in Slot /\ Place("prompt", L) /\ curenv = 0 /\ L.n = Len(hist)
  BY <1>2, WaitMover DEF AtShell, Place
<1>4. HistForm(hist) /\ Len(hist) \in Nat /\ hist \in Seq(Entry)
  BY HistFacts DEF WInv, HistOK, HistForm
<1>5. t \in RegularLine
  <2>1. s \in Seq(RegularLine)
    BY DEF WInv, RegularSessions
  <2> QED BY <1>1, <1>2, <1>3, <1>4, <2>1
<1>6. /\ l.n = Len(hist) + 1 /\ l.line = t /\ l.op = "line" /\ l.pos = 1 /\ l.argc = 0
  BY <1>1, <1>3 DEF NoLocals
<1>7. DOMAIN t = 1 .. Len(t) /\ Len(t) \in Nat \ {0}
  <2>1. t \in Seq(WordTokens \cup OperatorTokens) /\ t # <<>>
    BY <1>5 DEF RegularLine
  <2> QED BY <2>1
<1>8. h \in Entry /\ h.line = t /\ DOMAIN h.result = DOMAIN t
  <2>1. [k \in DOMAIN t |-> NotRun] \in Seq(Int)
    BY <1>7 DEF NotRun
  <2> QED BY <1>1, <1>5, <2>1 DEF Entry
<1>9. /\ hist' \in Seq(Entry) /\ Len(hist') = Len(hist) + 1
      /\ DOMAIN hist' = 1 .. Len(hist) + 1
      /\ \A n \in 1 .. Len(hist) : hist'[n] = hist[n]
      /\ hist'[Len(hist) + 1] = h
  BY <1>2, <1>4, <1>8
<1>10. HistOK'
  <2>1. ASSUME NEW n \in DOMAIN hist' PROVE DOMAIN hist'[n].result = DOMAIN hist'[n].line
    <3>1. CASE n \in 1 .. Len(hist)
      BY <1>4, <1>9, <3>1, HistFacts
    <3>2. CASE n = Len(hist) + 1
      BY <1>8, <1>9, <3>2
    <3> QED BY <1>4, <1>9, <3>1, <3>2
  <2> QED BY <1>9, <2>1 DEF HistOK, HistForm
<1>11. HistGrows
  BY <1>4, <1>9 DEF HistGrows
<1>12. Place("fork", l)'
  BY <1>4, <1>6, <1>7, <1>8, <1>9
     DEF Place, Ahead, Parsing, Holding, Program, AtShell
<1>13. Tame("prompt", L, "fork", l)
  BY <1>6 DEF Tame, Program, Teller, MainLine, Parsing
<1>14. \A c \in Slot : KidOf(c, curenv) => Quiet(pc[c], loc[c])
  BY <1>2, KidsAreQuiet
<1>15. KidsFound(curenv)
  BY <1>14, QuietFits DEF KidsFound
<1> QED BY <1>2, <1>3, <1>6, <1>10, <1>11, <1>12, <1>13, <1>15, LocalWaits

-----------------------------------------------------------------------------
\* The clock and yield only choose who runs next.
LEMMA IdleWaits ==
  ASSUME WInv, SInv',
         UNCHANGED <<env_status, env_id, env_parent_id, envid_count,
                     waiting_return_value, pc, loc, hist>>
  PROVE  WInv'
<1>1. HistOK' /\ RegularSessions'
  BY DEF WInv, HistOK, RegularSessions
<1>2. Places'
  BY DEF WInv, Places, Place
<1>3. Owner'
  BY DEF WInv, Owner
<1>4. Kids' /\ Answered'
  BY DEF WInv, Kids, Answered, KidOf, Result
<1>5. SlotsOK'
  BY DEF WInv, SlotsOK
<1>6. NoEarlyReturn'
  BY DEF WInv, NoEarlyReturn
<1> QED BY <1>1, <1>2, <1>3, <1>4, <1>5, <1>6 DEF WInv

LEMMA Unmoved ==
  ASSUME HistOK, NEW p, NEW l, p = "none" \/ Place(p, l)
  PROVE  Tame(p, l, p, l) /\ OwnsLess(p, l, p, l)
<1>1. Ahead(p, l) => l.pos <= l.pos
  <2> SUFFICES ASSUME Ahead(p, l) PROVE l.pos \in Int
    OBVIOUS
  <2>1. p # "none"
    BY DEF Ahead, Parsing
  <2> QED BY <2>1 DEF Place
<1> QED BY <1>1 DEF Tame, OwnsLess

LEMMA BootWaits ==
  ASSUME WInv, SInv', BootShell \/ Clock \/ UNCHANGED allvars
  PROVE  WInv'
<1>1. UNCHANGED <<pc, loc, hist>>
  BY DEF BootShell, Clock, shellvars, allvars
<1>2. CASE StartFirst \/ Timer \/ UNCHANGED vars
  <2>1. UNCHANGED <<env_status, env_id, env_parent_id, envid_count, waiting_return_value>>
    BY <1>2 DEF StartFirst, Timer, vars, idvars, ipcvars
  <2> QED BY <1>1, <2>1, IdleWaits
<1>3. CASE envid_count = 0 /\ env_create(0, 1)
  <2>1. 0 \in Slot /\ TypeOK /\ TypeOK'
    BY KernelAssumption DEF Slot, WInv, SInv, IInv
  <2>2. /\ env_parent_id' = [env_parent_id EXCEPT ![0] = NoId]
        /\ env_id' = [env_id EXCEPT ![0] = <<1, 0>>]
        /\ env_status' = [env_status EXCEPT ![0] = "RUNNABLE"]
        /\ waiting_return_value' = waiting_return_value
    BY <1>3 DEF env_create, env_alloc, mkenvid, ipcvars
  <2>3. \A e \in Slot : env_status[e] = "FREE"
    <3>1. \A e \in Slot : env_status[e] # "FREE" => env_id[e][1] \in 1 .. 0
      BY <1>3 DEF WInv, SInv, IInv, LiveFields
    <3> QED BY <3>1
  <2>4. /\ env_parent_id'[0] = NoId /\ env_id'[0] = <<1, 0>> /\ env_status'[0] = "RUNNABLE"
        /\ \A e \in Slot \ {0} : env_status'[e] = "FREE"
    BY <2>1, <2>2, <2>3 DEF TypeOK
  <2>5. \A c, e \in Slot : ~KidOf(c, e)'
    <3>1. NoId # <<1, 0>>
      BY DEF NoId
    <3> QED BY <2>4, <3>1 DEF KidOf
  <2>6. KidsOld /\ OthersStay(0) /\ FlagsFair(0) /\ KidsFound(0)
    BY <1>1, <2>2, <2>3, <2>5 DEF KidsOld, OthersStay, FlagsFair, KidsFound, KidOf
  <2>7. \A e \in Slot : ~waiting_return_value[e] /\ (e # 0 => pc[e] = "none")
    BY <2>3 DEF WInv, SInv, IInv, WaitFlags, SlotsOK
  <2>8. SlotsOK'
    <3>1. NoId[1] < <<1, 0>>[1]
      BY DEF NoId
    <3> QED BY <1>1, <2>2, <2>4, <2>7, <3>1 DEF SlotsOK
  <2>9. pc[0] = "none" \/ Place(pc[0], loc[0])
    BY <2>1 DEF WInv, Places
  <2>10. Tame(pc[0], loc[0], pc'[0], loc'[0]) /\ OwnsLess(pc[0], loc[0], pc'[0], loc'[0])
    BY <1>1, <2>9, Unmoved DEF WInv
  <2>11. HistOK' /\ HistGrows /\ Len(hist') = Len(hist)
    BY <1>1, HistFacts DEF WInv, HistOK, HistGrows
  <2>12. Lands(0)
    <3>1. pc[0] \in {"prompt", "none"}
      BY <2>1, <2>3 DEF WInv, SlotsOK
    <3>2. pc[0] # "none" => Place(pc[0], loc[0])'
      BY <1>1, <2>9 DEF Place
    <3> QED BY <1>1, <3>1, <3>2 DEF Lands, Place
  <2> QED BY <1>1, <2>1, <2>6, <2>8, <2>10, <2>11, <2>12, WaitersKept
<1> QED BY <1>2, <1>3 DEF BootShell, Clock, allvars

-----------------------------------------------------------------------------
\* The blocking receives: the process stops where the child that it has just
\* made, and no other, needs it.
LEMMA RecvWaits ==
  ASSUME WInv, SInv', RecvCondition \/ RecvResult
  PROVE  WInv'
<1>1. PICK p \in {"recvcond", "recv", "spawned"} : At(p)
  BY DEF RecvCondition, RecvResult
<1>2. PICK x, l, q : /\ x = curenv /\ l = L
                     /\ q = IF p = "recvcond" THEN "cond" ELSE IF l.flag THEN "forward" ELSE "after"
  OBVIOUS
<1>3. /\ x \in Slot /\ env_status[x] = "RUNNABLE" /\ pc[x] = p /\ loc[x] = l
      /\ Place(p, l) /\ DOMAIN pc = Slot
  BY <1>1, <1>2, WaitMover
<1>4. /\ pc' = [pc EXCEPT ![x] = q] /\ sys_recv_return_value /\ UNCHANGED <<loc, hist>>
  BY <1>1, <1>2, <1>3 DEF RecvCondition, RecvResult, Goto, At
<1>5. /\ waiting_return_value' = [waiting_return_value EXCEPT ![x] = TRUE]
      /\ env_status' = [env_status EXCEPT ![x] = "NOT_RUNNABLE"]
      /\ UNCHANGED <<env_id, env_parent_id, envid_count>>
  BY <1>2, <1>4 DEF sys_recv_return_value, Block, idvars
<1>6. /\ waiting_return_value'[x] /\ env_status'[x] = "NOT_RUNNABLE"
      /\ \A e \in Slot \ {x} : /\ waiting_return_value'[e] = waiting_return_value[e]
                               /\ env_status'[e] = env_status[e]
      /\ pc'[x] = q /\ \A e \in Slot \ {x} : pc'[e] = pc[e]
  BY <1>3, <1>4, <1>5 DEF WInv, SInv, IInv, TypeOK
<1>7. HistOK' /\ HistGrows /\ Len(hist') = Len(hist)
  BY <1>4, HistFacts DEF WInv, HistOK, HistGrows
<1>8. SlotsOK'
  BY <1>2, <1>3, <1>5, <1>6 DEF WInv, SlotsOK
<1>9. OthersStay(x) /\ FlagsFair(x)
  BY <1>4, <1>6 DEF OthersStay, FlagsFair
<1>10. KidsOld
  BY <1>3, <1>5, <1>6 DEF KidsOld, KidOf
<1>11. Tame(p, l, q, l) /\ OwnsLess(p, l, q, l)
  <2>1. CASE p = "recvcond"
    <3>1. q = "cond" /\ l.pos \in Int
      BY <1>2, <1>3, <2>1 DEF Place, Ahead, Parsing
    <3> QED BY <2>1, <3>1 DEF Tame, OwnsLess, Program, Teller, MainLine, Ahead, Parsing, Holding
  <2>2. CASE p # "recvcond"
    BY <1>1, <1>2, <2>2
       DEF Tame, OwnsLess, Program, Teller, MainLine, Ahead, Parsing, Holding
  <2> QED BY <2>1, <2>2
<1>12. Place(q, l) /\ ~AtShell(q, l)
  <2>1. CASE p = "recvcond"
    BY <1>2, <1>3, <2>1 DEF Place, Ahead, Parsing, Holding, Program, AtShell
  <2>2. CASE p # "recvcond"
    BY <1>1, <1>2, <1>3, <2>2 DEF Place, Ahead, Parsing, Holding, Program, AtShell
  <2> QED BY <2>1, <2>2
<1>13. Lands(x)
  <2>1. Place(q, l)'
    BY <1>7, <1>12, PlaceStays DEF WInv
  <2>2. q \notin {"none", "return"}
    BY <1>2
  <2> QED BY <1>3, <1>4, <1>6, <1>12, <2>1, <2>2 DEF Lands, Place
<1>14. KidsFound(x)
  <2> SUFFICES ASSUME NEW c \in Slot, KidOf(c, x)
               PROVE  KidFits(pc[c], loc[c], env_id[c], q, l, TRUE)
    BY <1>3, <1>4, <1>6, Zenon DEF KidsFound, KidFits
  <2>1. KidFits(pc[c], loc[c], env_id[c], p, l, waiting_return_value[x])
    BY <1>3 DEF WInv, Kids
  <2> QED BY <1>1, <1>2, <2>1 DEF KidFits
<1> QED BY <1>3, <1>4, <1>6, <1>7, <1>8, <1>9, <1>10, <1>11, <1>13, <1>14, WaitersKept

\* A value sent to the parent.  The sender is the one child that the parent
\* waits for, and has its say only once.
LEMMA SendWaits ==
  ASSUME WInv, SInv', RunNothing \/ ForwardResult \/ SendResult
  PROVE  WInv'
<1>1. PICK p \in {"run", "forward", "return"} : At(p) /\ (p = "run" => L.argc = 0)
  BY DEF RunNothing, ForwardResult, SendResult
<1>2. PICK x, l : x = curenv /\ l = L
  OBVIOUS
<1>3. /\ x \in Slot /\ env_status[x] = "RUNNABLE" /\ pc[x] = p /\ loc[x] = l
      /\ Place(p, l) /\ DOMAIN pc = Slot /\ ~waiting_return_value[x]
  BY <1>1, <1>2, WaitMover
<1>4. PICK q : /\ pc' = [pc EXCEPT ![x] = q]
               /\ q \in {"exit", "done"} \/ (p = "forward" /\ q = "after")
  BY <1>1, <1>2, <1>3 DEF RunNothing, ForwardResult, SendResult, Goto, At
<1>5. UNCHANGED <<loc, hist>> /\ \E v : SendToParent(v)
  BY DEF RunNothing, ForwardResult, SendResult
<1>6. pc'[x] = q /\ \A e \in Slot \ {x} : pc'[e] = pc[e]
  BY <1>3, <1>4
<1>7. HistOK' /\ HistGrows /\ Len(hist') = Len(hist)
  BY <1>5, HistFacts DEF WInv, HistOK, HistGrows
<1>8. Tame(p, l, q, l) /\ OwnsLess(p, l, q, l) /\ Place(q, l) /\ ~AtShell(q, l)
  <2>1. CASE q \in {"exit", "done"}
    BY <1>1, <1>3, <2>1, Leaving
  <2>2. CASE p = "forward" /\ q = "after"
    BY <1>3, <2>2
       DEF Tame, OwnsLess, Program, Teller, MainLine, Ahead, Parsing, Holding, Place, AtShell
  <2> QED BY <1>4, <2>1, <2>2
<1>9. Lands(x)
  <2>1. Place(q, l)'
    BY <1>7, <1>8, PlaceStays DEF WInv
  <2>2. q = "after" => Result(l) # Started
    BY <1>3, <1>4 DEF WInv, NoEarlyReturn, Result
  <2>3. q \notin {"none", "return", "forward"}
    BY <1>4
  <2> QED BY <1>3, <1>5, <1>6, <1>8, <2>1, <2>2, <2>3 DEF Lands, Place, Result
<1>10. Quiet(q, l)
  BY <1>4 DEF Quiet, Program, Teller, MainLine, Parsing
<1>11. KidsFound(x)
  <2>1. \A c \in Slot : KidOf(c, x) => Quiet(pc[c], loc[c])
    BY <1>1, <1>2, KidsAreQuiet
  <2> QED BY <2>1, QuietFits DEF KidsFound
<1>12. OthersStay(x)
  BY <1>5, <1>6 DEF OthersStay
<1>13. CASE UNCHANGED vars
  <2>1. UNCHANGED <<env_status, env_id, env_parent_id, envid_count, waiting_return_value>>
    BY <1>13 DEF vars, idvars, ipcvars
  <2>2. KidsOld /\ FlagsFair(x)
    BY <2>1 DEF KidsOld, KidOf, FlagsFair
  <2>3. SlotsOK'
    BY <1>3, <1>6, <2>1 DEF WInv, SlotsOK
  <2> QED BY <1>3, <1>5, <1>6, <1>7, <1>8, <1>9, <1>11, <1>12, <2>2, <2>3, WaitersKept
<1>14. CASE \E v : sys_send_return_value(env_parent_id[curenv], v)
  <2>1. PICK e : e = ENVX(env_parent_id[x])
    OBVIOUS
  <2>2. /\ Valid(env_parent_id[x]) /\ waiting_return_value[e]
        /\ waiting_return_value' = [waiting_return_value EXCEPT ![e] = FALSE]
        /\ env_status' = [env_status EXCEPT ![e] = "RUNNABLE"]
        /\ UNCHANGED <<env_id, env_parent_id, envid_count>>
    BY <1>2, <1>14, <2>1 DEF sys_send_return_value, EndWait, Wake, idvars
  <2>3. e \in Slot /\ KidOf(x, e) /\ e # x
    <3>1. e \in Slot
      BY <1>3, <2>1 DEF WInv, SInv, IInv, TypeOK, EnvId, ENVX
    <3> QED BY <1>3, <2>1, <2>2, <3>1 DEF Valid, KidOf
  <2>4. /\ ~waiting_return_value'[e] /\ env_status'[e] = "RUNNABLE"
        /\ \A f \in Slot \ {e} : /\ waiting_return_value'[f] = waiting_return_value[f]
                                 /\ env_status'[f] = env_status[f]
    BY <2>2, <2>3 DEF WInv, SInv, IInv, TypeOK
  <2>5. env_status[e] = "NOT_RUNNABLE" /\ pc[e] \in {"cond", "forward", "after"}
    BY <2>2, <2>3 DEF WInv, SlotsOK, SInv, IInv, WaitFlags
  <2>6. SlotsOK'
    BY <1>3, <1>6, <2>2, <2>3, <2>4, <2>5 DEF WInv, SlotsOK
  <2>7. KidsOld
    BY <2>2, <2>3, <2>4, <2>5 DEF KidsOld, KidOf
  <2>8. KidFits(p, l, env_id[x], pc[e], loc[e], TRUE)
    BY <1>3, <2>2, <2>3, Zenon DEF WInv, Kids, KidFits
  <2>9. \/ p = "return" /\ Program(p)
        \/ Teller(p, l)
        \/ MainLine(p, l)
    <3>1. p = "forward" => l.flag
      BY <1>3 DEF Place
    <3>2. p = "run" /\ ~l.flag => ~Piped(l) /\ l.argc = 0
      BY <1>1, <1>2, <1>3 DEF Place
    <3> QED BY <1>1, <3>1, <3>2 DEF Program, Teller, MainLine
  <2>10. loc[e].kid = env_id[x] /\ pc[e] # "wait" /\ ~MainLine(p, l)
    BY <2>5, <2>8, <2>9 DEF KidFits
  <2>11. ASSUME NEW c \in Slot, KidOf(c, e), c # x PROVE Quiet(pc[c], loc[c])
    <3>1. KidFits(pc[c], loc[c], env_id[c], pc[e], loc[e], waiting_return_value[e])
      BY <2>3, <2>11 DEF WInv, Kids
    <3>2. env_id[c] # env_id[x]
      BY <1>3, <2>3, <2>11 DEF KidOf, WInv, SInv, IInv, LiveFields
    <3> QED BY <2>10, <3>1, <3>2 DEF KidFits, Quiet
  <2>12. pc[e] \in {"forward", "after"} => Result(loc[e]) # Started
    <3> SUFFICES ASSUME pc[e] \in {"forward", "after"} PROVE Result(loc[e]) # Started
      OBVIOUS
    <3>1. p = "return" /\ Program(p)
      BY <2>8, <2>9, <2>10 DEF KidFits
    <3>2. l.n = loc[e].n /\ l.word = loc[e].word
      BY <2>8, <3>1 DEF KidFits
    <3>3. Result(l) # Started
      BY <1>3, <2>3, <3>1 DEF WInv, Answered
    <3> QED BY <3>2, <3>3 DEF Result
  <2>13. FlagsFair(x)
    BY <1>3, <1>5, <1>6, <1>10, <2>4, <2>11, <2>12 DEF FlagsFair
  <2> QED BY <1>3, <1>5, <1>6, <1>7, <1>8, <1>9, <1>11, <1>12, <2>6, <2>7, <2>13, WaitersKept
<1> QED BY <1>5, <1>13, <1>14 DEF SendToParent

-----------------------------------------------------------------------------
\* sys_exofork: the child has no program counter yet.
LEMMA ExoforkWaits ==
  ASSUME WInv, SInv', NEW e \in Slot, Exofork(e)
  PROVE  WInv'
<1>1. PICK x, l : x = curenv /\ l = L
  OBVIOUS
<1>2. /\ At("fork") /\ sys_exofork(e) /\ UNCHANGED <<loc, hist>>
      /\ pc' = [pc EXCEPT ![x] = "start"]
  BY <1>1 DEF Exofork, Goto
<1>3. /\ x \in Slot /\ env_status[x] = "RUNNABLE" /\ pc[x] = "fork" /\ loc[x] = l
      /\ Place("fork", l) /\ DOMAIN pc = Slot /\ ~waiting_return_value[x]
      /\ AtShell("fork", l) => x = 0
  BY <1>1, <1>2, WaitMover
<1>4. env_status[e] = "FREE" /\ e # x
  <2>1. env_free_list # <<>> /\ e = Head(env_free_list)
    BY <1>2 DEF sys_exofork, env_alloc, LIST_FIRST
  <2>2. /\ env_free_list \in Seq(Slot)
        /\ Lists(env_free_list, {y \in Slot : env_status[y] = "FREE"})
    BY DEF WInv, SInv, IInv, TypeOK, FreeListExact
  <2>3. e \in {y \in Slot : env_status[y] = "FREE"}
    BY <2>1, <2>2, TailLists
  <2> QED BY <1>3, <2>3
<1>5. PICK n : n = envid_count
  OBVIOUS
<1>6. /\ env_status' = [env_status EXCEPT ![e] = "NOT_RUNNABLE"]
      /\ env_id' = [env_id EXCEPT ![e] = <<n + 1, e>>]
      /\ env_parent_id' = [env_parent_id EXCEPT ![e] = env_id[x]]
      /\ envid_count' = n + 1 /\ waiting_return_value' = waiting_return_value
  BY <1>1, <1>2, <1>5 DEF sys_exofork, env_alloc, mkenvid, ipcvars
<1>7. /\ env_status'[e] = "NOT_RUNNABLE" /\ env_id'[e] = <<n + 1, e>>
      /\ env_parent_id'[e] = env_id[x]
      /\ \A f \in Slot \ {e} : /\ env_status'[f] = env_status[f] /\ env_id'[f] = env_id[f]
                               /\ env_parent_id'[f] = env_parent_id[f]
  BY <1>6 DEF WInv, SInv, IInv, TypeOK
<1>8. n \in Nat /\ n # 0 /\ env_id[x][1] <= n /\ env_id[x][1] \in Int
  <2>1. env_id[x][1] \in 1 .. n /\ n \in 0 .. MaxAlloc
    BY <1>3, <1>5 DEF WInv, SInv, IInv, LiveFields, TypeOK
  <2> QED BY <2>1, KernelAssumption
<1>9. pc[e] = "none" /\ ~waiting_return_value[e]
  BY <1>4, <1>5, <1>8 DEF WInv, SlotsOK, SInv, IInv, WaitFlags
<1>10. pc'[x] = "start" /\ \A f \in Slot \ {x} : pc'[f] = pc[f]
  BY <1>2, <1>3
<1>11. HistOK' /\ HistGrows /\ Len(hist') = Len(hist)
  BY <1>2, HistFacts DEF WInv, HistOK, HistGrows
<1>12. SlotsOK'
  <2>1. env_parent_id'[e][1] < env_id'[e][1]
    BY <1>7, <1>8
  <2> QED BY <1>3, <1>4, <1>5, <1>6, <1>7, <1>8, <1>9, <1>10, <2>1 DEF WInv, SlotsOK
<1>13. OthersStay(x) /\ FlagsFair(x)
  BY <1>2, <1>6, <1>10 DEF OthersStay, FlagsFair
<1>14. KidsOld
  <2> SUFFICES ASSUME NEW c \in Slot, NEW f \in Slot, KidOf(c, f)', pc'[c] # "none"
               PROVE  KidOf(c, f) /\ env_id'[c] = env_id[c]
    BY DEF KidsOld
  <2>1. c # e
    BY <1>4, <1>9, <1>10
  <2>2. /\ env_status[c] # "FREE" /\ env_parent_id[c] = env_id'[f] /\ env_id'[c] = env_id[c]
        /\ env_status'[f] # "FREE"
    BY <1>7, <2>1 DEF KidOf
  <2>3. f # e
    <3> SUFFICES ASSUME f = e PROVE FALSE
      OBVIOUS
    <3>1. env_parent_id[c][1] < env_id[c][1] /\ env_id[c][1] \in 1 .. n
      BY <1>5, <2>2 DEF WInv, SlotsOK, SInv, IInv, LiveFields
    <3>2. env_parent_id[c][1] = n + 1
      BY <1>7, <2>2
    <3> QED BY <1>8, <3>1, <3>2
  <2> QED BY <1>7, <2>2, <2>3 DEF KidOf
<1>15. Tame("fork", l, "start", l) /\ OwnsLess("fork", l, "start", l)
  <2>1. Ahead("fork", l) => l.pos \in Int
    BY <1>3 DEF Place
  <2> QED BY <2>1 DEF Tame, OwnsLess, Program, Teller, MainLine, Ahead, Parsing, Holding
<1>16. Place("start", l) /\ (AtShell("start", l) => x = 0)
  BY <1>3 DEF Place, Ahead, Parsing, Holding, Program, AtShell
<1>17. Lands(x)
  <2>1. Place("start", l)'
    BY <1>11, <1>16, PlaceStays DEF WInv
  <2> QED BY <1>2, <1>3, <1>10, <1>16, <2>1 DEF Lands, Place
<1>18. KidsFound(x)
  <2>1. \A c \in Slot : KidOf(c, x) => Quiet(pc[c], loc[c])
    BY <1>1, <1>2, KidsAreQuiet
  <2> QED BY <2>1, QuietFits DEF KidsFound
<1> QED BY <1>2, <1>3, <1>10, <1>11, <1>12, <1>13, <1>14, <1>15, <1>17, <1>18, WaitersKept

\* exit, and kill: whoever dies sends nothing any more.
LEMMA DestroyWaits ==
  ASSUME WInv, SInv', HistOK', HistGrows, Len(hist') = Len(hist),
         NEW p \in {"run", "exit"}, At(p), NEW s \in Slot, env_status[s] = "RUNNABLE",
         env_destroy(s), UNCHANGED loc,
         \/ s = curenv /\ pc' = [pc EXCEPT ![s] = "none"]
         \/ s # curenv /\ pc' = [pc EXCEPT ![s] = "none", ![curenv] = "exit"]
  PROVE  WInv'
<1>1. PICK x, l, q : x = curenv /\ l = L /\ q = pc'[x]
  OBVIOUS
<1>2. /\ x \in Slot /\ env_status[x] = "RUNNABLE" /\ pc[x] = p /\ loc[x] = l
      /\ Place(p, l) /\ DOMAIN pc = Slot /\ ~waiting_return_value[x]
  BY <1>1, WaitMover
<1>3. /\ q = "none" \/ (q = "exit" /\ s # x)
      /\ \A f \in Slot \ {x, s} : pc'[f] = pc[f]
  BY <1>1, <1>2
<1>4. /\ env_status' = [env_status EXCEPT ![s] = "FREE"]
      /\ UNCHANGED <<env_id, env_parent_id, envid_count, waiting_return_value>>
  BY DEF env_destroy, ipcvars
<1>5. env_status'[s] = "FREE" /\ \A f \in Slot \ {s} : env_status'[f] = env_status[f]
  BY <1>4 DEF WInv, SInv, IInv, TypeOK
<1>6. ~waiting_return_value[s]
  BY DEF WInv, SInv, IInv, WaitFlags
<1>7. pc'[s] = "none"
  BY <1>1, <1>2
<1>8. SlotsOK'
  BY <1>1, <1>2, <1>3, <1>4, <1>5, <1>6, <1>7 DEF WInv, SlotsOK
<1>9. OthersStay(x) /\ FlagsFair(x)
  BY <1>3, <1>4, <1>5, <1>7 DEF OthersStay, FlagsFair
<1>10. KidsOld
  BY <1>4, <1>5 DEF KidsOld, KidOf
<1>11. Tame(p, l, q, l) /\ OwnsLess(p, l, q, l)
  BY <1>3 DEF Tame, OwnsLess, Program, Teller, MainLine, Ahead, Parsing, Holding
<1>12. Lands(x)
  <2>1. CASE q = "none"
    BY <1>1, <2>1 DEF Lands
  <2>2. CASE q = "exit"
    <3>1. Place(q, l) /\ ~AtShell(q, l)
      BY <1>2, <2>2, Leaving
    <3>2. Place(q, l)'
      BY <3>1, PlaceStays DEF WInv
    <3> QED BY <1>1, <1>2, <2>2, <3>1, <3>2 DEF Lands, Place
  <2> QED BY <1>3, <2>1, <2>2
<1>13. KidsFound(x)
  <2>1. \A c \in Slot : KidOf(c, x) => Quiet(pc[c], loc[c])
    BY <1>1, KidsAreQuiet
  <2> QED BY <2>1, QuietFits DEF KidsFound
<1> QED BY <1>1, <1>2, <1>8, <1>9, <1>10, <1>11, <1>12, <1>13, WaitersKept

LEMMA ExitWaits ==
  ASSUME WInv, SInv', Exit
  PROVE  WInv'
<1>1. /\ At("exit") /\ sys_env_destroy(curenv) /\ UNCHANGED <<loc, hist>>
      /\ pc' = [pc EXCEPT ![curenv] = "none"]
  BY DEF Exit, Goto
<1>2. curenv \in Slot /\ env_status[curenv] = "RUNNABLE" /\ env_destroy(curenv)
  BY <1>1, WaitMover DEF sys_env_destroy
<1>3. HistOK' /\ HistGrows /\ Len(hist') = Len(hist)
  BY <1>1, HistFacts DEF WInv, HistOK, HistGrows
<1>4. "exit" \in {"run", "exit"}
  OBVIOUS
<1> QED BY <1>1, <1>2, <1>3, <1>4, DestroyWaits

LEMMA BuiltinWaits ==
  ASSUME WInv, SInv', RunBuiltin
  PROVE  WInv'
<1>1. At("run") /\ L.argc # 0 /\ hist' = Record(0)
  BY DEF RunBuiltin
<1>2. Place("run", L) /\ Holding("run", L) /\ GoodLocals(L)
  BY <1>1, RunFacts
<1>3. curenv \in Slot /\ L = loc[curenv] /\ DOMAIN loc = Slot
  BY <1>1, WaitMover
<1>4. 0 \in Int /\ 0 # Started
  BY DEF Started
<1>5. CASE Goto("exit") /\ UNCHANGED <<vars, loc>>
  <2>1. /\ Place("exit", L) /\ Tame("run", L, "exit", L) /\ OwnsLess("run", L, "exit", L)
        /\ ~AtShell("exit", L)
    BY <1>2, Leaving
  <2> QED BY <1>1, <1>2, <1>4, <1>5, <2>1, RecordMove DEF Goto
<1>6. CASE /\ Goto("wait") /\ UNCHANGED vars
           /\ loc' = [loc EXCEPT ![curenv].kid = jobs[1].envid, ![curenv].op = "fg"]
  <2>1. PICK l : l = [L EXCEPT !.kid = jobs[1].envid, !.op = "fg"]
    OBVIOUS
  <2>2. l.n = L.n /\ l.line = L.line /\ l.op = "fg" /\ l.word = L.word
    BY <1>2, <2>1 DEF GoodLocals, NoLocals
  <2>3. loc' = [loc EXCEPT ![curenv] = l]
    BY <1>3, <1>6, <2>1
  <2>4. /\ Place("wait", l) /\ Tame("run", L, "wait", l) /\ OwnsLess("run", L, "wait", l)
        /\ ~AtShell("wait", l)
    BY <1>2, <2>2, Leaving
  <2> QED BY <1>1, <1>2, <1>4, <1>6, <2>2, <2>3, <2>4, RecordMove DEF Goto
<1>7. CASE env_kill_job(1) /\ UNCHANGED loc /\ ~(Goto("exit") /\ UNCHANGED <<vars, loc>>)
  <2>1. PICK s : s = ENVX(jobs[1].envid)
    OBVIOUS
  <2>2. /\ 1 \in DOMAIN jobs /\ env_status[s] = "RUNNABLE" /\ env_destroy(s)
        /\ pc' = IF s = curenv THEN [pc EXCEPT ![s] = "none"]
                 ELSE [pc EXCEPT ![s] = "none", ![curenv] = "exit"]
    BY <1>7, <2>1 DEF env_kill_job
  <2>3. s \in Slot
    BY <2>1, <2>2 DEF WInv, SInv, IdsIssued, Issued, EnvId, ENVX
  <2>4. HistOK' /\ HistGrows /\ Len(hist') = Len(hist)
    BY <1>1, <1>2, <1>4, RecordGrows DEF WInv
  <2>5. "run" \in {"run", "exit"}
    OBVIOUS
  <2> QED BY <1>1, <1>7, <2>2, <2>3, <2>4, <2>5, DestroyWaits
<1> QED BY <1>5, <1>6, <1>7 DEF RunBuiltin

-----------------------------------------------------------------------------
\* What fork and spawn do with the part of the line that the caller had: it
\* is split between the caller (at P with locals m) and the child (at C with
\* locals k), and the caller goes where the child needs it.
Split(l, id, P, m, C, k) ==
  /\ Place(P, m) /\ Place(C, k)
  /\ ~AtShell(C, k) /\ (AtShell(P, m) => AtShell("start", l))
  /\ Tame("start", l, P, m)
  /\ OwnsLess("start", l, P, m) /\ OwnsLess("start", l, C, k)
  /\ Apart(P, m, C, k) /\ Apart(C, k, P, m)
  /\ \A w : KidFits(C, k, id, P, m, w)
  /\ P \in {"spawned", "wait", "recvcond", "parse", "run"}
  /\ C \in {"main", "parse", "run"}

LEMMA ForkSplits ==
  ASSUME WInv, At("start"), NEW id
  PROVE  Split(L, id, ParentPc, ParentLocals(id), ChildPc, ChildLocals)
<1>1. PICK l : l = L
  OBVIOUS
<1>2. GoodLocals(l) /\ Place("start", l)
  BY <1>1, WaitMover
<1>3. /\ l.n \in 0 .. Len(hist) /\ l.n # 0 /\ l.line = hist[l.n].line
      /\ l.op \in OperatorTokens \cup {"spawn", "line"}
      /\ AtShell("start", l) => l.n = Len(hist)
  BY <1>2 DEF Place
<1>4. Len(l.line) \in Nat \ {0} /\ DOMAIN l.line = 1 .. Len(l.line)
  BY <1>3, HistFacts DEF WInv, HistOK
<1>5. CASE l.op = "spawn"
  <2>1. PICK m : m = [l EXCEPT !.kid = id]
    OBVIOUS
  <2>2. /\ m.n = l.n /\ m.line = l.line /\ m.word = l.word /\ m.flag = l.flag /\ m.kid = id
        /\ m.op = l.op
    BY <1>2, <2>1 DEF GoodLocals, NoLocals
  <2>3. /\ ParentPc = "spawned" /\ ChildPc = "main" /\ ParentLocals(id) = m /\ ChildLocals = l
    BY <1>1, <1>5, <2>1 DEF ParentPc, ChildPc, ParentLocals, ChildLocals
  <2>4. l.word \in DOMAIN l.line
    BY <1>2, <1>5 DEF Place, Holding
  <2>5. Place("spawned", m) /\ Place("main", l)
    BY <1>3, <2>2, <2>4 DEF Place, Ahead, Parsing, Holding, Program, AtShell
  <2>6. Tame("start", l, "spawned", m) /\ OwnsLess("start", l, "spawned", m)
        /\ OwnsLess("start", l, "main", l)
    BY <1>5, <2>2 DEF Tame, OwnsLess, Program, Teller, MainLine, Ahead, Parsing, Holding
  <2>7. /\ Apart("spawned", m, "main", l) /\ Apart("main", l, "spawned", m)
        /\ \A w : KidFits("main", l, id, "spawned", m, w)
        /\ ~AtShell("main", l) /\ ~AtShell("spawned", m)
    BY <2>2 DEF Apart, KidFits, AtShell, Program, Teller, MainLine, Ahead, Parsing, Holding
  <2> QED BY <1>1, <2>3, <2>5, <2>6, <2>7 DEF Split
<1>6. CASE l.op = "line"
  <2>1. PICK m : m = [l EXCEPT !.kid = id]
    OBVIOUS
  <2>2. /\ m.n = l.n /\ m.line = l.line /\ m.kid = id /\ m.op = l.op
    BY <1>2, <2>1 DEF GoodLocals, NoLocals
  <2>3. /\ ParentPc = "wait" /\ ChildPc = "parse" /\ ParentLocals(id) = m /\ ChildLocals = l
    BY <1>1, <1>6, <2>1 DEF ParentPc, ChildPc, ParentLocals, ChildLocals
  <2>4. l.pos = 1 /\ l.argc = 0 /\ AtShell("start", l)
    BY <1>2, <1>6 DEF Place, AtShell
  <2>5. ~Piped(l)
    BY <2>4 DEF Piped
  <2>6. Place("wait", m)
    BY <1>3, <1>6, <2>2, <2>4 DEF Place, Ahead, Parsing, Holding, Program, AtShell
  <2>7. Place("parse", l)
    BY <1>3, <1>4, <1>6, <2>4, <2>5 DEF Place, Ahead, Parsing, Holding, Program, AtShell
  <2>8. Tame("start", l, "wait", m) /\ OwnsLess("start", l, "wait", m)
        /\ OwnsLess("start", l, "parse", l)
    BY <1>6, <2>2, <2>4
       DEF Tame, OwnsLess, Program, Teller, MainLine, Ahead, Parsing, Holding
  <2>9. /\ Apart("wait", m, "parse", l) /\ Apart("parse", l, "wait", m)
        /\ \A w : KidFits("parse", l, id, "wait", m, w) /\ ~AtShell("parse", l)
    BY <1>6, <2>2, <2>4
       DEF Apart, KidFits, AtShell, Program, Teller, MainLine, Ahead, Parsing, Holding
  <2> QED BY <1>1, <2>3, <2>4, <2>6, <2>7, <2>8, <2>9 DEF Split
<1>7. ASSUME l.op \in OperatorTokens
      PROVE  /\ l.op \notin {"spawn", "line"}
             /\ l.pos \in 1 .. Len(l.line) + 1 /\ l.pos # 1 /\ l.op = l.line[l.pos - 1]
             /\ l.argc # 0 /\ (l.flag <=> l.op \in {"a", "o"})
             /\ l.word \in DOMAIN l.line /\ l.word < l.pos
  <2>1. l.op \notin {"spawn", "line"}
    BY <1>7 DEF OperatorTokens
  <2>2. Parsing("start", l)
    BY <2>1 DEF Parsing
  <2>3. /\ l.pos \in 1 .. Len(l.line) + 1 /\ l.pos # 1 /\ l.op = l.line[l.pos - 1]
        /\ l.argc # 0 /\ (l.flag <=> l.op \in {"a", "o"})
    BY <1>2, <2>2 DEF Place, Ahead
  <2>4. Holding("start", l) /\ Ahead("start", l)
    BY <2>2, <2>3 DEF Holding, Ahead
  <2> QED BY <1>2, <2>1, <2>3, <2>4 DEF Place
<1>8. CASE l.op \in {"a", "o"}
  <2>1. PICK m, k : m = [l EXCEPT !.kid = id] /\ k = [l EXCEPT !.argc = IF l.mark THEN @ ELSE 0]
    OBVIOUS
  <2>2. /\ m.n = l.n /\ m.line = l.line /\ m.pos = l.pos /\ m.kid = id /\ m.op = l.op
        /\ k.n = l.n /\ k.line = l.line /\ k.word = l.word /\ k.flag = l.flag /\ k.pos = l.pos
        /\ m.word = l.word
    BY <1>2, <2>1 DEF GoodLocals, NoLocals
  <2>3. /\ ParentPc = "recvcond" /\ ChildPc = "run" /\ ParentLocals(id) = m /\ ChildLocals = k
    BY <1>1, <1>8, <2>1 DEF ParentPc, ChildPc, ParentLocals, ChildLocals
  <2>4. /\ l.pos \in 1 .. Len(l.line) + 1 /\ l.pos # 1 /\ l.op = l.line[l.pos - 1]
        /\ l.argc # 0 /\ l.flag /\ l.word \in DOMAIN l.line /\ l.word < l.pos
    BY <1>7, <1>8 DEF OperatorTokens
  <2>5. Place("recvcond", m)
    BY <1>3, <1>8, <2>2, <2>4 DEF Place, Ahead, Parsing, Holding, Program, AtShell
  <2>6. Place("run", k)
    BY <1>3, <2>2, <2>4 DEF Place, Ahead, Parsing, Holding, Program, AtShell
  <2>7. Piped(m) <=> Piped(l)
    BY <2>2 DEF Piped
  <2>8. l.pos <= m.pos
    BY <1>4, <2>2, <2>4
  <2>9. Tame("start", l, "recvcond", m) /\ OwnsLess("start", l, "recvcond", m)
        /\ OwnsLess("start", l, "run", k)
    BY <1>8, <2>2, <2>4, <2>7, <2>8
       DEF Tame, OwnsLess, Program, Teller, MainLine, Ahead, Parsing, Holding
  <2>10. /\ Apart("recvcond", m, "run", k) /\ Apart("run", k, "recvcond", m)
         /\ \A w : KidFits("run", k, id, "recvcond", m, w)
         /\ ~AtShell("run", k) /\ ~AtShell("recvcond", m)
    BY <2>2, <2>4
       DEF Apart, KidFits, AtShell, Program, Teller, MainLine, Ahead, Parsing, Holding
  <2> QED BY <1>1, <2>3, <2>5, <2>6, <2>9, <2>10 DEF Split
<1>9. CASE l.op = ";"
  <2>1. PICK m : m = [l EXCEPT !.kid = id]
    OBVIOUS
  <2>2. m.n = l.n /\ m.line = l.line /\ m.pos = l.pos /\ m.op = l.op
    BY <1>2, <2>1 DEF GoodLocals, NoLocals
  <2>3. /\ ParentPc = "wait" /\ ChildPc = "run" /\ ParentLocals(id) = m /\ ChildLocals = l
    BY <1>1, <1>9, <2>1 DEF ParentPc, ChildPc, ParentLocals, ChildLocals
  <2>4. /\ l.pos \in 1 .. Len(l.line) + 1 /\ l.pos # 1 /\ l.op = l.line[l.pos - 1]
        /\ l.argc # 0 /\ ~l.flag /\ l.word \in DOMAIN l.line /\ l.word < l.pos
    BY <1>7, <1>9 DEF OperatorTokens
  <2>5. Place("wait", m)
    BY <1>3, <1>9, <2>2, <2>4 DEF Place, Ahead, Parsing, Holding, Program, AtShell
  <2>6. Place("run", l)
    BY <1>3, <2>4 DEF Place, Ahead, Parsing, Holding, Program, AtShell
  <2>7. Piped(m) <=> Piped(l)
    BY <2>2 DEF Piped
  <2>8. l.pos <= m.pos
    BY <1>4, <2>2, <2>4
  <2>9. Tame("start", l, "wait", m) /\ OwnsLess("start", l, "wait", m)
        /\ OwnsLess("start", l, "run", l)
    BY <1>9, <2>2, <2>4, <2>7, <2>8
       DEF Tame, OwnsLess, Program, Teller, MainLine, Ahead, Parsing, Holding
  <2>10. /\ Apart("wait", m, "run", l) /\ Apart("run", l, "wait", m)
         /\ \A w : KidFits("run", l, id, "wait", m, w)
         /\ ~AtShell("run", l) /\ ~AtShell("wait", m)
    BY <1>9, <2>2, <2>4
       DEF Apart, KidFits, AtShell, Program, Teller, MainLine, Ahead, Parsing, Holding
  <2> QED BY <1>1, <2>3, <2>5, <2>6, <2>9, <2>10 DEF Split
<1>10. CASE l.op = "&"
  <2>1. PICK m : m = [l EXCEPT !.argc = 0, !.mark = TRUE]
    OBVIOUS
  <2>2. /\ m.n = l.n /\ m.line = l.line /\ m.pos = l.pos /\ m.op = l.op /\ m.argc = 0
        /\ m.mark = TRUE
    BY <1>2, <2>1 DEF GoodLocals, NoLocals
  <2>3. /\ ParentPc = "parse" /\ ChildPc = "run" /\ ParentLocals(id) = m /\ ChildLocals = l
    BY <1>1, <1>10, <2>1 DEF ParentPc, ChildPc, ParentLocals, ChildLocals, Fresh
  <2>4. /\ l.pos \in 1 .. Len(l.line) + 1 /\ l.pos # 1 /\ l.op = l.line[l.pos - 1]
        /\ l.argc # 0 /\ ~l.flag /\ l.word \in DOMAIN l.line /\ l.word < l.pos
        /\ l.op \in OperatorTokens
    BY <1>7, <1>10 DEF OperatorTokens
  <2>5. Place("parse", m)
    BY <1>3, <2>2, <2>4 DEF Place, Ahead, Parsing, Holding, Program, AtShell
  <2>6. Place("run", l)
    BY <1>3, <2>4 DEF Place, Ahead, Parsing, Holding, Program, AtShell
  <2>7. Piped(m) <=> Piped(l)
    BY <2>2 DEF Piped
  <2>8. l.pos <= m.pos
    BY <1>4, <2>2, <2>4
  <2>9. Tame("start", l, "parse", m) /\ OwnsLess("start", l, "parse", m)
        /\ OwnsLess("start", l, "run", l)
    BY <1>10, <2>2, <2>4, <2>7, <2>8
       DEF Tame, OwnsLess, Program, Teller, MainLine, Ahead, Parsing, Holding
  <2>10. /\ Apart("parse", m, "run", l) /\ Apart("run", l, "parse", m)
         /\ \A w : KidFits("run", l, id, "parse", m, w)
         /\ ~AtShell("run", l) /\ ~AtShell("parse", m)
    BY <2>2, <2>4
       DEF Apart, KidFits, AtShell, Program, Teller, MainLine, Ahead, Parsing, Holding
  <2> QED BY <1>1, <2>3, <2>5, <2>6, <2>9, <2>10 DEF Split
<1>11. CASE l.op = "|"
  <2>1. PICK m, k : /\ m = [l EXCEPT !.rightpipe = id]
                    /\ k = [[l EXCEPT !.argc = 0, !.mark = TRUE] EXCEPT !.rightpipe = NoId]
    OBVIOUS
  <2>2. /\ m.n = l.n /\ m.line = l.line /\ m.word = l.word /\ m.argc = l.argc /\ m.flag = l.flag
        /\ k.n = l.n /\ k.line = l.line /\ k.pos = l.pos /\ k.argc = 0 /\ k.mark = TRUE
    BY <1>2, <2>1 DEF GoodLocals, NoLocals
  <2>3. /\ ParentPc = "run" /\ ChildPc = "parse" /\ ParentLocals(id) = m /\ ChildLocals = k
    BY <1>1, <1>11, <2>1 DEF ParentPc, ChildPc, ParentLocals, ChildLocals, Fresh
  <2>4. /\ l.pos \in 1 .. Len(l.line) + 1 /\ l.pos # 1 /\ l.op = l.line[l.pos - 1]
        /\ l.argc # 0 /\ ~l.flag /\ l.word \in DOMAIN l.line /\ l.word < l.pos
        /\ l.op \in OperatorTokens
    BY <1>7, <1>11 DEF OperatorTokens
  <2>5. Place("run", m)
    BY <1>3, <2>2, <2>4 DEF Place, Ahead, Parsing, Holding, Program, AtShell
  <2>6. Place("parse", k)
    BY <1>3, <2>2, <2>4 DEF Place, Ahead, Parsing, Holding, Program, AtShell
  <2>7. Piped(k)
    <3>1. k.pos - 1 \in 1 .. k.pos - 1 /\ k.line[k.pos - 1] = "|"
      BY <1>4, <1>11, <2>2, <2>4
    <3> QED BY <3>1 DEF Piped
  <2>8. l.pos <= k.pos
    BY <1>4, <2>2, <2>4
  <2>9. Tame("start", l, "run", m) /\ OwnsLess("start", l, "run", m)
        /\ OwnsLess("start", l, "parse", k)
    BY <1>11, <2>2, <2>4, <2>8
       DEF Tame, OwnsLess, Program, Teller, MainLine, Ahead, Parsing, Holding
  <2>10. /\ Apart("run", m, "parse", k) /\ Apart("parse", k, "run", m)
         /\ \A w : KidFits("parse", k, id, "run", m, w)
         /\ ~AtShell("parse", k) /\ ~AtShell("run", m)
    BY <2>2, <2>4, <2>7
       DEF Apart, KidFits, AtShell, Program, Teller, MainLine, Ahead, Parsing, Holding
  <2> QED BY <1>1, <2>3, <2>5, <2>6, <2>9, <2>10 DEF Split
<1> QED BY <1>3, <1>5, <1>6, <1>8, <1>9, <1>10, <1>11 DEF OperatorTokens

\* A place is good as long as the lines typed stay the same.
LEMMA PlaceKept ==
  ASSUME HistOK, Len(hist') = Len(hist), NEW p, NEW l, Place(p, l),
         \A n \in 1 .. Len(hist) : hist'[n].line = hist[n].line
  PROVE  Place(p, l)'
<1>1. Len(hist) \in Nat
  BY HistFacts DEF HistOK
<1>2. l.n \in 0 .. Len(hist') /\ (AtShell(p, l) => l.n = Len(hist'))
  BY DEF Place
<1>3. p # "prompt" => l.n # 0 /\ l.line = hist'[l.n].line
  BY <1>1 DEF Place
<1> QED BY <1>2, <1>3 DEF Place

\* Only the result of the command that is spawned goes back to Started.
LEMMA StartRecords ==
  ASSUME HistOK, NEW l, Place("start", l),
         hist' = IF l.op = "spawn" THEN Put(l.n, l.word, Started) ELSE hist
  PROVE  /\ HistOK' /\ Len(hist') = Len(hist)
         /\ \A n \in 1 .. Len(hist) : hist'[n].line = hist[n].line
         /\ \A n \in 1 .. Len(hist) : \A j \in DOMAIN hist[n].line :
              ~(Holding("start", l) /\ n = l.n /\ j = l.word)
                => hist'[n].result[j] = hist[n].result[j]
<1>1. CASE l.op # "spawn"
  BY <1>1 DEF HistOK
<1>2. CASE l.op = "spawn"
  <2>1. Holding("start", l)
    BY <1>2 DEF Holding
  <2>2. l.n \in 1 .. Len(hist) /\ l.word \in DOMAIN hist[l.n].line
    BY <2>1, HasEntry
  <2>3. hist' = Put(l.n, l.word, Started) /\ Started \in Int
    BY <1>2 DEF Started
  <2>4. /\ HistOK' /\ Len(hist') = Len(hist)
        /\ \A n \in 1 .. Len(hist) : hist'[n].line = hist[n].line
        /\ \A n \in 1 .. Len(hist), j \in Int :
             n # l.n \/ (j # l.word /\ j \in DOMAIN hist[n].line)
               => hist'[n].result[j] = hist[n].result[j]
    BY <2>2, <2>3, RecordFacts
  <2>5. \A n \in 1 .. Len(hist) : \A j \in DOMAIN hist[n].line : j \in Int
    BY HistFacts DEF HistOK
  <2> QED BY <2>1, <2>4, <2>5
<1> QED BY <1>1, <1>2

\* The child starts: nobody else has its part of the line or its result.
LEMMA StartWaits ==
  ASSUME WInv, SInv', NEW e \in Slot, StartChild(e)
  PROVE  WInv'
<1>1. PICK x, l, id, P, m, C, k :
        /\ x = curenv /\ l = L /\ id = child[curenv]
        /\ P = ParentPc /\ m = ParentLocals(id) /\ C = ChildPc /\ k = ChildLocals
  OBVIOUS
<1>2. /\ At("start") /\ sys_set_env_status(e)
      /\ pc' = [pc EXCEPT ![e] = C, ![x] = P] /\ loc' = [loc EXCEPT ![e] = k, ![x] = m]
      /\ hist' = IF l.op = "spawn" THEN Put(l.n, l.word, Started) ELSE hist
  BY <1>1 DEF StartChild, Record, Put
<1>3. /\ x \in Slot /\ env_status[x] = "RUNNABLE" /\ pc[x] = "start" /\ loc[x] = l
      /\ Place("start", l) /\ DOMAIN pc = Slot /\ DOMAIN loc = Slot
      /\ ~waiting_return_value[x] /\ (AtShell("start", l) => x = 0)
  BY <1>1, <1>2, WaitMover
<1>4. Split(l, id, P, m, C, k)
  BY <1>1, <1>2, ForkSplits
<1>5. /\ id # NoId /\ e = ENVX(id) /\ env_status' = [env_status EXCEPT ![e] = "RUNNABLE"]
      /\ UNCHANGED <<env_id, env_parent_id, envid_count, waiting_return_value>>
  BY <1>1, <1>2 DEF sys_set_env_status, idvars, ipcvars
<1>6. /\ env_status[e] = "NOT_RUNNABLE" /\ env_id[e] = id /\ ~waiting_return_value[e]
      /\ env_parent_id[e] = env_id[x] /\ e # x
  BY <1>1, <1>3, <1>5 DEF WInv, SInv, IInv, ChildFresh
<1>7. pc[e] = "none"
  BY <1>6 DEF WInv, SlotsOK
<1>8. /\ pc'[x] = P /\ loc'[x] = m /\ pc'[e] = C /\ loc'[e] = k
      /\ \A f \in Slot \ {x, e} : pc'[f] = pc[f] /\ loc'[f] = loc[f]
  BY <1>2, <1>3, <1>6
<1>9. env_status'[e] = "RUNNABLE" /\ \A f \in Slot \ {e} : env_status'[f] = env_status[f]
  BY <1>5 DEF WInv, SInv, IInv, TypeOK
<1>10. \A c, z \in Slot : KidOf(c, z)' <=> KidOf(c, z)
  BY <1>5, <1>6, <1>9 DEF KidOf
<1>11. /\ HistOK' /\ Len(hist') = Len(hist)
       /\ \A n \in 1 .. Len(hist) : hist'[n].line = hist[n].line
       /\ \A n \in 1 .. Len(hist) : \A j \in DOMAIN hist[n].line :
            ~(Holding("start", l) /\ n = l.n /\ j = l.word)
              => hist'[n].result[j] = hist[n].result[j]
  BY <1>2, <1>3, StartRecords DEF WInv
<1>12. /\ P \in {"spawned", "wait", "recvcond", "parse", "run"} /\ C \in {"main", "parse", "run"}
  BY <1>4 DEF Split
<1>13. SlotsOK'
  BY <1>3, <1>5, <1>6, <1>8, <1>9, <1>12 DEF WInv, SlotsOK
<1>14. Places'
  <2>1. ASSUME NEW f \in Slot, f # x, f # e, pc'[f] # "none"
        PROVE  Place(pc[f], loc[f])' /\ (AtShell(pc'[f], loc'[f]) => f = 0)
    <3>1. PICK q, r : q = pc[f] /\ r = loc[f]
      OBVIOUS
    <3>2. pc'[f] = q /\ loc'[f] = r
      BY <1>8, <2>1, <3>1
    <3>3. Place(q, r) /\ (AtShell(q, r) => f = 0)
      BY <2>1, <3>1, <3>2 DEF WInv, Places
    <3>4. Place(q, r)'
      BY <1>11, <3>3, PlaceKept DEF WInv
    <3> QED BY <3>2, <3>3, <3>4 DEF Place
  <2>2. Place(P, m)' /\ Place(C, k)'
    BY <1>4, <1>11, PlaceKept DEF WInv, Split
  <2>3. (AtShell(P, m) => x = 0) /\ ~AtShell(C, k)
    BY <1>3, <1>4 DEF Split
  <2>4. Place(pc[x], loc[x])' /\ (AtShell(pc'[x], loc'[x]) => x = 0)
    BY <1>8, <2>2, <2>3 DEF Place
  <2>5. Place(pc[e], loc[e])' /\ (AtShell(pc'[e], loc'[e]) => e = 0)
    BY <1>8, <2>2, <2>3 DEF Place
  <2> QED BY <2>1, <2>4, <2>5 DEF Places
<1>15. Owner'
  <2>1. ASSUME NEW f \in Slot, f # x, f # e, NEW q, NEW n, OwnsLess("start", l, q, n), Place(q, n)
        PROVE  Apart(q, n, pc'[f], loc'[f]) /\ Apart(pc'[f], loc'[f], q, n)
    <3>1. PICK r, o : r = pc[f] /\ o = loc[f]
      OBVIOUS
    <3>2. pc'[f] = r /\ loc'[f] = o
      BY <1>8, <2>1, <3>1
    <3>3. CASE r = "none"
      BY <3>2, <3>3 DEF Apart, Ahead, Holding, Parsing
    <3>4. CASE r # "none"
      <4>1. Place(r, o)
        BY <3>1, <3>4 DEF WInv, Places
      <4>2. (Holding(r, o) => o.word \in Nat) /\ (Ahead(r, o) => o.pos \in Nat)
        BY <4>1, NumbersOf DEF WInv
      <4>3. Ahead("start", l) => l.pos \in Nat
        BY <1>3, NumbersOf DEF WInv
      <4>4. (Holding(q, n) => n.word \in Nat) /\ (Ahead(q, n) => n.pos \in Nat)
        BY <2>1, NumbersOf DEF WInv
      <4>5. Apart("start", l, r, o) /\ Apart(r, o, "start", l)
        BY <1>3, <2>1, <3>1 DEF WInv, Owner
      <4> QED BY <2>1, <3>2, <4>2, <4>3, <4>4, <4>5, StaysApart
    <3> QED BY <3>3, <3>4
  <2>2. \A f \in Slot \ {x, e} : /\ Apart(P, m, pc'[f], loc'[f]) /\ Apart(pc'[f], loc'[f], P, m)
                                 /\ Apart(C, k, pc'[f], loc'[f]) /\ Apart(pc'[f], loc'[f], C, k)
    BY <1>4, <2>1 DEF Split
  <2>3. Apart(P, m, C, k) /\ Apart(C, k, P, m)
    BY <1>4 DEF Split
  <2>4. \A f, g \in Slot \ {x, e} : f # g => Apart(pc'[f], loc'[f], pc'[g], loc'[g])
    BY <1>8 DEF WInv, Owner
  <2> QED BY <1>8, <2>2, <2>3, <2>4 DEF Owner
<1>16. Kids'
  <2> SUFFICES ASSUME NEW c \in Slot, NEW z \in Slot, KidOf(c, z)
               PROVE  KidFits(pc'[c], loc'[c], env_id[c], pc'[z], loc'[z],
                              waiting_return_value[z])
    BY <1>5, <1>10 DEF Kids
  <2>1. KidFits(pc[c], loc[c], env_id[c], pc[z], loc[z], waiting_return_value[z])
    BY DEF WInv, Kids
  <2>2. env_parent_id[c][1] < env_id[c][1] /\ env_id[c][1] \in Int /\ env_id[z][1] \in Int
        /\ env_parent_id[c] = env_id[z]
    BY DEF KidOf, WInv, SlotsOK, SInv, IInv, LiveFields
  <2>3. CASE c = e
    <3>1. z = x
      BY <1>3, <1>6, <2>3 DEF KidOf, WInv, SInv, IInv, LiveFields
    <3> QED BY <1>4, <1>6, <1>8, <2>3, <3>1 DEF Split
  <2>4. CASE c # e /\ z = e
    <3>1. Quiet(pc[c], loc[c])
      BY <1>6, <1>7, <2>1, <2>4 DEF KidFits, Quiet
    <3>2. c # x
      <4>1. env_id[x][1] < env_id[e][1] /\ env_id[e][1] \in Int /\ env_id[x][1] \in Int
        BY <1>3, <1>6 DEF WInv, SlotsOK, SInv, IInv, LiveFields
      <4> QED BY <2>2, <2>4, <4>1
    <3> QED BY <1>8, <2>4, <3>1, <3>2, QuietFits
  <2>5. CASE c # e /\ z = x
    <3>1. Quiet(pc[c], loc[c])
      BY <1>1, <1>2, <2>5, KidsAreQuiet
    <3>2. c # x
      BY <2>2, <2>5
    <3> QED BY <1>8, <2>5, <3>1, <3>2, QuietFits
  <2>6. CASE c = x /\ z # e
    <3>1. z # x
      BY <2>2, <2>6
    <3>2. Tame("start", l, P, m)
      BY <1>4 DEF Split
    <3> QED BY <1>3, <1>8, <2>1, <2>6, <3>1, <3>2 DEF KidFits, Tame
  <2>7. CASE c \notin {x, e} /\ z \notin {x, e}
    BY <1>8, <2>1, <2>7
  <2> QED BY <2>3, <2>4, <2>5, <2>6, <2>7
<1>17. ASSUME NEW f \in Slot, f # x, f # e, Holding(pc[f], loc[f]), Result(loc[f]) # Started
       PROVE  hist'[loc[f].n].result[loc[f].word] # Started
  <2>1. Place(pc[f], loc[f])
    BY <1>17 DEF WInv, Places, Holding
  <2>2. loc[f].n \in 1 .. Len(hist) /\ loc[f].word \in DOMAIN hist[loc[f].n].line
    BY <1>17, <2>1, HasEntry DEF WInv
  <2>3. Apart("start", l, pc[f], loc[f])
    BY <1>3, <1>17 DEF WInv, Owner
  <2>4. ~(Holding("start", l) /\ loc[f].n = l.n /\ loc[f].word = l.word)
    BY <1>17, <2>3 DEF Apart
  <2> QED BY <1>11, <1>17, <2>2, <2>4 DEF Result
<1>18. Answered'
  <2> SUFFICES ASSUME NEW c \in Slot, NEW z \in Slot, KidOf(c, z), pc'[c] = "return"
               PROVE  Result(loc[c])' # Started
    BY <1>10 DEF Answered
  <2>1. c # x /\ c # e
    BY <1>8, <1>12
  <2>2. pc[c] = "return" /\ loc'[c] = loc[c]
    BY <1>8, <2>1
  <2>3. KidFits(pc[c], loc[c], env_id[c], pc[z], loc[z], waiting_return_value[z])
    BY DEF WInv, Kids
  <2>4. /\ pc[z] \in {"spawned", "recv", "forward", "after"}
        /\ loc[c].n = loc[z].n /\ loc[c].word = loc[z].word
    BY <2>2, <2>3 DEF KidFits, Program
  <2>5. z # x /\ z # e /\ Holding(pc[z], loc[z])
    BY <1>3, <1>7, <2>4 DEF Holding
  <2>6. Result(loc[z]) # Started
    BY <2>2, <2>4 DEF WInv, Answered, Result
  <2> QED BY <1>17, <2>2, <2>4, <2>5, <2>6 DEF Result
<1>19. NoEarlyReturn'
  <2> SUFFICES ASSUME NEW f \in Slot, pc'[f] \in {"forward", "after"}, ~waiting_return_value'[f]
               PROVE  hist'[loc'[f].n].result[loc'[f].word] # Started
    BY DEF NoEarlyReturn
  <2>1. f # x /\ f # e
    BY <1>8, <1>12
  <2>2. pc[f] \in {"forward", "after"} /\ loc'[f] = loc[f] /\ ~waiting_return_value[f]
    BY <1>5, <1>8, <2>1
  <2>3. Holding(pc[f], loc[f]) /\ Result(loc[f]) # Started
    BY <2>2 DEF WInv, NoEarlyReturn, Holding, Result
  <2> QED BY <1>17, <2>1, <2>2, <2>3
<1> QED BY <1>11, <1>13, <1>14, <1>15, <1>16, <1>18, <1>19 DEF WInv, RegularSessions

-----------------------------------------------------------------------------
LEMMA WaitersInit == RegularSessions /\ ShellInit => WInv
<1> SUFFICES ASSUME RegularSessions, ShellInit PROVE WInv
  OBVIOUS
<1>1. SInv
  BY ShellInitInv
<1>2. /\ hist = <<>> /\ pc = [e \in Slot |-> IF e = 0 THEN "prompt" ELSE "none"]
      /\ loc = [e \in Slot |-> NoLocals] /\ envid_count = 0
      /\ \A e \in Slot : env_status[e] = "FREE" /\ ~waiting_return_value[e]
  BY DEF ShellInit, Init
<1>3. HistOK
  BY <1>2 DEF HistOK, HistForm
<1>4. Places
  <2>1. Place("prompt", NoLocals)
    <3>1. NoLocals.n = 0 /\ Len(hist) = 0
      BY <1>2 DEF NoLocals
    <3> QED BY <3>1 DEF Place, Ahead, Parsing, Holding, Program
  <2> QED BY <1>2, <2>1 DEF Places
<1>5. Owner
  <2>1. \A e \in Slot : pc[e] \in {"prompt", "none"}
    BY <1>2
  <2> QED BY <2>1 DEF Owner, Apart, Ahead, Parsing, Holding
<1>6. Kids /\ Answered
  BY <1>2 DEF Kids, Answered, KidOf
<1>7. SlotsOK /\ NoEarlyReturn
  BY <1>2 DEF SlotsOK, NoEarlyReturn
<1> QED BY <1>1, <1>3, <1>4, <1>5, <1>6, <1>7 DEF WInv

LEMMA WaitersNext == WInv /\ [ShellNext]_allvars => WInv'
<1> SUFFICES ASSUME WInv, [ShellNext]_allvars PROVE WInv'
  OBVIOUS
<1>1. SInv'
  BY ShellNextInv DEF WInv
<1>2. CASE BootShell \/ Clock \/ UNCHANGED allvars
  BY <1>1, <1>2, BootWaits
<1>3. CASE ParseWord \/ ParseEnd \/ ParseOperator \/ Condition
  BY <1>1, <1>3, WordWaits, EndWaits, OperatorWaits, ConditionWaits
<1>4. CASE \E e \in Slot : Exofork(e) \/ StartChild(e)
  BY <1>1, <1>4, ExoforkWaits, StartWaits
<1>5. CASE Wait
  <2>1. CASE sys_yield /\ UNCHANGED shellvars
    <3>1. UNCHANGED <<env_status, env_id, env_parent_id, envid_count,
                      waiting_return_value, pc, loc, hist>>
      BY <2>1 DEF sys_yield, Timer, shellvars, idvars, ipcvars
    <3> QED BY <1>1, <3>1, IdleWaits
  <2>2. CASE ~Valid(L.kid) /\ UNCHANGED <<vars, hist>>
    BY <1>1, <1>5, <2>2, WaitWaits
  <2> QED BY <1>5, <2>1, <2>2 DEF Wait
<1>6. CASE RecvCondition \/ RecvResult
  BY <1>1, <1>6, RecvWaits
<1>7. CASE RunNothing \/ ForwardResult \/ SendResult
  BY <1>1, <1>7, SendWaits
<1>8. CASE RunBuiltin \/ RunSpawn \/ AfterCommand
  BY <1>1, <1>8, BuiltinWaits, SpawnWaits, AfterWaits
<1>9. CASE CreateJob \/ SetJobDone
  BY <1>1, <1>9, TableWaits
<1>10. CASE \E s \in Sessions : Prompt(s)
  BY <1>1, <1>10, PromptWaits
<1>11. CASE \E v \in {-1, 0, 1} : MainReturns(v)
  BY <1>1, <1>11, ReturnWaits
<1>12. CASE Exit
  BY <1>1, <1>12, ExitWaits
<1> QED BY <1>2, <1>3, <1>4, <1>5, <1>6, <1>7, <1>8, <1>9, <1>10, <1>11, <1>12
        DEF ShellNext, Step

\* A subshell that has received a value goes on only when its own command has
\* produced one (user/sh.c runcmd, after syscall_recv_return_value): the
\* system call takes a value from any child that sends one, and the theorem
\* says that on lines of RegularLine no other child is left that may send
\* while the subshell is blocked.
THEOREM NobodyWakesEarly == RegularSessions /\ ShellSpec => []NoEarlyReturn
<1>1. WInv => NoEarlyReturn
  BY DEF WInv
<1> QED BY <1>1, WaitersInit, WaitersNext, PTL DEF ShellSpec

-----------------------------------------------------------------------------
(***************************************************************************)
(* What a line means.  On the lines of PlainLine a command runs only when  *)
(* it is due, every command that is due runs, and && and || branch on the  *)
(* status of what is left of them.  Every process knows a part of Meaning  *)
(* (Knows): whether its next command is due (mark), the status it was told *)
(* or is about to tell.  What is known stays true because results are      *)
(* written once, by the one process that has the command (Untouched), so a *)
(* status, once there is one, does not change.  ; waits for a process that *)
(* has the command before it (Waits), and a command that has not run is    *)
(* skipped or somebody's (Covered).                                        *)
(***************************************************************************)

\* Commands and operators in turn.  Behind && comes no further operator, and
\* behind || only || and &&: a skipped command reports 0, and ; & and | run
\* it.  Nobody types kill, which may hit the process that ; waits for.
PlainLine ==
  {l \in RegularLine :
     /\ \A i \in 1 .. Len(l) : l[i] \in WordTokens <=> i % 2 = 1
     /\ \A i \in 1 .. Len(l) : l[i] # "k"
     /\ \A i, j \in 1 .. Len(l) : i < j /\ l[i] = "a" => l[j] \in WordTokens
     /\ \A i, j \in 1 .. Len(l) : i < j /\ l[i] = "o" => l[j] \in WordTokens \cup {"a", "o"}}

PlainSessions == \A s \in Sessions : s \in Seq(PlainLine)

DueAt(h, k)    == Meaning(h)[k][1]
StatusAt(h, k) == Meaning(h)[k][2]
Final(v)     == v \in {-1, 0, 1}

\* && or || have decided that command k does not run.
Skipped(h, k) ==
  k >= 3 /\ h.line[k-1] \in {"a", "o"} /\ Final(StatusAt(h, k-2)) /\ ~DueAt(h, k)

\* A process has the command l.word and has not started it,
ToRun(p, l) ==
  \/ p \in {"parse", "run"} /\ l.argc # 0
  \/ p \in {"fork", "start"} /\ (l.op = "spawn" \/ l.argc # 0)

\* it has decided to run it, or has run it.
Working(p, l) ==
  \/ p = "run" /\ l.argc # 0
  \/ p \in {"fork", "start"} /\ l.op = "spawn"
  \/ p \in {"spawned", "recv", "forward", "after"}

\* The command that mark is about.
NextWord(p, l) ==
  IF (p = "parse" /\ l.argc = 0) \/ (p \in {"fork", "start"} /\ l.op = "line")
  THEN l.pos ELSE l.word

Known(l, w) ==
  w \in DOMAIN l.line =>
    /\ l.mark <=> DueAt(hist[l.n], w)
    /\ ~l.mark => /\ Skipped(hist[l.n], w)
                  /\ l.line[w-1] = "o" => StatusAt(hist[l.n], w-2) = 0

IsWord(l, k) == k \in DOMAIN l.line /\ k % 2 = 1

\* Where the next token and the last command are.
Spot(p, l) ==
  /\ p = "parse" /\ l.argc = 0 => l.pos % 2 = 1
  /\ p = "parse" /\ l.argc # 0 => l.word = l.pos - 1
  /\ Parsing(p, l) /\ p # "parse" => l.word = l.pos - 2 /\ IsWord(l, l.word)
  /\ Holding(p, l) \/ Program(p) \/ (p = "run" /\ l.flag) => IsWord(l, l.word)

Knows(p, l, rv, waiting) ==
  /\ Spot(p, l)
  /\ Ahead(p, l) => Known(l, NextWord(p, l))
  /\ Working(p, l) => DueAt(hist[l.n], l.word)
  /\ p = "run" /\ l.argc = 0 /\ l.flag => StatusAt(hist[l.n], l.word) = 0
  /\ p \in {"spawned", "recv", "forward", "after"} => Result(l) # NotRun
  /\ p = "forward" /\ ~waiting => rv = Result(l) /\ Final(rv)
  /\ p = "cond" /\ ~waiting => rv = StatusAt(hist[l.n], l.word) /\ Final(rv)
  /\ p = "return" => l.value = Result(l) /\ Final(l.value)

Untouched(p, l) ==
  /\ Ahead(p, l) => \A k \in DOMAIN l.line : k >= l.pos => hist[l.n].result[k] = NotRun
  /\ ToRun(p, l) => Result(l) = NotRun
  /\ p = "main" => Result(l) = Started

Informed ==
  \A e \in Slot : pc[e] # "none" =>
    /\ Knows(pc[e], loc[e], return_value[e], waiting_return_value[e])
    /\ Untouched(pc[e], loc[e])

\* No command runs twice.
RunsOnce ==
  \A e, f \in Slot : e # f /\ pc[e] = "main" /\ pc[f] = "main"
                       => loc[e].n # loc[f].n \/ loc[e].word # loc[f].word

\* Process c has the command that process e waits for.
WorksFor(c, e) ==
  /\ env_status[c] # "FREE" /\ env_id[c] = loc[e].kid
  /\ Working(pc[c], loc[c]) /\ loc[c].n = loc[e].n /\ loc[c].word = loc[e].word

Waits ==
  \A e \in Slot : pc[e] = "wait" /\ loc[e].op = ";"
    => Final(Result(loc[e])) \/ \E c \in Slot : WorksFor(c, e)

Covers(p, l, k) == (ToRun(p, l) /\ l.word = k) \/ (Ahead(p, l) /\ l.pos <= k)

Covered ==
  \A n \in DOMAIN hist : \A k \in Words(hist[n]) :
    \/ hist[n].result[k] # NotRun
    \/ Skipped(hist[n], k)
    \/ \E e \in Slot : Covers(pc[e], loc[e], k) /\ loc[e].n = n

\* The lines typed and their results.
PlainHist ==
  \A n \in DOMAIN hist :
    /\ hist[n].line \in PlainLine
    /\ \A k \in DOMAIN hist[n].line : Final(hist[n].result[k])
                                        \/ hist[n].result[k] \in {NotRun, Started}

MInv ==
  /\ WInv /\ PlainSessions
  /\ PlainHist /\ Informed /\ RunsOnce /\ Waits /\ Covered /\ OnlyWhenDue

-----------------------------------------------------------------------------
\* Meaning is the function its recursive definition says: there is one.
Clause(h, f, k) ==
  IF k = 1 THEN <<TRUE, h.result[1]>>
  ELSE IF k % 2 = 0 THEN f[k-1]
  ELSE LET prev == f[k-2]
           op   == h.line[k-1]
           due  == \/ op = "a" /\ prev[2] = 0
                   \/ op = "o" /\ prev[2] \in {-1, 1}
                   \/ op = ";" /\ prev[2] \notin {NotRun, Started}
                   \/ op = "&"
                   \/ op = "|" /\ prev[1]
       IN <<due, IF due THEN h.result[k] ELSE prev[2]>>

Pairs(h, n, f) == f = [k \in 1 .. n |-> Clause(h, f, k)]

LEMMA LeastOf ==
  ASSUME NEW S, S \subseteq Nat, S # {}
  PROVE  \E m \in S : \A x \in S : m <= x
<1>1. PICK m \in S : \A y \in S : ~(<<y, m>> \in OpToRel(<, Nat))
  BY NatLessThanWellFounded, WFMin
<1>2. m \in S /\ \A y \in S : ~(y < m)
  BY <1>1, Zenon DEF OpToRel
<1> QED BY <1>2

LEMMA PairsExist ==
  ASSUME NEW h, NEW n \in Nat
  PROVE  \E f : Pairs(h, n, f)
<1> DEFINE S == {m \in Nat : ~\E f : Pairs(h, m, f)}
<1>1. SUFFICES ASSUME S # {} PROVE FALSE
  BY DEF S
<1>2. S \subseteq Nat
  BY DEF S
<1>3. PICK m \in S : \A x \in S : m <= x
  <2> HIDE DEF S
  <2> QED BY <1>1, <1>2, LeastOf
<1>4. m \in Nat /\ ~\E f : Pairs(h, m, f)
  BY DEF S
<1>5. m # 0
  <2>1. Pairs(h, 0, [k \in 1 .. 0 |-> Clause(h, 0, k)])
    BY DEF Pairs
  <2> QED BY <1>4, <2>1
<1>6. m - 1 \in Nat /\ ~(m <= m - 1)
  BY <1>4, <1>5
<1>7. m - 1 \notin S
  BY <1>3, <1>6
<1>8. PICK f : Pairs(h, m - 1, f)
  BY <1>6, <1>7 DEF S
<1>9. PICK g : g = [k \in 1 .. m |-> IF k = m THEN Clause(h, f, m) ELSE f[k]]
  OBVIOUS
<1>10. ASSUME NEW k \in 1 .. m PROVE g[k] = Clause(h, g, k)
  <2>1. Clause(h, g, k) = Clause(h, f, k)
    <3>1. CASE k = 1
      BY <3>1 DEF Clause
    <3>2. CASE k # 1 /\ k % 2 = 0
      <4>1. g[k-1] = f[k-1]
        BY <1>4, <1>9, <3>2
      <4> QED BY <3>2, <4>1 DEF Clause
    <3>3. CASE k # 1 /\ k % 2 # 0
      <4>1. k # 2
        BY <3>3
      <4>2. g[k-2] = f[k-2]
        BY <1>4, <1>9, <3>3, <4>1
      <4> QED BY <3>3, <4>2 DEF Clause
    <3> QED BY <3>1, <3>2, <3>3
  <2>2. g[k] = Clause(h, f, k)
    <3>1. k # m => k \in 1 .. m - 1
      BY <1>4
    <3>2. \A j \in 1 .. m - 1 : f[j] = Clause(h, f, j)
      <4> HIDE DEF Clause
      <4> QED BY <1>8 DEF Pairs
    <3> QED BY <1>9, <3>1, <3>2
  <2> QED BY <2>1, <2>2
<1>11. Pairs(h, m, g)
  <2>1. g = [k \in 1 .. m |-> g[k]]
    BY <1>9
  <2> QED BY <1>10, <2>1 DEF Pairs
<1> QED BY <1>4, <1>11

LEMMA MeaningPairs ==
  ASSUME NEW h, NEW n \in Nat, DOMAIN h.line = 1 .. n
  PROVE  Pairs(h, n, Meaning(h))
<1>1. PICK g : g = CHOOSE f : Pairs(h, n, f)
  OBVIOUS
<1>2. Pairs(h, n, g)
  BY <1>1, PairsExist
<1>3. Meaning(h) = CHOOSE f : f = [k \in 1 .. n |-> Clause(h, f, k)]
  BY DEF Meaning, Clause
<1> QED BY <1>1, <1>2, <1>3 DEF Pairs

\* A line and its results, as hist has them.
Plain(h) ==
  /\ h.line \in PlainLine /\ Len(h.line) \in Nat /\ DOMAIN h.line = 1 .. Len(h.line)
  /\ \A k \in DOMAIN h.line : Final(h.result[k]) \/ h.result[k] \in {NotRun, Started}

\* What Meaning says of a command, by its operator.
DueBy(h, k) ==
  \/ h.line[k-1] = "a" /\ StatusAt(h, k-2) = 0
  \/ h.line[k-1] = "o" /\ StatusAt(h, k-2) \in {-1, 1}
  \/ h.line[k-1] = ";" /\ StatusAt(h, k-2) \notin {NotRun, Started}
  \/ h.line[k-1] = "&"
  \/ h.line[k-1] = "|" /\ DueAt(h, k-2)

LEMMA MeaningFacts ==
  ASSUME NEW h, Plain(h), NEW k \in DOMAIN h.line, k % 2 = 1
  PROVE  /\ k = 1 => DueAt(h, 1) /\ StatusAt(h, 1) = h.result[1]
         /\ k # 1 => /\ k \in Nat /\ k >= 3 /\ k-2 \in DOMAIN h.line /\ (k-2) % 2 = 1
                     /\ DueAt(h, k) <=> DueBy(h, k)
                     /\ DueAt(h, k) => StatusAt(h, k) = h.result[k]
                     /\ ~DueAt(h, k) => StatusAt(h, k) = StatusAt(h, k-2)
<1>1. PICK n, f : n = Len(h.line) /\ f = Meaning(h)
  OBVIOUS
<1>2. n \in Nat /\ DOMAIN h.line = 1 .. n
  BY <1>1 DEF Plain
<1>3. f = [j \in 1 .. n |-> Clause(h, f, j)]
  BY <1>1, <1>2, MeaningPairs DEF Pairs
<1>4. f[k] = Clause(h, f, k)
  <2> HIDE DEF Clause
  <2> QED BY <1>2, <1>3
<1>5. CASE k = 1
  <2>1. f[1] = <<TRUE, h.result[1]>>
    BY <1>4, <1>5 DEF Clause
  <2>2. DueAt(h, 1) = TRUE /\ StatusAt(h, 1) = h.result[1]
    BY <1>1, <2>1 DEF DueAt, StatusAt
  <2> QED BY <1>5, <2>2
<1>6. CASE k # 1
  <2>1. k \in Nat /\ k >= 3 /\ k-2 \in DOMAIN h.line /\ (k-2) % 2 = 1 /\ k % 2 # 0
    BY <1>2, <1>6
  <2>2. f[k] = <<DueBy(h, k), IF DueBy(h, k) THEN h.result[k] ELSE f[k-2][2]>>
    BY <1>1, <1>4, <1>6, <2>1 DEF Clause, DueBy, DueAt, StatusAt
  <2>3. DueAt(h, k) <=> DueBy(h, k)
    <3> HIDE DEF DueBy
    <3> QED BY <1>1, <2>2 DEF DueAt
  <2>4. StatusAt(h, k) = IF DueBy(h, k) THEN h.result[k] ELSE StatusAt(h, k-2)
    <3> HIDE DEF DueBy
    <3> QED BY <1>1, <2>2 DEF StatusAt
  <2> QED BY <1>6, <2>1, <2>3, <2>4
<1> QED BY <1>5, <1>6

LEMMA StatusCodes ==
  ASSUME NEW h, Plain(h), NEW k \in DOMAIN h.line, k % 2 = 1
  PROVE  Final(StatusAt(h, k)) \/ StatusAt(h, k) \in {NotRun, Started}
<1> DEFINE Good(v) == Final(v) \/ v \in {NotRun, Started}
           S == {j \in DOMAIN h.line : j % 2 = 1 /\ ~Good(StatusAt(h, j))}
<1>1. SUFFICES ASSUME S # {} PROVE FALSE
  BY DEF S, Good
<1>2. S \subseteq Nat
  BY DEF S, Plain
<1>3. PICK m \in S : \A x \in S : m <= x
  <2> HIDE DEF S
  <2> QED BY <1>1, <1>2, LeastOf
<1>4. m \in DOMAIN h.line /\ m % 2 = 1 /\ ~Good(StatusAt(h, m)) /\ m \in Nat
  BY <1>2
<1>5. Good(h.result[m])
  BY <1>4 DEF Plain
<1>6. m # 1 /\ m-2 \in DOMAIN h.line /\ (m-2) % 2 = 1 /\ StatusAt(h, m) = StatusAt(h, m-2)
  <2> HIDE DEF Good, S
  <2> QED BY <1>4, <1>5, MeaningFacts
<1>7. m-2 \in S
  BY <1>4, <1>6
<1> QED BY <1>3, <1>4, <1>7

\* Results are written once: a command that is due stays due, and a status
\* stays once there is one.
LEMMA MeaningStays ==
  ASSUME NEW h, NEW g, Plain(h), Plain(g), g.line = h.line,
         \A j \in DOMAIN h.line : g.result[j] = h.result[j] \/ ~Final(h.result[j]),
         NEW k \in DOMAIN h.line, k % 2 = 1
  PROVE  /\ DueAt(h, k) => DueAt(g, k)
         /\ Final(StatusAt(h, k)) => /\ DueAt(g, k) <=> DueAt(h, k)
                                     /\ StatusAt(g, k) = StatusAt(h, k)
<1> DEFINE Good(j) == /\ DueAt(h, j) => DueAt(g, j)
                      /\ Final(StatusAt(h, j)) => /\ DueAt(g, j) <=> DueAt(h, j)
                                                  /\ StatusAt(g, j) = StatusAt(h, j)
           S == {j \in DOMAIN h.line : j % 2 = 1 /\ ~Good(j)}
<1>1. SUFFICES ASSUME S # {} PROVE FALSE
  BY DEF S, Good
<1>2. S \subseteq Nat
  BY DEF S, Plain
<1>3. PICK m \in S : \A x \in S : m <= x
  <2> HIDE DEF S
  <2> QED BY <1>1, <1>2, LeastOf
<1>4. m \in DOMAIN h.line /\ m % 2 = 1 /\ ~Good(m) /\ m \in Nat
  BY <1>2
<1>5. CASE m = 1
  <2>1. DueAt(h, 1) /\ DueAt(g, 1) /\ StatusAt(h, 1) = h.result[1] /\ StatusAt(g, 1) = g.result[1]
    BY <1>4, <1>5, MeaningFacts
  <2> QED BY <1>4, <1>5, <2>1
<1>6. CASE m # 1
  <2>1. /\ m-2 \in DOMAIN h.line /\ (m-2) % 2 = 1
        /\ DueAt(h, m) <=> DueBy(h, m)
        /\ DueAt(h, m) => StatusAt(h, m) = h.result[m]
        /\ ~DueAt(h, m) => StatusAt(h, m) = StatusAt(h, m-2)
    BY <1>4, <1>6, MeaningFacts
  <2>2. /\ DueAt(g, m) <=> DueBy(g, m)
        /\ DueAt(g, m) => StatusAt(g, m) = g.result[m]
        /\ ~DueAt(g, m) => StatusAt(g, m) = StatusAt(g, m-2)
    BY <1>4, <1>6, MeaningFacts
  <2>3. Good(m-2)
    <3>1. m-2 \notin S
      BY <1>3, <1>4
    <3> QED BY <2>1, <3>1
  <2>4. Final(StatusAt(h, m-2)) \/ StatusAt(h, m-2) \in {NotRun, Started}
    BY <2>1, StatusCodes
  <2>5. DueBy(h, m) => DueBy(g, m)
    BY <2>3, <2>4 DEF DueBy, Final
  <2>6. Final(StatusAt(h, m-2)) => (DueBy(h, m) <=> DueBy(g, m))
    BY <2>3 DEF DueBy
  <2>7. g.result[m] = h.result[m] \/ ~Final(h.result[m])
    BY <1>4
  <2>8. Good(m)
    <3> HIDE DEF DueBy, Final
    <3> QED BY <2>1, <2>2, <2>3, <2>5, <2>6, <2>7
  <2> QED BY <1>4, <2>8
<1> QED BY <1>5, <1>6

-----------------------------------------------------------------------------
\* How the results of a line change.
Evolves(h, g) ==
  /\ g.line = h.line
  /\ \A j \in DOMAIN h.line :
       g.result[j] = h.result[j] \/ (~Final(h.result[j]) /\ g.result[j] # NotRun)

LEMMA SkippedStays ==
  ASSUME NEW h, NEW g, Plain(h), Plain(g), Evolves(h, g),
         NEW k \in DOMAIN h.line, k % 2 = 1, Skipped(h, k)
  PROVE  Skipped(g, k) /\ StatusAt(g, k-2) = StatusAt(h, k-2)
<1>1. k >= 3 /\ h.line[k-1] \in {"a", "o"} /\ Final(StatusAt(h, k-2)) /\ ~DueAt(h, k)
  BY DEF Skipped
<1>2. k # 1 /\ g.line = h.line
  BY <1>1 DEF Evolves
<1>3. k-2 \in DOMAIN h.line /\ (k-2) % 2 = 1 /\ ~DueBy(h, k)
  BY <1>1, <1>2, MeaningFacts
<1>4. DueAt(g, k) <=> DueBy(g, k)
  BY <1>2, MeaningFacts
<1>5. StatusAt(g, k-2) = StatusAt(h, k-2)
  BY <1>1, <1>3, MeaningStays DEF Evolves
<1>6. ~DueBy(g, k)
  BY <1>1, <1>2, <1>3, <1>5 DEF DueBy
<1> QED BY <1>1, <1>2, <1>4, <1>5, <1>6 DEF Skipped

\* The entries of hist, and what the locals of a process say of them.
LEMMA PlainEntry ==
  ASSUME MInv, NEW n \in 1 .. Len(hist)
  PROVE  Plain(hist[n])
<1>1. n \in DOMAIN hist /\ DOMAIN hist[n].line = 1 .. Len(hist[n].line) /\ Len(hist[n].line) \in Nat
  BY HistFacts DEF MInv, WInv, HistOK
<1> QED BY <1>1 DEF MInv, PlainHist, Plain

LEMMA PlainLater ==
  ASSUME HistOK', PlainHist', NEW n \in 1 .. Len(hist')
  PROVE  Plain(hist'[n])
<1>0. HistForm(hist')
  BY DEF HistOK
<1>1. /\ n \in DOMAIN hist' /\ DOMAIN hist'[n].line = 1 .. Len(hist'[n].line)
      /\ Len(hist'[n].line) \in Nat
  BY <1>0, HistFacts
<1> QED BY <1>1 DEF PlainHist, Plain

LEMMA OwnLine ==
  ASSUME HistOK, NEW p, NEW l, Place(p, l), p # "prompt"
  PROVE  /\ l.n \in 1 .. Len(hist) /\ l.line = hist[l.n].line
         /\ DOMAIN l.line = 1 .. Len(l.line) /\ Len(l.line) \in Nat
<1>1. l.n \in 1 .. Len(hist) /\ l.line = hist[l.n].line
  BY HistFacts DEF Place, HistOK
<1> QED BY <1>1, HistFacts DEF HistOK

\* The command that mark is about is a command.
LEMMA NextIsWord ==
  ASSUME NEW p, NEW l, Place(p, l), Spot(p, l), Ahead(p, l),
         NextWord(p, l) \in DOMAIN l.line
  PROVE  IsWord(l, NextWord(p, l))
<1>1. CASE p = "parse" /\ l.argc = 0
  BY <1>1 DEF Spot, IsWord, NextWord
<1>2. CASE p = "parse" /\ l.argc # 0
  BY <1>2 DEF Spot, IsWord, NextWord, Holding
<1>3. CASE p \in {"fork", "start"} /\ l.op = "line"
  BY <1>3 DEF Place, IsWord, NextWord
<1>4. CASE p # "parse" /\ Parsing(p, l)
  BY <1>4 DEF Spot, NextWord, Parsing
<1> QED BY <1>1, <1>2, <1>3, <1>4 DEF Ahead, Parsing

\* What a process knows stays true while results are written.
LEMMA KnowsStays ==
  ASSUME HistOK, NEW p, NEW l, NEW rv, NEW w, Place(p, l), p # "prompt",
         Plain(hist[l.n]), Plain(hist'[l.n]), Evolves(hist[l.n], hist'[l.n]),
         Knows(p, l, rv, w)
  PROVE  Knows(p, l, rv, w)'
<1>1. PICK h, g : h = hist[l.n] /\ g = hist'[l.n]
  OBVIOUS
<1>2. l.line = h.line /\ Plain(h) /\ Plain(g) /\ Evolves(h, g)
  BY <1>1, OwnLine
<1>3. ASSUME NEW k, IsWord(l, k)
      PROVE  /\ DueAt(h, k) => DueAt(g, k)
             /\ Final(StatusAt(h, k)) => StatusAt(g, k) = StatusAt(h, k)
             /\ Skipped(h, k) => Skipped(g, k) /\ StatusAt(g, k-2) = StatusAt(h, k-2)
             /\ Final(h.result[k]) => g.result[k] = h.result[k]
             /\ h.result[k] # NotRun => g.result[k] # NotRun
  <2>1. k \in DOMAIN h.line /\ k % 2 = 1
    BY <1>2, <1>3 DEF IsWord
  <2>2. /\ DueAt(h, k) => DueAt(g, k)
        /\ Final(StatusAt(h, k)) => StatusAt(g, k) = StatusAt(h, k)
    BY <1>2, <2>1, MeaningStays DEF Evolves
  <2>3. Skipped(h, k) => Skipped(g, k) /\ StatusAt(g, k-2) = StatusAt(h, k-2)
    BY <1>2, <2>1, SkippedStays
  <2> QED BY <1>2, <2>1, <2>2, <2>3 DEF Evolves
<1>4. Spot(p, l)
  BY DEF Knows
<1>5. Ahead(p, l) => Known(l, NextWord(p, l))'
  <2> SUFFICES ASSUME Ahead(p, l), NextWord(p, l) \in DOMAIN l.line
               PROVE  Known(l, NextWord(p, l))'
    BY DEF Known, NextWord, Ahead, Parsing
  <2>1. PICK k : k = NextWord(p, l)
    OBVIOUS
  <2>2. IsWord(l, k) /\ Known(l, k) /\ k \in DOMAIN l.line
    BY <1>4, <2>1, NextIsWord DEF Knows
  <2>3. /\ l.mark <=> DueAt(h, k)
        /\ ~l.mark => Skipped(h, k) /\ (l.line[k-1] = "o" => StatusAt(h, k-2) = 0)
    BY <1>1, <2>2 DEF Known
  <2>4. ~l.mark => Skipped(g, k) /\ (l.line[k-1] = "o" => StatusAt(g, k-2) = 0)
    BY <1>3, <2>2, <2>3
  <2>5. l.mark <=> DueAt(g, k)
    BY <1>3, <2>2, <2>3, <2>4 DEF Skipped
  <2> QED BY <1>1, <2>1, <2>4, <2>5 DEF Known, NextWord
<1>6. Working(p, l) => DueAt(g, l.word)
  <2>1. Working(p, l) => Holding(p, l)
    BY DEF Working, Holding
  <2> QED BY <1>1, <1>3, <1>4, <2>1 DEF Knows, Spot
<1>7. p = "run" /\ l.argc = 0 /\ l.flag => StatusAt(g, l.word) = 0
  BY <1>1, <1>3, <1>4 DEF Knows, Spot, Final
<1>8. p \in {"spawned", "recv", "forward", "after"} => g.result[l.word] # NotRun
  BY <1>1, <1>3, <1>4 DEF Knows, Spot, Holding, Result
<1>9. p = "forward" /\ ~w => rv = g.result[l.word] /\ Final(rv)
  BY <1>1, <1>3, <1>4 DEF Knows, Spot, Holding, Result
<1>10. p = "cond" /\ ~w => rv = StatusAt(g, l.word) /\ Final(rv)
  <2>1. p = "cond" => IsWord(l, l.word)
    BY <1>4 DEF Spot, Parsing
  <2> QED BY <1>1, <1>3, <2>1 DEF Knows
<1>11. p = "return" => l.value = g.result[l.word] /\ Final(l.value)
  BY <1>1, <1>3, <1>4 DEF Knows, Spot, Program, Result
<1>12. Spot(p, l)'
  BY <1>4 DEF Spot, Parsing, Holding, Program, IsWord
<1> QED BY <1>1, <1>5, <1>6, <1>7, <1>8, <1>9, <1>10, <1>11, <1>12
        DEF Knows, Result, Working, Ahead, Parsing

-----------------------------------------------------------------------------
\* A step of process x, which may start process y (else y is x).  x may write
\* the result of the command that it has or is, and add a line that nothing
\* of has run,
Writes(x) ==
  /\ Len(hist) <= Len(hist')
  /\ \A n \in 1 .. Len(hist) :
       /\ hist'[n].line = hist[n].line
       /\ \A k \in DOMAIN hist[n].line :
            \/ hist'[n].result[k] = hist[n].result[k]
            \/ /\ n = loc[x].n /\ k = loc[x].word
               /\ ~Final(hist[n].result[k]) /\ hist'[n].result[k] # NotRun
               /\ (ToRun(pc[x], loc[x]) /\ Working(pc[x], loc[x])) \/ pc[x] = "main"
  /\ \A n \in DOMAIN hist' : n \notin 1 .. Len(hist) =>
       /\ \A k \in DOMAIN hist'[n].line : hist'[n].result[k] = NotRun
       /\ loc'[x].n = n /\ Ahead(pc'[x], loc'[x]) /\ loc'[x].pos = 1

\* the others stay, and what they are told is right,
OthersKnow(x, y) ==
  \A f \in Slot \ {x, y} :
    /\ pc'[f] = pc[f] /\ loc'[f] = loc[f]
    /\ \/ /\ return_value'[f] = return_value[f]
          /\ waiting_return_value'[f] = waiting_return_value[f]
       \/ Knows(pc[f], loc[f], return_value'[f], waiting_return_value'[f])

\* x and y know what they need to know,
Learns(z) ==
  pc'[z] # "none" =>
    /\ Knows(pc[z], loc[z], return_value[z], waiting_return_value[z])'
    /\ Untouched(pc[z], loc[z])'

\* a program starts only where there was none,
StartsOnce(x, y) ==
  /\ pc'[x] # "main"
  /\ pc'[y] = "main" => ToRun(pc[x], loc[x]) /\ loc'[y].n = loc[x].n /\ loc'[y].word = loc[x].word

\* whoever has a command to run stays until it has a result,
KeepsWork(x) ==
  /\ \A c \in Slot : env_status[c] # "FREE" /\ Working(pc[c], loc[c])
                       => env_status'[c] # "FREE" /\ env_id'[c] = env_id[c]
  /\ Working(pc[x], loc[x]) =>
       \/ Working(pc'[x], loc'[x]) /\ loc'[x].n = loc[x].n /\ loc'[x].word = loc[x].word
       \/ Final(hist'[loc[x].n].result[loc[x].word])

\* whoever begins to wait at ; waits for one who works,
WaitsFairly(x) ==
  pc'[x] = "wait" /\ loc'[x].op = ";" => \E c \in Slot : WorksFor(c, x)'

\* and no command gets lost.
HandsOn(x) ==
  \A k \in Words(hist[loc[x].n]) : Covers(pc[x], loc[x], k) =>
    \/ hist'[loc[x].n].result[k] # NotRun
    \/ Skipped(hist'[loc[x].n], k)
    \/ \E e \in Slot : Covers(pc'[e], loc'[e], k) /\ loc'[e].n = loc[x].n

\* What the others have not touched stays untouched.
LEMMA UntouchedStays ==
  ASSUME MInv, NEW x \in Slot, Writes(x), pc[x] # "none",
         NEW f \in Slot, f # x, pc[f] # "none"
  PROVE  \A p, l : p = pc[f] /\ l = loc[f] => Untouched(p, l)'
<1> SUFFICES ASSUME NEW p, NEW l, p = pc[f], l = loc[f] PROVE Untouched(p, l)'
  OBVIOUS
<1>1. PICK q, m : q = pc[x] /\ m = loc[x]
  OBVIOUS
<1>2. Apart(q, m, p, l) /\ Untouched(p, l) /\ Untouched(q, m) /\ Place(p, l) /\ Spot(p, l)
  BY <1>1 DEF MInv, WInv, Owner, Informed, Places, Knows
<1>3. q = "main" /\ p = "main" => m.n # l.n \/ m.word # l.word
  BY <1>1 DEF MInv, RunsOnce
<1>4. CASE Ahead(p, l) \/ ToRun(p, l) \/ p = "main"
  <2>1. p # "prompt"
    BY <1>4 DEF Ahead, Parsing, ToRun
  <2>2. /\ l.n \in 1 .. Len(hist) /\ l.line = hist[l.n].line
        /\ DOMAIN l.line = 1 .. Len(l.line) /\ Len(l.line) \in Nat
    BY <1>2, <2>1, OwnLine DEF MInv, WInv
  <2>3. ASSUME NEW k \in DOMAIN l.line, hist'[l.n].result[k] # hist[l.n].result[k]
        PROVE  /\ m.n = l.n /\ m.word = k
               /\ \/ ToRun(q, m) /\ hist[l.n].result[k] = NotRun
                  \/ q = "main" /\ hist[l.n].result[k] = Started
    <3>1. m.n = l.n /\ m.word = k /\ (ToRun(q, m) \/ q = "main")
      BY <1>1, <2>2, <2>3 DEF Writes
    <3> QED BY <1>2, <3>1 DEF Untouched, Result
  <2>4. Ahead(p, l) => \A k \in DOMAIN l.line : k >= l.pos => hist'[l.n].result[k] = NotRun
    <3> SUFFICES ASSUME Ahead(p, l), NEW k \in DOMAIN l.line, k >= l.pos,
                        hist'[l.n].result[k] # NotRun
                 PROVE  FALSE
      OBVIOUS
    <3>1. hist[l.n].result[k] = NotRun
      BY <1>2 DEF Untouched
    <3>2. m.n = l.n /\ m.word = k /\ ToRun(q, m)
      BY <2>3, <3>1 DEF NotRun, Started
    <3>3. Holding(q, m)
      BY <3>2 DEF ToRun, Holding
    <3>4. k < l.pos /\ l.pos \in Int /\ k \in Int
      BY <1>2, <2>2, <3>2, <3>3 DEF Apart, Place
    <3> QED BY <3>4
  <2>5. ToRun(p, l) => hist'[l.n].result[l.word] = NotRun
    <3> SUFFICES ASSUME ToRun(p, l), hist'[l.n].result[l.word] # NotRun PROVE FALSE
      OBVIOUS
    <3>1. Holding(p, l) /\ l.word \in DOMAIN l.line
      BY <1>2 DEF ToRun, Holding, Place
    <3>2. hist[l.n].result[l.word] = NotRun
      BY <1>2 DEF Untouched, Result
    <3>3. m.n = l.n /\ m.word = l.word /\ ToRun(q, m)
      BY <2>3, <3>1, <3>2 DEF NotRun, Started
    <3>4. Holding(q, m)
      BY <3>3 DEF ToRun, Holding
    <3> QED BY <1>2, <3>1, <3>3, <3>4 DEF Apart
  <2>6. p = "main" => hist'[l.n].result[l.word] = Started
    <3> SUFFICES ASSUME p = "main", hist'[l.n].result[l.word] # Started PROVE FALSE
      OBVIOUS
    <3>1. l.word \in DOMAIN l.line
      BY <1>2 DEF Place, Program
    <3>2. hist[l.n].result[l.word] = Started
      BY <1>2 DEF Untouched, Result
    <3>3. m.n = l.n /\ m.word = l.word /\ q = "main"
      BY <2>3, <3>1, <3>2 DEF NotRun, Started
    <3> QED BY <1>3, <3>3
  <2> QED BY <2>4, <2>5, <2>6 DEF Untouched, Result, Ahead, Parsing, ToRun
<1>5. CASE ~(Ahead(p, l) \/ ToRun(p, l) \/ p = "main")
  BY <1>5 DEF Untouched, Ahead, Parsing, ToRun
<1> QED BY <1>4, <1>5

LEMMA MeaningKept ==
  ASSUME MInv, WInv', PlainHist', NEW x \in Slot, NEW y \in Slot,
         pc[x] # "none", y = x \/ pc[y] = "none",
         Writes(x), OthersKnow(x, y), Learns(x), Learns(y), StartsOnce(x, y),
         KeepsWork(x), WaitsFairly(x), pc'[y] # "wait" \/ y = x, HandsOn(x)
  PROVE  MInv'
<1>1. HistOK /\ HistOK' /\ Len(hist) \in Nat /\ Len(hist') \in Nat /\ DOMAIN hist' = 1 .. Len(hist')
      /\ DOMAIN hist = 1 .. Len(hist) /\ Len(hist) <= Len(hist')
  <2>1. HistOK /\ HistOK' /\ HistForm(hist')
    BY DEF MInv, WInv, HistOK
  <2> QED BY <2>1, HistFacts DEF HistOK, Writes
<1>2. \A n \in 1 .. Len(hist) : Plain(hist[n]) /\ Plain(hist'[n]) /\ Evolves(hist[n], hist'[n])
  <2> SUFFICES ASSUME NEW n \in 1 .. Len(hist)
               PROVE  Plain(hist[n]) /\ Plain(hist'[n]) /\ Evolves(hist[n], hist'[n])
    OBVIOUS
  <2>1. Plain(hist[n])
    BY PlainEntry
  <2>2. Plain(hist'[n])
    BY <1>1, PlainLater
  <2> QED BY <2>1, <2>2 DEF Writes, Evolves
<1>3. Informed'
  <2>1. ASSUME NEW f \in Slot \ {x, y}, pc'[f] # "none"
        PROVE  /\ Knows(pc[f], loc[f], return_value[f], waiting_return_value[f])'
               /\ Untouched(pc[f], loc[f])'
    <3>1. PICK p, l, rv, w : /\ p = pc[f] /\ l = loc[f] /\ rv = return_value'[f]
                             /\ w = waiting_return_value'[f]
      OBVIOUS
    <3>2. p = pc'[f] /\ l = loc'[f] /\ Place(p, l) /\ p # "none"
      BY <2>1, <3>1 DEF OthersKnow, MInv, WInv, Places
    <3>3. Knows(p, l, rv, w)
      BY <2>1, <3>1, <3>2 DEF OthersKnow, MInv, Informed
    <3>4. Untouched(p, l)'
      BY <2>1, <3>1, <3>2, UntouchedStays
    <3>5. Knows(p, l, rv, w)'
      <4>1. CASE p = "prompt"
        BY <4>1 DEF Knows, Spot, Ahead, Parsing, Working, Holding, Program
      <4>2. CASE p # "prompt"
        <5>1. l.n \in 1 .. Len(hist)
          BY <1>1, <3>2, <4>2, OwnLine
        <5> QED BY <1>1, <1>2, <3>2, <3>3, <4>2, <5>1, KnowsStays
      <4> QED BY <4>1, <4>2
    <3>6. Untouched(pc[f], loc[f])'
      BY <3>2, <3>4 DEF Untouched, Result
    <3>7. Knows(pc[f], loc[f], return_value[f], waiting_return_value[f])'
      BY <3>1, <3>2, <3>5 DEF Knows, Known, Result
    <3> QED BY <3>6, <3>7
  <2> QED BY <2>1 DEF Informed, Learns
<1>4. RunsOnce'
  <2>1. ASSUME NEW f \in Slot, f # x, f # y, pc'[f] = "main", pc'[y] = "main"
        PROVE  loc'[y].n # loc'[f].n \/ loc'[y].word # loc'[f].word
    <3>1. pc[f] = "main" /\ loc'[f] = loc[f]
      BY <2>1 DEF OthersKnow
    <3>2. Result(loc[f]) = Started
      BY <3>1 DEF MInv, Informed, Untouched
    <3>3. Result(loc[x]) = NotRun
      BY <2>1 DEF StartsOnce, MInv, Informed, Untouched
    <3> QED BY <2>1, <3>1, <3>2, <3>3 DEF StartsOnce, Result, NotRun, Started
  <2>2. ASSUME NEW e \in Slot, NEW f \in Slot, e # f, pc'[e] = "main", pc'[f] = "main",
               e # y, f # y
        PROVE  loc'[e].n # loc'[f].n \/ loc'[e].word # loc'[f].word
    <3>1. e # x /\ f # x
      BY <2>2 DEF StartsOnce
    <3> QED BY <2>2, <3>1 DEF OthersKnow, MInv, RunsOnce
  <2>3. pc'[x] # "main"
    BY DEF StartsOnce
  <2> QED BY <2>1, <2>2, <2>3 DEF RunsOnce
<1>5. ASSUME NEW l, l.n \in 1 .. Len(hist), l.word \in DOMAIN hist[l.n].line, Final(Result(l))
      PROVE  Final(hist'[l.n].result[l.word])
  BY <1>2, <1>5 DEF Evolves, Result
<1>6. Waits'
  <2> SUFFICES ASSUME NEW e \in Slot, pc'[e] = "wait", loc'[e].op = ";"
               PROVE  Final(hist'[loc'[e].n].result[loc'[e].word]) \/ \E c \in Slot : WorksFor(c, e)'
    BY DEF Waits, Result
  <2>1. CASE e = x \/ e = y
    BY <2>1 DEF WaitsFairly
  <2>2. CASE e # x /\ e # y
    <3>1. pc[e] = "wait" /\ loc'[e] = loc[e]
      BY <2>2 DEF OthersKnow
    <3>2. PICK l : l = loc[e]
      OBVIOUS
    <3>3. l.op = ";" /\ Place("wait", l) /\ Spot("wait", l)
      BY <3>1, <3>2 DEF MInv, WInv, Places, Informed, Knows
    <3>4. l.n \in 1 .. Len(hist) /\ l.word \in DOMAIN hist[l.n].line
      BY <1>1, <3>3, OwnLine DEF Spot, Parsing, IsWord
    <3>5. CASE Final(Result(l))
      BY <1>5, <3>1, <3>2, <3>4, <3>5
    <3>6. CASE \E c \in Slot : WorksFor(c, e)
      <4>1. PICK c \in Slot : WorksFor(c, e)
        BY <3>6
      <4>2. /\ env_status[c] # "FREE" /\ env_id[c] = l.kid /\ Working(pc[c], loc[c])
            /\ loc[c].n = l.n /\ loc[c].word = l.word
        BY <3>2, <4>1 DEF WorksFor
      <4>3. env_status'[c] # "FREE" /\ env_id'[c] = l.kid
        BY <4>2 DEF KeepsWork
      <4>4. CASE c # x
        <5>1. c # y
          BY <4>2, <4>4 DEF Working
        <5>2. pc'[c] = pc[c] /\ loc'[c] = loc[c]
          BY <4>4, <5>1 DEF OthersKnow
        <5> QED BY <3>1, <3>2, <4>2, <4>3, <5>2 DEF WorksFor
      <4>5. CASE c = x
        <5>1. \/ Working(pc'[x], loc'[x]) /\ loc'[x].n = loc[x].n /\ loc'[x].word = loc[x].word
              \/ Final(hist'[loc[x].n].result[loc[x].word])
          BY <4>2, <4>5 DEF KeepsWork
        <5> QED BY <3>1, <3>2, <4>2, <4>3, <4>5, <5>1 DEF WorksFor
      <4> QED BY <4>4, <4>5
    <3> QED BY <3>1, <3>2, <3>3, <3>5, <3>6 DEF MInv, Waits
  <2> QED BY <2>1, <2>2
<1>7. ASSUME NEW n \in 1 .. Len(hist), NEW k \in Words(hist[n])
      PROVE  k \in DOMAIN hist[n].line /\ k % 2 = 1
  <2>1. Plain(hist[n]) /\ k \in DOMAIN hist[n].line /\ hist[n].line[k] \in WordTokens
    BY <1>2, <1>7 DEF Words, WordTokens
  <2> QED BY <2>1 DEF Plain, PlainLine
<1>8. Covered'
  <2> SUFFICES ASSUME NEW n \in DOMAIN hist', NEW k \in Words(hist'[n]),
                      hist'[n].result[k] = NotRun, ~Skipped(hist'[n], k)
               PROVE  \E e \in Slot : Covers(pc'[e], loc'[e], k) /\ loc'[e].n = n
    BY DEF Covered, Covers, ToRun, Ahead, Parsing, Skipped
  <2>1. CASE n \in 1 .. Len(hist)
    <3>1. k \in Words(hist[n])
      BY <2>1 DEF Words, Writes
    <3>2. k \in DOMAIN hist[n].line /\ k % 2 = 1
      BY <1>7, <2>1, <3>1
    <3>3. hist[n].result[k] = NotRun
      BY <2>1, <3>2 DEF Writes
    <3>4. ~Skipped(hist[n], k)
      BY <1>2, <2>1, <3>2, SkippedStays
    <3>5. PICK e \in Slot : Covers(pc[e], loc[e], k) /\ loc[e].n = n
      BY <1>1, <2>1, <3>1, <3>3, <3>4 DEF MInv, Covered
    <3>6. CASE e = x
      BY <3>1, <3>5, <3>6 DEF HandsOn
    <3>7. CASE e # x
      <4>1. e # y
        BY <3>5, <3>7 DEF Covers, ToRun, Ahead, Parsing
      <4> QED BY <3>5, <3>7, <4>1 DEF OthersKnow
    <3> QED BY <3>6, <3>7
  <2>2. CASE n \notin 1 .. Len(hist)
    <3>1. loc'[x].n = n /\ Ahead(pc'[x], loc'[x]) /\ loc'[x].pos = 1
      BY <2>2 DEF Writes
    <3>2. k \in DOMAIN hist'[n].line /\ Plain(hist'[n])
      BY <1>1, PlainLater DEF Words
    <3>3. k \in Nat /\ 1 <= k
      BY <3>2 DEF Plain
    <3> QED BY <3>1, <3>3 DEF Covers
  <2> QED BY <2>1, <2>2
<1>9. OnlyWhenDue'
  <2> SUFFICES ASSUME NEW n \in DOMAIN hist', NEW k \in Words(hist'[n]),
                      hist'[n].result[k] # NotRun
               PROVE  DueAt(hist'[n], k)
    BY DEF OnlyWhenDue, DueAt
  <2>1. n \in 1 .. Len(hist)
    BY DEF Words, Writes
  <2>2. k \in Words(hist[n])
    BY <2>1 DEF Words, Writes
  <2>3. k \in DOMAIN hist[n].line /\ k % 2 = 1
    BY <1>7, <2>1, <2>2
  <2>4. DueAt(hist[n], k)
    <3>1. CASE hist[n].result[k] # NotRun
      BY <1>1, <2>1, <2>2, <3>1 DEF MInv, OnlyWhenDue, DueAt
    <3>2. CASE hist[n].result[k] = NotRun
      <4>1. /\ n = loc[x].n /\ k = loc[x].word
            /\ Working(pc[x], loc[x]) \/ pc[x] = "main"
        BY <2>1, <2>3, <3>2 DEF Writes
      <4>2. pc[x] # "main"
        BY <3>2, <4>1 DEF MInv, Informed, Untouched, Result, NotRun, Started
      <4> QED BY <4>1, <4>2 DEF MInv, Informed, Knows
    <3> QED BY <3>1, <3>2
  <2> QED BY <1>2, <2>1, <2>3, <2>4, MeaningStays DEF Evolves
<1> QED BY <1>3, <1>4, <1>6, <1>8, <1>9 DEF MInv, PlainSessions

-----------------------------------------------------------------------------
\* What is known of the process that takes a step.
LEMMA MeaningMover ==
  ASSUME MInv, NEW p, At(p), p # "none"
  PROVE  /\ curenv \in Slot /\ env_status[curenv] = "RUNNABLE" /\ pc[curenv] = p
         /\ L = loc[curenv] /\ GoodLocals(L) /\ ~waiting_return_value[curenv]
         /\ Place(p, L) /\ DOMAIN pc = Slot /\ DOMAIN loc = Slot
         /\ Knows(p, L, return_value[curenv], waiting_return_value[curenv])
         /\ Untouched(p, L)
<1>1. WInv
  BY DEF MInv
<1>2. /\ curenv \in Slot /\ env_status[curenv] = "RUNNABLE" /\ pc[curenv] = p
      /\ L = loc[curenv] /\ GoodLocals(L) /\ ~waiting_return_value[curenv]
      /\ Place(p, L) /\ DOMAIN pc = Slot /\ DOMAIN loc = Slot
  BY <1>1, WaitMover
<1> QED BY <1>2 DEF MInv, Informed

LEMMA LineOfMover ==
  ASSUME MInv, NEW p, At(p), p \notin {"none", "prompt"}
  PROVE  /\ L.n \in 1 .. Len(hist) /\ L.line = hist[L.n].line /\ Plain(hist[L.n])
         /\ L.line \in PlainLine /\ DOMAIN L.line = 1 .. Len(L.line) /\ Len(L.line) \in Nat
         /\ \A k \in DOMAIN L.line : L.line[k] \in WordTokens <=> k % 2 = 1
         /\ \A k \in Words(hist[L.n]) : k \in DOMAIN L.line /\ k % 2 = 1
<1>1. Place(p, L) /\ HistOK
  BY MeaningMover DEF MInv, WInv
<1>2. /\ L.n \in 1 .. Len(hist) /\ L.line = hist[L.n].line
      /\ DOMAIN L.line = 1 .. Len(L.line) /\ Len(L.line) \in Nat
  BY <1>1, OwnLine
<1>3. Plain(hist[L.n])
  BY <1>2, PlainEntry
<1>4. L.line \in PlainLine
  BY <1>2, <1>3 DEF Plain
<1>5. \A k \in DOMAIN L.line : L.line[k] \in WordTokens <=> k % 2 = 1
  BY <1>2, <1>4 DEF PlainLine
<1> QED BY <1>2, <1>3, <1>4, <1>5 DEF Words, WordTokens

\* At the wait() of ;.
Joining(q, l) == q = "wait" /\ l.op = ";"

\* A process that is done with its line knows nothing and covers nothing.
LEMMA NothingLeft ==
  ASSUME NEW q, NEW l, q \in {"exit", "done", "prompt", "wait"}, ~Joining(q, l),
         NEW rv, NEW w
  PROVE  Knows(q, l, rv, w) /\ Untouched(q, l) /\ ~Working(q, l)
BY DEF Joining, Knows, Untouched, Spot, Ahead, Parsing, Working, ToRun, Holding, Program

\* A step of one process that is no system call and writes no result.
LEMMA LocalMeans ==
  ASSUME MInv, WInv', NEW p, At(p), p # "none", UNCHANGED <<vars, hist>>,
         NEW q, pc' = [pc EXCEPT ![curenv] = q] \/ (pc' = pc /\ q = p), q # "main",
         NEW l, loc' = [loc EXCEPT ![curenv] = l] \/ (loc' = loc /\ l = L),
         Knows(q, l, return_value[curenv], waiting_return_value[curenv]), Untouched(q, l),
         Working(p, L) => \/ Working(q, l) /\ l.n = L.n /\ l.word = L.word
                          \/ Final(Result(L)),
         ~Joining(q, l),
         \A k \in Words(hist[L.n]) : Covers(p, L, k) =>
           \/ hist[L.n].result[k] # NotRun
           \/ Skipped(hist[L.n], k)
           \/ Covers(q, l, k) /\ l.n = L.n
  PROVE  MInv'
<1>1. PICK x, m : x = curenv /\ m = L
  OBVIOUS
<1>2. x \in Slot /\ pc[x] = p /\ loc[x] = m /\ DOMAIN pc = Slot /\ DOMAIN loc = Slot
  BY <1>1, MeaningMover
<1>3. /\ pc'[x] = q /\ loc'[x] = l /\ hist' = hist
      /\ \A f \in Slot \ {x} : pc'[f] = pc[f] /\ loc'[f] = loc[f]
  BY <1>1, <1>2
<1>4. UNCHANGED <<env_status, env_id, return_value, waiting_return_value>>
  BY DEF vars, idvars, ipcvars
<1>5. PlainHist' /\ Writes(x)
  <2>1. Len(hist) \in Nat /\ DOMAIN hist = 1 .. Len(hist)
    BY HistFacts DEF MInv, WInv, HistOK
  <2>2. PlainHist'
    BY <1>3 DEF MInv, PlainHist
  <2>3. DOMAIN hist' = 1 .. Len(hist) /\ Len(hist) <= Len(hist')
    <3>1. DOMAIN hist' = DOMAIN hist /\ Len(hist') = Len(hist)
      BY <1>3
    <3> QED BY <2>1, <3>1
  <2>4. \A n : hist'[n] = hist[n]
    BY <1>3
  <2> QED BY <2>2, <2>3, <2>4 DEF Writes
<1>6. OthersKnow(x, x)
  BY <1>3, <1>4 DEF OthersKnow
<1>7. Learns(x)
  <2>1. Knows(q, l, return_value[x], waiting_return_value[x]) /\ Untouched(q, l)
    BY <1>1
  <2>2. Untouched(pc[x], loc[x])'
    BY <1>3, <2>1 DEF Untouched, Result
  <2>3. Knows(pc[x], loc[x], return_value[x], waiting_return_value[x])'
    BY <1>3, <1>4, <2>1 DEF Knows, Known, Result
  <2> QED BY <2>2, <2>3 DEF Learns
<1>8. StartsOnce(x, x) /\ WaitsFairly(x)
  BY <1>3 DEF StartsOnce, WaitsFairly, Joining
<1>9. KeepsWork(x)
  BY <1>1, <1>2, <1>3, <1>4 DEF KeepsWork, Result
<1>10. HandsOn(x)
  <2> SUFFICES ASSUME NEW k \in Words(hist[m.n]), Covers(p, m, k)
               PROVE  \/ hist'[m.n].result[k] # NotRun
                      \/ Skipped(hist'[m.n], k)
                      \/ \E e \in Slot : Covers(pc'[e], loc'[e], k) /\ loc'[e].n = m.n
    BY <1>2 DEF HandsOn
  <2>1. \/ hist[m.n].result[k] # NotRun
        \/ Skipped(hist[m.n], k)
        \/ Covers(q, l, k) /\ l.n = m.n
    BY <1>1
  <2> QED BY <1>2, <1>3, <2>1
<1> QED BY <1>2, <1>5, <1>6, <1>7, <1>8, <1>9, <1>10, MeaningKept

-----------------------------------------------------------------------------
LEMMA WordMeans ==
  ASSUME MInv, WInv', ParseWord
  PROVE  MInv'
<1>1. /\ At("parse") /\ Token \in WordTokens /\ UNCHANGED <<vars, pc, hist>>
      /\ loc' = [loc EXCEPT ![curenv] = [L EXCEPT !.pos = @ + 1, !.word = L.pos,
               !.argc = 1, !.flag = FALSE, !.job_flag = FALSE]]
  BY DEF ParseWord, WordTokens
<1>2. PICK m, l : /\ m = L
                  /\ l = [m EXCEPT !.pos = @ + 1, !.word = m.pos,
                          !.argc = 1, !.flag = FALSE, !.job_flag = FALSE]
  OBVIOUS
<1>3. /\ m.n \in 1 .. Len(hist) /\ m.line = hist[m.n].line
      /\ DOMAIN m.line = 1 .. Len(m.line) /\ Len(m.line) \in Nat
      /\ \A k \in DOMAIN m.line : m.line[k] \in WordTokens <=> k % 2 = 1
      /\ \A k \in Words(hist[m.n]) : k \in DOMAIN m.line /\ k % 2 = 1
  BY <1>1, <1>2, LineOfMover
<1>4. /\ Place("parse", m) /\ GoodLocals(m) /\ Untouched("parse", m)
      /\ Knows("parse", m, return_value[curenv], waiting_return_value[curenv])
  BY <1>1, <1>2, MeaningMover
<1>5. /\ l.n = m.n /\ l.line = m.line /\ l.pos = m.pos + 1 /\ l.word = m.pos /\ l.argc = 1
      /\ l.mark = m.mark /\ l.flag = FALSE
  BY <1>2, <1>4 DEF GoodLocals, NoLocals
<1>6. Ahead("parse", m) /\ Ahead("parse", l)
  BY DEF Ahead, Parsing
<1>7. m.pos \in DOMAIN m.line /\ m.line[m.pos] \in WordTokens /\ m.pos % 2 = 1
  <2>1. m.pos \in 1 .. Len(m.line) + 1
    BY <1>4, <1>6 DEF Place
  <2>2. "end" \notin WordTokens
    BY DEF WordTokens
  <2>3. ~(m.pos > Len(m.line)) /\ m.line[m.pos] \in WordTokens
    BY <1>1, <1>2, <2>2 DEF Token
  <2> QED BY <1>3, <2>1, <2>3
<1>8. m.argc = 0
  <2> SUFFICES ASSUME m.argc # 0 PROVE FALSE
    OBVIOUS
  <2>1. m.word = m.pos - 1 /\ m.word % 2 = 1
    BY <1>4 DEF Knows, Spot, Holding, IsWord
  <2> QED BY <1>3, <1>7, <2>1
<1>9. Known(m, m.pos)
  BY <1>4, <1>6, <1>8 DEF Knows, NextWord
<1>10. Knows("parse", l, return_value[curenv], waiting_return_value[curenv])
  <2>1. Spot("parse", l)
    <3>1. IsWord(l, l.word)
      BY <1>5, <1>7 DEF IsWord
    <3>2. l.word = l.pos - 1
      BY <1>3, <1>5, <1>7
    <3> QED BY <1>5, <3>1, <3>2 DEF Spot, Parsing
  <2>2. NextWord("parse", l) = m.pos
    BY <1>5 DEF NextWord
  <2>3. Known(l, NextWord("parse", l))
    BY <1>5, <1>9, <2>2 DEF Known
  <2> QED BY <2>1, <2>3 DEF Knows, Working
<1>11. Untouched("parse", l)
  <2>1. \A k \in DOMAIN m.line : k >= m.pos => hist[m.n].result[k] = NotRun
    BY <1>4, <1>6 DEF Untouched
  <2>2. hist[l.n].result[l.word] = NotRun
    BY <1>3, <1>5, <1>7, <2>1
  <2>3. ASSUME NEW k \in DOMAIN l.line, k >= l.pos PROVE hist[l.n].result[k] = NotRun
    <3>1. k \in DOMAIN m.line /\ k >= m.pos + 1
      BY <1>5, <2>3
    <3>2. k \in Int /\ m.pos \in Int
      BY <1>3, <1>7, <3>1
    <3>3. k >= m.pos
      BY <3>1, <3>2
    <3> QED BY <1>5, <2>1, <3>1, <3>3
  <2> QED BY <2>2, <2>3 DEF Untouched, Result
<1>12. \A k \in Words(hist[m.n]) : Covers("parse", m, k) => Covers("parse", l, k) /\ l.n = m.n
  BY <1>3, <1>5, <1>6, <1>7, <1>8 DEF Covers, ToRun
<1>13. ~Working("parse", m)
  BY DEF Working
<1> QED BY <1>1, <1>2, <1>10, <1>11, <1>12, <1>13, LocalMeans DEF Joining

LEMMA EndMeans ==
  ASSUME MInv, WInv', ParseEnd
  PROVE  MInv'
<1>1. /\ At("parse") /\ Token = "end" /\ UNCHANGED <<vars, hist>>
      /\ pc' = [pc EXCEPT ![curenv] = "run"]
      /\ loc' = [loc EXCEPT ![curenv].argc = IF L.mark THEN @ ELSE 0, ![curenv].flag = FALSE]
  BY DEF ParseEnd, Goto
<1>2. PICK m, l : m = L /\ l = [m EXCEPT !.argc = IF m.mark THEN @ ELSE 0, !.flag = FALSE]
  OBVIOUS
<1>3. /\ m.n \in 1 .. Len(hist) /\ m.line = hist[m.n].line
      /\ DOMAIN m.line = 1 .. Len(m.line) /\ Len(m.line) \in Nat
      /\ \A k \in DOMAIN m.line : m.line[k] \in WordTokens <=> k % 2 = 1
      /\ \A k \in Words(hist[m.n]) : k \in DOMAIN m.line /\ k % 2 = 1
  BY <1>1, <1>2, LineOfMover
<1>4. /\ Place("parse", m) /\ GoodLocals(m) /\ Untouched("parse", m)
      /\ Knows("parse", m, return_value[curenv], waiting_return_value[curenv])
      /\ curenv \in Slot /\ m = loc[curenv] /\ DOMAIN loc = Slot
  BY <1>1, <1>2, MeaningMover
<1>5. /\ l.n = m.n /\ l.line = m.line /\ l.word = m.word /\ l.flag = FALSE
      /\ l.argc = IF m.mark THEN m.argc ELSE 0
  BY <1>2, <1>4 DEF GoodLocals, NoLocals
<1>6. loc' = [loc EXCEPT ![curenv] = l]
  BY <1>1, <1>2, <1>4
<1>7. Ahead("parse", m)
  BY DEF Ahead, Parsing
<1>8. m.pos > Len(m.line) /\ m.pos \in Int
  <2>1. m.pos \in 1 .. Len(m.line) + 1
    BY <1>4, <1>7 DEF Place
  <2>2. "end" \notin WordTokens \cup OperatorTokens
    BY DEF WordTokens, OperatorTokens
  <2>3. m.line \in Seq(WordTokens \cup OperatorTokens)
    BY <1>1, <1>2, LineOfMover DEF PlainLine, RegularLine
  <2>4. m.pos \in DOMAIN m.line => m.line[m.pos] \in WordTokens \cup OperatorTokens
    BY <1>3, <2>3
  <2> QED BY <1>1, <1>2, <1>3, <2>1, <2>2, <2>4 DEF Token
<1>9. m.argc # 0 => /\ IsWord(m, m.word) /\ Result(m) = NotRun
                    /\ m.mark <=> DueAt(hist[m.n], m.word)
                    /\ ~m.mark => Skipped(hist[m.n], m.word)
  <2> SUFFICES ASSUME m.argc # 0
               PROVE  /\ IsWord(m, m.word) /\ Result(m) = NotRun
                      /\ m.mark <=> DueAt(hist[m.n], m.word)
                      /\ ~m.mark => Skipped(hist[m.n], m.word)
    OBVIOUS
  <2>1. Holding("parse", m) /\ ToRun("parse", m) /\ NextWord("parse", m) = m.word
    BY DEF Holding, ToRun, NextWord
  <2>2. IsWord(m, m.word) /\ Result(m) = NotRun /\ Known(m, m.word)
    BY <1>4, <1>7, <2>1 DEF Knows, Spot, Untouched
  <2> QED BY <2>2 DEF Known, IsWord
<1>10. Knows("run", l, return_value[curenv], waiting_return_value[curenv])
  <2>1. l.argc # 0 => IsWord(l, l.word) /\ DueAt(hist[l.n], l.word)
    BY <1>5, <1>9 DEF IsWord
  <2> QED BY <1>5, <2>1 DEF Knows, Spot, Ahead, Parsing, Working, Holding, Program
<1>11. Untouched("run", l)
  BY <1>5, <1>9 DEF Untouched, Ahead, Parsing, ToRun, Result
<1>12. \A k \in Words(hist[m.n]) : Covers("parse", m, k) =>
         Skipped(hist[m.n], k) \/ (Covers("run", l, k) /\ l.n = m.n)
  <2> SUFFICES ASSUME NEW k \in Words(hist[m.n]), Covers("parse", m, k)
               PROVE  Skipped(hist[m.n], k) \/ (Covers("run", l, k) /\ l.n = m.n)
    OBVIOUS
  <2>1. ~(m.pos <= k)
    BY <1>3, <1>8
  <2>2. m.argc # 0 /\ m.word = k
    BY <2>1 DEF Covers, ToRun
  <2> QED BY <1>5, <1>9, <2>2 DEF Covers, ToRun
<1>13. ~Working("parse", m)
  BY DEF Working
<1> QED BY <1>1, <1>2, <1>6, <1>10, <1>11, <1>12, <1>13, LocalMeans DEF Joining

LEMMA OperatorMeans ==
  ASSUME MInv, WInv', ParseOperator
  PROVE  MInv'
<1>1. /\ At("parse") /\ Token \in OperatorTokens /\ UNCHANGED <<vars, hist>>
      /\ pc' = [pc EXCEPT ![curenv] = "fork"]
      /\ loc' = [loc EXCEPT ![curenv] = [L EXCEPT !.pos = @ + 1, !.op = Token,
                   !.flag = Token \in {"a", "o"}, !.job_flag = @ \/ Token = "&"]]
  BY DEF ParseOperator, Goto, OperatorTokens
<1>2. PICK m, t, l : /\ m = L /\ t = Token
                     /\ l = [m EXCEPT !.pos = @ + 1, !.op = t,
                             !.flag = t \in {"a", "o"}, !.job_flag = @ \/ t = "&"]
  OBVIOUS
<1>3. /\ m.n \in 1 .. Len(hist) /\ m.line = hist[m.n].line
      /\ DOMAIN m.line = 1 .. Len(m.line) /\ Len(m.line) \in Nat
      /\ \A k \in DOMAIN m.line : m.line[k] \in WordTokens <=> k % 2 = 1
      /\ \A k \in Words(hist[m.n]) : k \in DOMAIN m.line /\ k % 2 = 1
  BY <1>1, <1>2, LineOfMover
<1>4. /\ Place("parse", m) /\ GoodLocals(m) /\ Untouched("parse", m)
      /\ Knows("parse", m, return_value[curenv], waiting_return_value[curenv])
  BY <1>1, <1>2, MeaningMover
<1>5. /\ l.n = m.n /\ l.line = m.line /\ l.pos = m.pos + 1 /\ l.word = m.word /\ l.argc = m.argc
      /\ l.mark = m.mark /\ l.op = t
  BY <1>2, <1>4 DEF GoodLocals, NoLocals
<1>6. Ahead("parse", m)
  BY DEF Ahead, Parsing
<1>7. t \in OperatorTokens /\ t \notin WordTokens /\ t # "end" /\ t \notin {"spawn", "line"}
  BY <1>1, <1>2 DEF WordTokens, OperatorTokens
<1>8. m.pos \in DOMAIN m.line /\ m.line[m.pos] = t /\ m.pos % 2 # 1
  <2>1. m.pos \in 1 .. Len(m.line) + 1
    BY <1>4, <1>6 DEF Place
  <2>2. ~(m.pos > Len(m.line)) /\ m.line[m.pos] = t
    BY <1>2, <1>7 DEF Token
  <2> QED BY <1>3, <1>7, <2>1, <2>2
<1>9. m.argc # 0
  BY <1>4, <1>8 DEF Knows, Spot
<1>10. /\ m.word = m.pos - 1 /\ IsWord(m, m.word) /\ Result(m) = NotRun /\ Known(m, m.word)
  <2>1. Holding("parse", m) /\ ToRun("parse", m) /\ NextWord("parse", m) = m.word
    BY <1>9 DEF Holding, ToRun, NextWord
  <2> QED BY <1>4, <1>6, <1>9, <2>1 DEF Knows, Spot, Untouched
<1>11. Parsing("fork", l) /\ Ahead("fork", l) /\ ~Working("fork", l)
  BY <1>5, <1>7 DEF Parsing, Ahead, Working
<1>12. Knows("fork", l, return_value[curenv], waiting_return_value[curenv])
  <2>1. Spot("fork", l)
    <3>1. IsWord(l, l.word)
      BY <1>5, <1>10 DEF IsWord
    <3>2. l.word = l.pos - 2
      BY <1>3, <1>5, <1>8, <1>10
    <3> QED BY <3>1, <3>2 DEF Spot
  <2>2. NextWord("fork", l) = m.word
    BY <1>5, <1>7 DEF NextWord
  <2>3. Known(l, NextWord("fork", l))
    BY <1>5, <1>10, <2>2 DEF Known
  <2> QED BY <1>11, <2>1, <2>3 DEF Knows
<1>13. Untouched("fork", l)
  <2>1. \A k \in DOMAIN m.line : k >= m.pos => hist[m.n].result[k] = NotRun
    BY <1>4, <1>6 DEF Untouched
  <2>2. ASSUME NEW k \in DOMAIN l.line, k >= l.pos PROVE hist[l.n].result[k] = NotRun
    <3>1. k \in DOMAIN m.line /\ k >= m.pos + 1
      BY <1>5, <2>2
    <3>2. k \in Int /\ m.pos \in Int
      BY <1>3, <1>8, <3>1
    <3>3. k >= m.pos
      BY <3>1, <3>2
    <3> QED BY <1>5, <2>1, <3>1, <3>3
  <2>3. Result(l) = NotRun
    BY <1>5, <1>10 DEF Result
  <2> QED BY <2>2, <2>3 DEF Untouched
<1>14. \A k \in Words(hist[m.n]) : Covers("parse", m, k) => Covers("fork", l, k) /\ l.n = m.n
  <2> SUFFICES ASSUME NEW k \in Words(hist[m.n]), Covers("parse", m, k)
               PROVE  Covers("fork", l, k)
    BY <1>5
  <2>1. k # m.pos /\ k \in Int /\ m.pos \in Int
    BY <1>3, <1>8
  <2> QED BY <1>5, <1>9, <1>11, <2>1 DEF Covers, ToRun
<1>15. ~Working("parse", m)
  BY DEF Working
<1> QED BY <1>1, <1>2, <1>12, <1>13, <1>14, <1>15, LocalMeans DEF Joining

-----------------------------------------------------------------------------
\* What mark says when an operator follows the command: after a command that
\* is skipped only && or || may come, and the status is 0.
LEMMA MarkFacts ==
  ASSUME NEW h, Plain(h), NEW l, h = hist[l.n], l.line = h.line, NEW w, Known(l, w),
         w \in DOMAIN h.line, w % 2 = 1, w + 1 \in DOMAIN h.line
  PROVE  /\ l.mark => DueAt(h, w) /\ StatusAt(h, w) = h.result[w]
         /\ ~l.mark => /\ h.line[w + 1] \in {"a", "o"} /\ Skipped(h, w)
                       /\ StatusAt(h, w) = 0
<1>1. /\ l.mark <=> DueAt(h, w)
      /\ ~l.mark => Skipped(h, w) /\ (h.line[w-1] = "o" => StatusAt(h, w-2) = 0)
  BY DEF Known
<1>2. CASE l.mark
  BY <1>1, <1>2, MeaningFacts
<1>3. CASE ~l.mark
  <2>1. w >= 3 /\ h.line[w-1] \in {"a", "o"} /\ ~DueAt(h, w)
    BY <1>1, <1>3 DEF Skipped
  <2>2. h.line \in PlainLine /\ DOMAIN h.line = 1 .. Len(h.line) /\ Len(h.line) \in Nat
    BY DEF Plain
  <2>3. w - 1 \in 1 .. Len(h.line) /\ w + 1 \in 1 .. Len(h.line) /\ w - 1 < w + 1 /\ (w + 1) % 2 # 1
    BY <2>1, <2>2
  <2>4. h.line[w + 1] \notin WordTokens
    BY <2>2, <2>3 DEF PlainLine
  <2>5. h.line[w-1] # "a"
    BY <2>2, <2>3, <2>4 DEF PlainLine
  <2>6. h.line[w-1] = "o" /\ h.line[w + 1] \in {"a", "o"}
    BY <2>1, <2>2, <2>3, <2>4, <2>5 DEF PlainLine
  <2>7. w # 1
    BY <2>1
  <2>8. StatusAt(h, w) = StatusAt(h, w-2)
    BY <2>1, <2>7, MeaningFacts
  <2> QED BY <1>1, <1>3, <2>6, <2>8
<1> QED BY <1>2, <1>3

\* What is known of a process between two steps of parsing.
LEMMA BetweenFacts ==
  ASSUME MInv, NEW p, At(p), Parsing(p, L), p # "parse"
  PROVE  /\ L.word = L.pos - 2 /\ L.pos \in 1 .. Len(L.line) + 1 /\ L.pos \in Int
         /\ L.op = L.line[L.pos - 1] /\ L.pos % 2 = 1 /\ L.pos # 1
         /\ L.word \in DOMAIN L.line /\ L.word % 2 = 1 /\ L.word + 1 \in DOMAIN L.line
         /\ L.word + 1 = L.pos - 1 /\ Known(L, L.word)
         /\ \A k \in DOMAIN L.line : k >= L.pos => hist[L.n].result[k] = NotRun
<1>1. p \notin {"none", "prompt"} /\ Ahead(p, L)
  BY DEF Parsing, Ahead
<1>2. DOMAIN L.line = 1 .. Len(L.line) /\ Len(L.line) \in Nat
  BY <1>1, LineOfMover
<1>3. Place(p, L) /\ Spot(p, L) /\ Known(L, NextWord(p, L)) /\ Untouched(p, L)
  BY <1>1, MeaningMover DEF Knows
<1>4. /\ L.word = L.pos - 2 /\ IsWord(L, L.word) /\ L.pos \in 1 .. Len(L.line) + 1
      /\ L.pos # 1 /\ L.op = L.line[L.pos - 1]
  BY <1>1, <1>3 DEF Spot, Place
<1>5. L.word \in DOMAIN L.line /\ L.word % 2 = 1
  BY <1>4 DEF IsWord
<1>6. L.pos % 2 = 1 /\ L.word + 1 \in DOMAIN L.line /\ L.word + 1 = L.pos - 1 /\ L.pos \in Int
  BY <1>2, <1>4, <1>5
<1>7. NextWord(p, L) = L.word
  BY DEF NextWord, Parsing
<1> QED BY <1>1, <1>3, <1>4, <1>5, <1>6, <1>7 DEF Untouched

\* Going back to parse, with nothing read yet: mark must be right.
LEMMA FreshMeans ==
  ASSUME MInv, WInv', NEW p, At(p), p \in {"cond", "wait"}, Parsing(p, L),
         UNCHANGED <<vars, hist>>, pc' = [pc EXCEPT ![curenv] = "parse"],
         NEW b, NEW l, l = [L EXCEPT !.argc = 0, !.mark = b],
         loc' = [loc EXCEPT ![curenv] = l],
         Known(l, l.pos)
  PROVE  MInv'
<1>1. GoodLocals(L) /\ p # "none" /\ p # "parse"
  BY MeaningMover
<1>2. l.n = L.n /\ l.line = L.line /\ l.pos = L.pos /\ l.argc = 0
  BY <1>1 DEF GoodLocals, NoLocals
<1>3. L.pos % 2 = 1 /\ \A k \in DOMAIN L.line : k >= L.pos => hist[L.n].result[k] = NotRun
  BY <1>1, BetweenFacts
<1>4. ~ToRun(p, L) /\ ~Working(p, L) /\ ~ToRun("parse", l) /\ Ahead("parse", l)
  BY <1>2 DEF ToRun, Working, Ahead, Parsing
<1>5. Knows("parse", l, return_value[curenv], waiting_return_value[curenv])
  <2>1. Spot("parse", l)
    BY <1>2, <1>3 DEF Spot, Parsing, Holding, Program
  <2>2. NextWord("parse", l) = l.pos
    BY <1>2 DEF NextWord
  <2> QED BY <2>1, <2>2 DEF Knows, Working
<1>6. Untouched("parse", l)
  BY <1>2, <1>3, <1>4 DEF Untouched
<1>7. \A k : Covers(p, L, k) => Covers("parse", l, k)
  BY <1>2, <1>4 DEF Covers
<1> QED BY <1>1, <1>2, <1>4, <1>5, <1>6, <1>7, LocalMeans DEF Joining

LEMMA ConditionMeans ==
  ASSUME MInv, WInv', Condition
  PROVE  MInv'
<1>1. PICK m, v, b : m = L /\ v = return_value[curenv] /\ b = ((m.op = "a") = (v = 0))
  OBVIOUS
<1>2. /\ At("cond") /\ UNCHANGED <<vars, hist>>
      /\ pc' = [pc EXCEPT ![curenv] = "parse"]
      /\ loc' = [loc EXCEPT ![curenv] = [Fresh EXCEPT !.mark = b]]
  BY <1>1 DEF Condition, Goto
<1>3. /\ GoodLocals(m) /\ Place("cond", m) /\ ~waiting_return_value[curenv]
      /\ Knows("cond", m, v, waiting_return_value[curenv])
  BY <1>1, <1>2, MeaningMover
<1>4. PICK l : l = [m EXCEPT !.argc = 0, !.mark = b]
  OBVIOUS
<1>5. [Fresh EXCEPT !.mark = b] = l
  BY <1>1, <1>3, <1>4 DEF Fresh, GoodLocals, NoLocals
<1>6. Parsing("cond", m)
  BY DEF Parsing
<1>7. /\ m.word = m.pos - 2 /\ m.pos \in Int /\ m.op = m.line[m.pos - 1]
      /\ m.pos % 2 = 1 /\ m.pos # 1
  BY <1>1, <1>2, <1>6, BetweenFacts
<1>8. m.op \in {"a", "o"} /\ v = StatusAt(hist[m.n], m.word) /\ Final(v)
  BY <1>3 DEF Place, Knows
<1>9. m.line = hist[m.n].line /\ Plain(hist[m.n])
  BY <1>1, <1>2, LineOfMover
<1>10. l.n = m.n /\ l.line = m.line /\ l.pos = m.pos /\ l.mark = b
  BY <1>3, <1>4 DEF GoodLocals, NoLocals
<1>11. Known(l, l.pos)
  <2> SUFFICES ASSUME m.pos \in DOMAIN m.line
               PROVE  /\ b <=> DueAt(hist[m.n], m.pos)
                      /\ ~b => /\ Skipped(hist[m.n], m.pos)
                               /\ m.op = "o" => StatusAt(hist[m.n], m.pos-2) = 0
    BY <1>7, <1>10 DEF Known
  <2>1. DueAt(hist[m.n], m.pos) <=> DueBy(hist[m.n], m.pos)
    BY <1>7, <1>9, MeaningFacts
  <2>2. m.pos >= 3
    BY <1>7, <1>9, MeaningFacts
  <2>3. StatusAt(hist[m.n], m.pos - 2) = v
    BY <1>7, <1>8
  <2>4. DueBy(hist[m.n], m.pos) <=> b
    <3>1. hist[m.n].line[m.pos - 1] = m.op
      BY <1>7, <1>9
    <3>2. CASE m.op = "a"
      <4>1. DueBy(hist[m.n], m.pos) <=> v = 0
        BY <2>3, <3>1, <3>2 DEF DueBy
      <4> QED BY <1>1, <3>2, <4>1
    <3>3. CASE m.op = "o"
      <4>1. DueBy(hist[m.n], m.pos) <=> v \in {-1, 1}
        BY <2>3, <3>1, <3>3 DEF DueBy
      <4>2. v \in {-1, 1} <=> v # 0
        BY <1>8 DEF Final
      <4> QED BY <1>1, <3>3, <4>1, <4>2
    <3> QED BY <1>8, <3>2, <3>3
  <2>5. ~b => (m.op = "o" => v = 0)
    BY <1>1
  <2> QED BY <1>7, <1>8, <1>9, <2>1, <2>2, <2>3, <2>4, <2>5 DEF Skipped
<1> QED BY <1>1, <1>2, <1>4, <1>5, <1>6, <1>11, FreshMeans

LEMMA WaitMeans ==
  ASSUME MInv, WInv', Wait, ~Valid(L.kid), UNCHANGED <<vars, hist>>
  PROVE  MInv'
<1>1. /\ At("wait")
      /\ pc' = [pc EXCEPT ![curenv] = CASE L.op = "line" -> "prompt"
                                        [] L.op = ";"    -> "parse"
                                        [] OTHER         -> "exit"]
      /\ loc' = [loc EXCEPT ![curenv] = IF L.op = ";" THEN Fresh ELSE L]
  BY DEF Wait, Goto
<1>2. PICK m : m = L
  OBVIOUS
<1>3. curenv \in Slot /\ m = loc[curenv] /\ GoodLocals(m) /\ pc[curenv] = "wait"
  BY <1>1, <1>2, MeaningMover
<1>4. CASE m.op = ";"
  <2>1. Parsing("wait", m)
    BY <1>4 DEF Parsing
  <2>2. PICK l : l = [m EXCEPT !.argc = 0, !.mark = TRUE]
    OBVIOUS
  <2>3. pc' = [pc EXCEPT ![curenv] = "parse"] /\ loc' = [loc EXCEPT ![curenv] = l]
    BY <1>1, <1>2, <1>4, <2>2 DEF Fresh
  <2>4. l.n = m.n /\ l.line = m.line /\ l.pos = m.pos /\ l.mark = TRUE
    BY <1>3, <2>2 DEF GoodLocals, NoLocals
  <2>5. /\ m.word = m.pos - 2 /\ m.pos \in Int /\ m.op = m.line[m.pos - 1]
        /\ m.pos % 2 = 1 /\ m.pos # 1 /\ m.word \in DOMAIN m.line /\ m.word % 2 = 1
        /\ m.word + 1 \in DOMAIN m.line /\ m.word + 1 = m.pos - 1 /\ Known(m, m.word)
    BY <1>1, <1>2, <2>1, BetweenFacts
  <2>6. m.line = hist[m.n].line /\ Plain(hist[m.n])
    BY <1>1, <1>2, LineOfMover
  <2>7. Final(Result(m))
    <3>1. ASSUME NEW c \in Slot, WorksFor(c, curenv) PROVE FALSE
      <4>1. env_status[c] # "FREE" /\ env_id[c] = m.kid
        BY <1>3, <3>1 DEF WorksFor
      <4>2. env_id[c][2] = c
        BY <4>1 DEF MInv, WInv, SInv, IInv, LiveFields
      <4>3. Valid(m.kid)
        BY <4>1, <4>2 DEF Valid, ENVX
      <4> QED BY <1>2, <4>3
    <3> QED BY <1>3, <1>4, <3>1 DEF MInv, Waits
  <2>8. m.mark
    <3>1. hist[m.n].line[m.word + 1] = ";"
      BY <1>4, <2>5, <2>6
    <3>2. ~m.mark => hist[m.n].line[m.word + 1] \in {"a", "o"}
      BY <2>5, <2>6, MarkFacts
    <3> QED BY <3>1, <3>2
  <2>9. Final(StatusAt(hist[m.n], m.word))
    BY <2>5, <2>6, <2>7, <2>8, MarkFacts DEF Result
  <2>10. Known(l, l.pos)
    <3> SUFFICES ASSUME m.pos \in DOMAIN m.line PROVE DueAt(hist[m.n], m.pos)
      BY <2>4 DEF Known
    <3>1. DueAt(hist[m.n], m.pos) <=> DueBy(hist[m.n], m.pos)
      BY <2>5, <2>6, MeaningFacts
    <3>2. Final(StatusAt(hist[m.n], m.pos - 2))
      BY <2>5, <2>9
    <3>3. hist[m.n].line[m.pos - 1] = ";"
      BY <1>4, <2>5, <2>6
    <3>4. StatusAt(hist[m.n], m.pos - 2) \notin {NotRun, Started}
      BY <3>2 DEF Final, NotRun, Started
    <3> QED BY <3>1, <3>3, <3>4 DEF DueBy
  <2> QED BY <1>1, <1>2, <2>1, <2>2, <2>3, <2>10, FreshMeans
<1>5. CASE m.op # ";"
  <2>1. PICK q : q \in {"prompt", "exit"} /\ pc' = [pc EXCEPT ![curenv] = q]
    BY <1>1, <1>2, <1>5
  <2>2. loc' = [loc EXCEPT ![curenv] = m] /\ ~Joining(q, m)
    BY <1>1, <1>2, <1>5, <2>1 DEF Joining
  <2>3. /\ Knows(q, m, return_value[curenv], waiting_return_value[curenv])
        /\ Untouched(q, m)
    BY <2>1, <2>2, NothingLeft
  <2>4. ~Working("wait", m) /\ \A k : ~Covers("wait", m, k)
    BY <1>5 DEF Working, Covers, ToRun, Ahead, Parsing
  <2> QED BY <1>1, <1>2, <2>1, <2>2, <2>3, <2>4, LocalMeans
<1> QED BY <1>4, <1>5

LEMMA AfterMeans ==
  ASSUME MInv, WInv', AfterCommand
  PROVE  MInv'
<1>1. At("after") /\ UNCHANGED <<vars, hist>>
  BY DEF AfterCommand
<1>2. PICK m : m = L
  OBVIOUS
<1>3. /\ curenv \in Slot /\ m = loc[curenv] /\ GoodLocals(m) /\ DOMAIN loc = Slot
      /\ pc[curenv] = "after" /\ ~waiting_return_value[curenv]
      /\ Knows("after", m, return_value[curenv], waiting_return_value[curenv])
  BY <1>1, <1>2, MeaningMover
<1>4. m.line = hist[m.n].line /\ Plain(hist[m.n])
  BY <1>1, <1>2, LineOfMover
<1>5. Final(Result(m))
  <2>1. Result(m) # NotRun /\ m.word \in DOMAIN m.line
    BY <1>3 DEF Knows, Spot, Holding, IsWord
  <2>2. Result(m) # Started
    BY <1>3 DEF MInv, WInv, NoEarlyReturn, Result
  <2> QED BY <1>4, <2>1, <2>2 DEF Plain, Result
<1>6. \A k : ~Covers("after", m, k)
  BY DEF Covers, ToRun, Ahead, Parsing
<1>7. CASE /\ pc' = [pc EXCEPT ![curenv] = "wait"]
           /\ loc' = [loc EXCEPT ![curenv].kid = L.rightpipe, ![curenv].op = "rightpipe"]
  <2>1. PICK l : l = [m EXCEPT !.kid = m.rightpipe, !.op = "rightpipe"]
    OBVIOUS
  <2>2. ~Joining("wait", l)
    BY <1>3, <2>1 DEF GoodLocals, NoLocals, Joining
  <2>3. loc' = [loc EXCEPT ![curenv] = l]
    BY <1>2, <1>3, <1>7, <2>1
  <2>4. /\ Knows("wait", l, return_value[curenv], waiting_return_value[curenv])
        /\ Untouched("wait", l)
    BY <2>2, NothingLeft
  <2> QED BY <1>1, <1>2, <1>5, <1>6, <1>7, <2>2, <2>3, <2>4, LocalMeans
<1>8. CASE pc' = [pc EXCEPT ![curenv] = "exit"] /\ loc' = loc
  <2>0. ~Joining("exit", m)
    BY DEF Joining
  <2>1. /\ Knows("exit", m, return_value[curenv], waiting_return_value[curenv])
        /\ Untouched("exit", m)
    BY <2>0, NothingLeft
  <2> QED BY <1>1, <1>2, <1>5, <1>6, <1>8, <2>0, <2>1, LocalMeans
<1> QED BY <1>7, <1>8 DEF AfterCommand, Goto

LEMMA TableMeans ==
  ASSUME MInv, WInv', CreateJob \/ SetJobDone
  PROVE  MInv'
<1>1. PICK m : m = L
  OBVIOUS
<1>2. CASE CreateJob
  <2>1. /\ At("spawned") /\ UNCHANGED <<vars, loc, hist>>
        /\ pc' = [pc EXCEPT ![curenv] = "recv"]
    BY <1>2 DEF CreateJob, Goto
  <2>2. Knows("spawned", m, return_value[curenv], waiting_return_value[curenv])
    BY <1>1, <2>1, MeaningMover
  <2>3. /\ Knows("recv", m, return_value[curenv], waiting_return_value[curenv])
        /\ Untouched("recv", m)
    BY <2>2 DEF Knows, Untouched, Spot, Ahead, Parsing, Working, ToRun, Holding, Program
  <2>4. Working("recv", m) /\ \A k : ~Covers("spawned", m, k)
    BY DEF Working, Covers, ToRun, Ahead, Parsing
  <2> QED BY <1>1, <2>1, <2>3, <2>4, LocalMeans DEF Joining
<1>3. CASE SetJobDone
  <2>1. /\ At("done") /\ UNCHANGED <<vars, loc, hist>>
        /\ pc' = [pc EXCEPT ![curenv] = "exit"]
    BY <1>3 DEF SetJobDone, Goto
  <2>0. ~Joining("exit", m)
    BY DEF Joining
  <2>2. /\ Knows("exit", m, return_value[curenv], waiting_return_value[curenv])
        /\ Untouched("exit", m)
    BY <2>0, NothingLeft
  <2>3. ~Working("done", m) /\ \A k : ~Covers("done", m, k)
    BY DEF Working, Covers, ToRun, Ahead, Parsing
  <2> QED BY <1>1, <2>0, <2>1, <2>2, <2>3, LocalMeans
<1> QED BY <1>2, <1>3

-----------------------------------------------------------------------------
\* A result is written where there was none.
LEMMA RecordWrites ==
  ASSUME MInv, HistOK', NEW x \in Slot, NEW n, NEW k, n = loc[x].n, k = loc[x].word,
         n \in 1 .. Len(hist), k \in DOMAIN hist[n].line, ~Final(hist[n].result[k]),
         NEW r, Final(r) \/ r = Started, hist' = Put(n, k, r),
         (ToRun(pc[x], loc[x]) /\ Working(pc[x], loc[x])) \/ pc[x] = "main"
  PROVE  /\ PlainHist' /\ Writes(x) /\ hist'[n].result[k] = r
         /\ Plain(hist'[n]) /\ Evolves(hist[n], hist'[n])
<1>1. r \in Int /\ r # NotRun
  BY DEF Final, NotRun, Started
<1>2. /\ Len(hist') = Len(hist)
      /\ \A m \in 1 .. Len(hist) : hist'[m].line = hist[m].line
      /\ hist'[n].result[k] = r
      /\ \A m \in 1 .. Len(hist), j \in Int :
           m # n \/ (j # k /\ j \in DOMAIN hist[m].line)
             => hist'[m].result[j] = hist[m].result[j]
  BY <1>1, RecordFacts DEF MInv, WInv
<1>3. Len(hist) \in Nat /\ DOMAIN hist = 1 .. Len(hist) /\ DOMAIN hist' = 1 .. Len(hist)
  <2>1. HistForm(hist')
    BY DEF HistOK
  <2> QED BY <1>2, <2>1, HistFacts DEF MInv, WInv, HistOK
<1>4. ASSUME NEW m \in 1 .. Len(hist), NEW j \in DOMAIN hist[m].line
      PROVE  hist'[m].result[j] = hist[m].result[j]
             \/ (m = n /\ j = k /\ hist'[m].result[j] = r)
  <2>1. j \in Int
    <3>1. HistForm(hist) /\ m \in DOMAIN hist
      BY <1>3 DEF MInv, WInv, HistOK
    <3>2. DOMAIN hist[m].line = 1 .. Len(hist[m].line) /\ Len(hist[m].line) \in Nat
      BY <3>1, HistFacts
    <3> QED BY <3>2
  <2> QED BY <1>2, <2>1
<1>5. PlainHist'
  <2> SUFFICES ASSUME NEW m \in DOMAIN hist'
               PROVE  /\ hist'[m].line \in PlainLine
                      /\ \A j \in DOMAIN hist'[m].line : Final(hist'[m].result[j])
                           \/ hist'[m].result[j] \in {NotRun, Started}
    BY DEF PlainHist, Final, NotRun, Started
  <2>0. m \in 1 .. Len(hist)
    BY <1>3
  <2>1. hist[m].line \in PlainLine /\ hist'[m].line = hist[m].line
    BY <1>2, <1>3, <2>0 DEF MInv, PlainHist
  <2>2. ASSUME NEW j \in DOMAIN hist[m].line
        PROVE  Final(hist'[m].result[j]) \/ hist'[m].result[j] \in {NotRun, Started}
    BY <1>3, <1>4, <2>0 DEF MInv, PlainHist
  <2> QED BY <2>1, <2>2
<1>6. Writes(x)
  <2>1. Len(hist) <= Len(hist') /\ \A m \in DOMAIN hist' : m \in 1 .. Len(hist)
    BY <1>2, <1>3
  <2> QED BY <1>1, <1>2, <1>4, <2>1 DEF Writes
<1>7. Plain(hist'[n])
  BY <1>2, <1>5, PlainLater
<1>8. Evolves(hist[n], hist'[n])
  BY <1>1, <1>2, <1>4 DEF Evolves
<1> QED BY <1>2, <1>5, <1>6, <1>7, <1>8

\* A process records the result of the command that it has or is.
Returns(l, r) == l.value = r

LEMMA RecordMeans ==
  ASSUME MInv, WInv', NEW p, At(p), (p = "run" /\ L.argc # 0) \/ p = "main",
         UNCHANGED vars, NEW r, Final(r), hist' = Record(r),
         NEW q, pc' = [pc EXCEPT ![curenv] = q],
         NEW l, loc' = [loc EXCEPT ![curenv] = l] \/ (loc' = loc /\ l = L),
         l.n = L.n, l.line = L.line, l.word = L.word,
         \/ q = "exit" \/ (q = "wait" /\ ~Joining(q, l))
         \/ q = "after" /\ p = "run"
         \/ q = "return" /\ p = "main" /\ Returns(l, r)
  PROVE  MInv'
<1>0. r # NotRun
  BY DEF Final, NotRun
<1>1. PICK x, m : x = curenv /\ m = L
  OBVIOUS
<1>2. /\ x \in Slot /\ pc[x] = p /\ loc[x] = m /\ DOMAIN pc = Slot /\ DOMAIN loc = Slot
      /\ Untouched(p, m) /\ Knows(p, m, return_value[x], waiting_return_value[x])
  BY <1>1, MeaningMover
<1>3. m.n \in 1 .. Len(hist) /\ m.line = hist[m.n].line /\ Plain(hist[m.n])
  BY <1>1, LineOfMover
<1>4. /\ pc'[x] = q /\ loc'[x] = l
      /\ \A f \in Slot \ {x} : pc'[f] = pc[f] /\ loc'[f] = loc[f]
  BY <1>1, <1>2
<1>5. UNCHANGED <<env_status, env_id, return_value, waiting_return_value>>
  BY DEF vars, idvars, ipcvars
<1>6. IsWord(m, m.word)
  BY <1>1, <1>2 DEF Knows, Spot, Holding, Program
<1>7. m.word \in DOMAIN hist[m.n].line /\ m.word % 2 = 1
  BY <1>3, <1>6 DEF IsWord
<1>8. ~Final(hist[m.n].result[m.word])
  <2>1. hist[m.n].result[m.word] = NotRun \/ hist[m.n].result[m.word] = Started
    BY <1>1, <1>2 DEF Untouched, ToRun, Result
  <2> QED BY <2>1 DEF Final, NotRun, Started
<1>9. (ToRun(pc[x], loc[x]) /\ Working(pc[x], loc[x])) \/ pc[x] = "main"
  BY <1>1, <1>2 DEF ToRun, Working
<1>10. hist' = Put(m.n, m.word, r)
  BY <1>1 DEF Record, Put
<1>11. /\ PlainHist' /\ Writes(x) /\ hist'[m.n].result[m.word] = r
       /\ Plain(hist'[m.n]) /\ Evolves(hist[m.n], hist'[m.n])
  <2>1. PICK n, k : n = m.n /\ k = m.word
    OBVIOUS
  <2>2. /\ n = loc[x].n /\ k = loc[x].word /\ n \in 1 .. Len(hist)
        /\ k \in DOMAIN hist[n].line /\ ~Final(hist[n].result[k]) /\ hist' = Put(n, k, r)
    BY <1>2, <1>3, <1>7, <1>8, <1>10, <2>1
  <2>3. HistOK'
    BY DEF WInv
  <2>4. /\ PlainHist' /\ Writes(x) /\ hist'[n].result[k] = r
        /\ Plain(hist'[n]) /\ Evolves(hist[n], hist'[n])
    BY <1>2, <1>9, <2>2, <2>3, RecordWrites
  <2> QED BY <2>1, <2>4
<1>12. OthersKnow(x, x)
  BY <1>4, <1>5 DEF OthersKnow
<1>13. p = "run" => DueAt(hist'[m.n], m.word)
  <2>1. p = "run" => DueAt(hist[m.n], m.word)
    BY <1>1, <1>2 DEF Knows, Working
  <2> QED BY <1>3, <1>7, <1>11, <2>1, MeaningStays DEF Evolves
<1>14. l.n = m.n /\ l.word = m.word /\ IsWord(l, l.word)
  BY <1>1, <1>6 DEF IsWord
<1>15. \A rv, w : Knows(q, l, rv, w)' /\ Untouched(q, l)'
  <2>1. CASE q = "exit" \/ (q = "wait" /\ ~Joining(q, l))
    BY <2>1 DEF Joining, Knows, Untouched, Spot, Ahead, Parsing, Working, ToRun, Holding, Program
  <2>2. CASE q = "after" /\ p = "run"
    <3>1. hist'[l.n].result[l.word] # NotRun
      BY <1>0, <1>11, <1>14
    <3>2. DueAt(hist'[l.n], l.word)
      BY <1>13, <1>14, <2>2
    <3> QED BY <1>14, <2>2, <3>1, <3>2
            DEF Knows, Untouched, Spot, Ahead, Parsing, Working, ToRun, Holding, Program, Result, IsWord
  <2>3. CASE q = "return" /\ p = "main" /\ Returns(l, r)
    <3>1. l.value = hist'[l.n].result[l.word] /\ Final(l.value)
      BY <1>11, <1>14, <2>3, Zenon DEF Returns
    <3> QED BY <1>14, <2>3, <3>1
            DEF Knows, Untouched, Spot, Ahead, Parsing, Working, ToRun, Holding, Program, Result, IsWord
  <2> QED BY <2>1, <2>2, <2>3
<1>16. Learns(x)
  BY <1>4, <1>15 DEF Learns, Knows, Known, Untouched, Result
<1>17. StartsOnce(x, x) /\ WaitsFairly(x)
  BY <1>4 DEF StartsOnce, WaitsFairly, Joining
<1>18. KeepsWork(x)
  BY <1>2, <1>5, <1>11 DEF KeepsWork
<1>19. HandsOn(x)
  <2> SUFFICES ASSUME NEW k, Covers(p, m, k) PROVE hist'[m.n].result[k] # NotRun
    BY <1>2 DEF HandsOn
  <2>1. k = m.word
    BY DEF Covers, ToRun, Ahead, Parsing
  <2> QED BY <1>0, <1>11, <2>1
<1>20. pc[x] # "none"
  BY <1>2
<1> QED BY <1>2, <1>11, <1>12, <1>16, <1>17, <1>18, <1>19, <1>20, MeaningKept

LEMMA BuiltinMeans ==
  ASSUME MInv, WInv', RunBuiltin
  PROVE  MInv'
<1>1. At("run") /\ L.argc # 0 /\ hist' = Record(0) /\ Final(0)
  BY DEF RunBuiltin, Final
<1>2. PICK m : m = L
  OBVIOUS
<1>3. /\ curenv \in Slot /\ m = loc[curenv] /\ GoodLocals(m) /\ DOMAIN loc = Slot
      /\ Place("run", m)
  BY <1>1, <1>2, MeaningMover
<1>4. Word # "k"
  <2>1. m.line \in PlainLine /\ DOMAIN m.line = 1 .. Len(m.line)
    BY <1>1, <1>2, LineOfMover
  <2>2. m.word \in DOMAIN m.line
    BY <1>1, <1>2, <1>3 DEF Place, Holding
  <2> QED BY <1>2, <2>1, <2>2 DEF PlainLine, Word
<1>5. CASE Goto("exit") /\ UNCHANGED <<vars, loc>>
  BY <1>1, <1>2, <1>5, RecordMeans DEF Goto
<1>6. CASE /\ Goto("wait") /\ UNCHANGED vars
           /\ loc' = [loc EXCEPT ![curenv].kid = jobs[1].envid, ![curenv].op = "fg"]
  <2>1. PICK l : l = [m EXCEPT !.kid = jobs[1].envid, !.op = "fg"]
    OBVIOUS
  <2>2. l.n = m.n /\ l.line = m.line /\ l.op = "fg" /\ l.word = m.word
    BY <1>3, <2>1 DEF GoodLocals, NoLocals
  <2>3. loc' = [loc EXCEPT ![curenv] = l]
    BY <1>3, <1>6, <2>1
  <2>4. ~Joining("wait", l)
    BY <2>2 DEF Joining
  <2> QED BY <1>1, <1>2, <1>6, <2>2, <2>3, <2>4, RecordMeans DEF Goto
<1> QED BY <1>4, <1>5, <1>6 DEF RunBuiltin

LEMMA SpawnMeans ==
  ASSUME MInv, WInv', RunSpawn
  PROVE  MInv'
<1>1. At("run") /\ L.argc # 0 /\ UNCHANGED vars
  BY DEF RunSpawn
<1>2. PICK m : m = L
  OBVIOUS
<1>3. /\ curenv \in Slot /\ m = loc[curenv] /\ GoodLocals(m) /\ DOMAIN loc = Slot
      /\ Untouched("run", m)
      /\ Knows("run", m, return_value[curenv], waiting_return_value[curenv])
  BY <1>1, <1>2, MeaningMover
<1>4. CASE /\ pc' = [pc EXCEPT ![curenv] = "fork"] /\ hist' = hist
           /\ loc' = [loc EXCEPT ![curenv].op = "spawn"]
  <2>1. PICK l : l = [m EXCEPT !.op = "spawn"]
    OBVIOUS
  <2>2. l.n = m.n /\ l.line = m.line /\ l.word = m.word /\ l.op = "spawn"
    BY <1>3, <2>1 DEF GoodLocals, NoLocals
  <2>3. loc' = [loc EXCEPT ![curenv] = l]
    BY <1>3, <1>4, <2>1
  <2>4. /\ IsWord(l, l.word) /\ DueAt(hist[l.n], l.word) /\ Result(l) = NotRun
    BY <1>1, <1>2, <1>3, <2>2 DEF Knows, Spot, Holding, Working, Untouched, ToRun, Result, IsWord
  <2>5. Working("fork", l) /\ ToRun("fork", l) /\ ~Ahead("fork", l) /\ ~Joining("fork", l)
    BY <2>2 DEF Working, ToRun, Ahead, Parsing, Joining
  <2>6. Knows("fork", l, return_value[curenv], waiting_return_value[curenv])
    BY <2>4, <2>5 DEF Knows, Spot, Ahead
  <2>7. Untouched("fork", l)
    BY <2>4, <2>5 DEF Untouched
  <2>8. \A k : Covers("run", m, k) => Covers("fork", l, k)
    BY <2>2, <2>5 DEF Covers, ToRun, Ahead, Parsing
  <2> QED BY <1>1, <1>2, <1>4, <2>2, <2>3, <2>5, <2>6, <2>7, <2>8, LocalMeans
<1>5. CASE pc' = [pc EXCEPT ![curenv] = "after"] /\ hist' = Record(-1) /\ loc' = loc
  <2>1. Final(-1)
    BY DEF Final
  <2> QED BY <1>1, <1>2, <1>5, <2>1, RecordMeans
<1> QED BY <1>4, <1>5 DEF RunSpawn, Goto

LEMMA ReturnMeans ==
  ASSUME MInv, WInv', NEW v \in {-1, 0, 1}, MainReturns(v)
  PROVE  MInv'
<1>1. /\ At("main") /\ UNCHANGED vars /\ hist' = Record(v) /\ Final(v)
      /\ pc' = [pc EXCEPT ![curenv] = "return"]
      /\ loc' = [loc EXCEPT ![curenv].value = v]
  BY DEF MainReturns, Goto, Final
<1>2. curenv \in Slot /\ L = loc[curenv] /\ GoodLocals(L) /\ DOMAIN loc = Slot
  BY <1>1, MeaningMover
<1>3. PICK l : l = [L EXCEPT !.value = v]
  OBVIOUS
<1>4. l.n = L.n /\ l.line = L.line /\ l.word = L.word /\ Returns(l, v)
  BY <1>2, <1>3 DEF GoodLocals, NoLocals, Returns
<1>5. loc' = [loc EXCEPT ![curenv] = l]
  BY <1>1, <1>2, <1>3
<1> QED BY <1>1, <1>4, <1>5, RecordMeans

LEMMA PromptMeans ==
  ASSUME MInv, WInv', NEW s \in Sessions, Prompt(s)
  PROVE  MInv'
<1>1. PICK x, l, t, h : /\ x = curenv /\ t = s[L.n + 1]
                        /\ l = [NoLocals EXCEPT !.n = L.n + 1, !.line = t, !.op = "line"]
                        /\ h = [line |-> t, result |-> [k \in DOMAIN t |-> NotRun]]
  OBVIOUS
<1>2. /\ At("prompt") /\ L.n < Len(s) /\ UNCHANGED vars
      /\ loc' = [loc EXCEPT ![x] = l] /\ hist' = Append(hist, h)
      /\ pc' = [pc EXCEPT ![x] = "fork"]
  BY <1>1 DEF Prompt, Goto
<1>3. /\ x \in Slot /\ pc[x] = "prompt" /\ DOMAIN pc = Slot /\ DOMAIN loc = Slot
      /\ L.n = Len(hist)
  BY <1>1, <1>2, MeaningMover DEF AtShell, Place
<1>4. Len(hist) \in Nat /\ DOMAIN hist = 1 .. Len(hist) /\ hist \in Seq(Entry)
  BY HistFacts DEF MInv, WInv, HistOK, HistForm
<1>5. t \in PlainLine
  <2>1. s \in Seq(PlainLine)
    BY DEF MInv, PlainSessions
  <2> QED BY <1>1, <1>2, <1>3, <1>4, <2>1
<1>6. DOMAIN t = 1 .. Len(t) /\ Len(t) \in Nat \ {0}
  <2>1. t \in Seq(WordTokens \cup OperatorTokens) /\ t # <<>>
    BY <1>5 DEF RegularLine, PlainLine
  <2> QED BY <2>1
<1>7. h.line = t /\ \A k \in DOMAIN t : h.result[k] = NotRun
  BY <1>1
<1>8. h \in Entry
  <2>1. [k \in DOMAIN t |-> NotRun] \in Seq(Int)
    BY <1>6 DEF NotRun
  <2> QED BY <1>1, <1>5, <2>1 DEF Entry, PlainLine
<1>9. /\ Len(hist') = Len(hist) + 1 /\ DOMAIN hist' = 1 .. Len(hist) + 1
      /\ \A n \in 1 .. Len(hist) : hist'[n] = hist[n]
      /\ hist'[Len(hist) + 1] = h
  BY <1>2, <1>4, <1>8
<1>10. l.n = Len(hist) + 1 /\ l.line = t /\ l.op = "line" /\ l.pos = 1 /\ l.argc = 0 /\ l.mark = TRUE
  BY <1>1, <1>3 DEF NoLocals
<1>11. /\ pc'[x] = "fork" /\ loc'[x] = l
       /\ \A f \in Slot \ {x} : pc'[f] = pc[f] /\ loc'[f] = loc[f]
  BY <1>2, <1>3
<1>12. UNCHANGED <<env_status, env_id, return_value, waiting_return_value>>
  BY <1>2 DEF vars, idvars, ipcvars
<1>13. PlainHist'
  <2> SUFFICES ASSUME NEW m \in DOMAIN hist'
               PROVE  /\ hist'[m].line \in PlainLine
                      /\ \A j \in DOMAIN hist'[m].line : Final(hist'[m].result[j])
                           \/ hist'[m].result[j] \in {NotRun, Started}
    BY DEF PlainHist, Final, NotRun, Started
  <2>1. CASE m \in 1 .. Len(hist)
    BY <1>4, <1>9, <2>1 DEF MInv, PlainHist
  <2>2. CASE m = Len(hist) + 1
    BY <1>5, <1>7, <1>9, <2>2
  <2> QED BY <1>4, <1>9, <2>1, <2>2
<1>14. Plain(h)
  BY <1>5, <1>6, <1>7 DEF Plain
<1>15. Ahead("fork", l) /\ ~ToRun("fork", l) /\ NextWord("fork", l) = 1 /\ ~Working("fork", l)
  BY <1>10 DEF Ahead, ToRun, NextWord, Working
<1>16. Writes(x)
  <2>1. \A n \in DOMAIN hist' : n \notin 1 .. Len(hist) => n = Len(hist) + 1
    BY <1>4, <1>9
  <2>2. Len(hist) <= Len(hist')
    BY <1>4, <1>9
  <2> QED BY <1>7, <1>9, <1>10, <1>11, <1>15, <2>1, <2>2 DEF Writes
<1>17. OthersKnow(x, x)
  BY <1>11, <1>12 DEF OthersKnow
<1>18. Learns(x)
  <2>1. Spot("fork", l)
    BY <1>10, <1>15 DEF Spot, Parsing, Holding, Program
  <2>2. DueAt(h, 1)
    <3>1. 1 \in DOMAIN h.line /\ 1 % 2 = 1
      BY <1>6, <1>7
    <3> QED BY <1>14, <3>1, MeaningFacts
  <2>3. Known(l, 1)'
    BY <1>9, <1>10, <2>2 DEF Known
  <2>4. Knows("fork", l, return_value[x], waiting_return_value[x])'
    BY <1>15, <2>1, <2>3 DEF Knows, Ahead, Parsing, Spot, Holding, Program, NextWord, Working, IsWord
  <2>5. Untouched("fork", l)'
    BY <1>7, <1>9, <1>10, <1>15 DEF Untouched, Ahead, Parsing, ToRun
  <2>6. Untouched(pc[x], loc[x])'
    BY <1>11, <2>5 DEF Untouched, Result
  <2>7. Knows(pc[x], loc[x], return_value[x], waiting_return_value[x])'
    BY <1>11, <2>4 DEF Knows, Known, Result
  <2> QED BY <2>6, <2>7 DEF Learns
<1>19. StartsOnce(x, x) /\ WaitsFairly(x)
  BY <1>11 DEF StartsOnce, WaitsFairly
<1>20. KeepsWork(x)
  BY <1>3, <1>12 DEF KeepsWork, Working
<1>21. HandsOn(x)
  BY <1>3 DEF HandsOn, Covers, ToRun, Ahead, Parsing
<1>22. pc[x] # "none"
  BY <1>3
<1> QED BY <1>3, <1>13, <1>16, <1>17, <1>18, <1>19, <1>20, <1>21, <1>22, MeaningKept

-----------------------------------------------------------------------------
\* A system call that writes no result, by process x at p, which goes to q.
LEMMA SystemMeans ==
  ASSUME MInv, WInv', UNCHANGED <<loc, hist>>, NEW x \in Slot, NEW p, NEW q, NEW l,
         pc[x] = p, p # "none", loc[x] = l, pc'[x] = q, q # "main", ~Joining(q, l),
         \A f \in Slot \ {x} : pc'[f] = pc[f], OthersKnow(x, x),
         q # "none" => /\ Knows(q, l, return_value'[x], waiting_return_value'[x])
                       /\ Untouched(q, l),
         \A c \in Slot : env_status[c] # "FREE" /\ Working(pc[c], loc[c])
                           => env_status'[c] # "FREE" /\ env_id'[c] = env_id[c],
         Working(p, l) => Working(q, l),
         \A k : Covers(p, l, k) => Covers(q, l, k)
  PROVE  MInv'
<1>1. Len(hist) \in Nat /\ DOMAIN hist = 1 .. Len(hist)
  BY HistFacts DEF MInv, WInv, HistOK
<1>2. hist' = hist /\ loc' = loc
  OBVIOUS
<1>3. PlainHist'
  BY <1>2 DEF MInv, PlainHist
<1>4. Writes(x)
  <2>1. DOMAIN hist' = 1 .. Len(hist) /\ Len(hist) <= Len(hist')
    <3>1. DOMAIN hist' = DOMAIN hist /\ Len(hist') = Len(hist)
      BY <1>2
    <3> QED BY <1>1, <3>1
  <2>2. \A n : hist'[n] = hist[n]
    BY <1>2
  <2> QED BY <2>1, <2>2 DEF Writes
<1>5. Learns(x)
  <2> SUFFICES ASSUME q # "none"
               PROVE  /\ Knows(pc[x], loc[x], return_value[x], waiting_return_value[x])'
                      /\ Untouched(pc[x], loc[x])'
    BY DEF Learns
  <2>1. Knows(q, l, return_value'[x], waiting_return_value'[x]) /\ Untouched(q, l)
    OBVIOUS
  <2>2. Untouched(pc[x], loc[x])'
    BY <1>2, <2>1 DEF Untouched, Result
  <2>3. Knows(pc[x], loc[x], return_value[x], waiting_return_value[x])'
    BY <1>2, <2>1 DEF Knows, Known, Result
  <2> QED BY <2>2, <2>3
<1>6. StartsOnce(x, x) /\ WaitsFairly(x)
  BY <1>2 DEF StartsOnce, WaitsFairly, Joining
<1>7. KeepsWork(x)
  BY <1>2 DEF KeepsWork
<1>8. HandsOn(x)
  BY <1>2 DEF HandsOn
<1> QED BY <1>3, <1>4, <1>5, <1>6, <1>7, <1>8, MeaningKept

LEMMA ExoforkMeans ==
  ASSUME MInv, WInv', NEW e \in Slot, Exofork(e)
  PROVE  MInv'
<1>1. PICK x, l : x = curenv /\ l = L
  OBVIOUS
<1>2. /\ At("fork") /\ sys_exofork(e) /\ UNCHANGED <<loc, hist>>
      /\ pc' = [pc EXCEPT ![x] = "start"]
  BY <1>1 DEF Exofork, Goto
<1>3. /\ x \in Slot /\ env_status[x] = "RUNNABLE" /\ pc[x] = "fork" /\ loc[x] = l
      /\ DOMAIN pc = Slot /\ Untouched("fork", l)
      /\ Knows("fork", l, return_value[x], waiting_return_value[x])
  BY <1>1, <1>2, MeaningMover
<1>4. env_status[e] = "FREE"
  <2>1. env_free_list # <<>> /\ e = Head(env_free_list)
    BY <1>2 DEF sys_exofork, env_alloc, LIST_FIRST
  <2>2. /\ env_free_list \in Seq(Slot)
        /\ Lists(env_free_list, {y \in Slot : env_status[y] = "FREE"})
    BY DEF MInv, WInv, SInv, IInv, TypeOK, FreeListExact
  <2>3. e \in {y \in Slot : env_status[y] = "FREE"}
    BY <2>1, <2>2, TailLists
  <2> QED BY <2>3
<1>5. PICK n : n = envid_count
  OBVIOUS
<1>6. /\ env_status' = [env_status EXCEPT ![e] = "NOT_RUNNABLE"]
      /\ env_id' = [env_id EXCEPT ![e] = <<n + 1, e>>]
      /\ waiting_return_value' = waiting_return_value /\ return_value' = return_value
  BY <1>1, <1>2, <1>5 DEF sys_exofork, env_alloc, mkenvid, ipcvars
<1>7. \A f \in Slot \ {e} : env_status'[f] = env_status[f] /\ env_id'[f] = env_id[f]
  BY <1>6 DEF MInv, WInv, SInv, IInv, TypeOK
<1>8. pc'[x] = "start" /\ \A f \in Slot \ {x} : pc'[f] = pc[f]
  BY <1>2, <1>3
<1>9. OthersKnow(x, x)
  BY <1>2, <1>6, <1>8 DEF OthersKnow
<1>10. Parsing("start", l) <=> Parsing("fork", l)
  BY DEF Parsing
<1>11. /\ Ahead("start", l) <=> Ahead("fork", l)
       /\ ToRun("start", l) <=> ToRun("fork", l)
       /\ Working("start", l) <=> Working("fork", l)
       /\ Holding("start", l) <=> Holding("fork", l)
       /\ NextWord("start", l) = NextWord("fork", l)
  BY <1>10 DEF Ahead, ToRun, Working, Holding, NextWord
<1>12. Spot("start", l)
  BY <1>3, <1>10, <1>11 DEF Knows, Spot, Program
<1>13. Knows("start", l, return_value'[x], waiting_return_value'[x])
  BY <1>3, <1>11, <1>12 DEF Knows
<1>14. Untouched("start", l)
  BY <1>3, <1>11 DEF Untouched
<1>15. \A k : Covers("fork", l, k) => Covers("start", l, k)
  BY <1>11 DEF Covers
<1>16. \A c \in Slot : env_status[c] # "FREE" /\ Working(pc[c], loc[c])
                         => env_status'[c] # "FREE" /\ env_id'[c] = env_id[c]
  BY <1>4, <1>7
<1>17. ~Joining("start", l)
  BY DEF Joining
<1> QED BY <1>2, <1>3, <1>8, <1>9, <1>11, <1>13, <1>14, <1>15, <1>16, <1>17, SystemMeans

LEMMA RecvMeans ==
  ASSUME MInv, WInv', RecvCondition \/ RecvResult
  PROVE  MInv'
<1>1. PICK p \in {"recvcond", "recv", "spawned"} : At(p)
  BY DEF RecvCondition, RecvResult
<1>2. PICK x, l, q : /\ x = curenv /\ l = L
                     /\ q = IF p = "recvcond" THEN "cond" ELSE IF l.flag THEN "forward" ELSE "after"
  OBVIOUS
<1>3. /\ x \in Slot /\ pc[x] = p /\ loc[x] = l /\ DOMAIN pc = Slot /\ Untouched(p, l)
      /\ Knows(p, l, return_value[x], waiting_return_value[x])
  BY <1>1, <1>2, MeaningMover
<1>4. /\ pc' = [pc EXCEPT ![x] = q] /\ sys_recv_return_value /\ UNCHANGED <<loc, hist>>
  BY <1>1, <1>2, <1>3 DEF RecvCondition, RecvResult, Goto, At
<1>5. /\ waiting_return_value' = [waiting_return_value EXCEPT ![x] = TRUE]
      /\ env_status' = [env_status EXCEPT ![x] = "NOT_RUNNABLE"]
      /\ env_id' = env_id /\ return_value' = return_value
  BY <1>2, <1>4 DEF sys_recv_return_value, Block, idvars
<1>6. /\ waiting_return_value'[x] /\ env_status'[x] = "NOT_RUNNABLE"
      /\ \A e \in Slot \ {x} : /\ waiting_return_value'[e] = waiting_return_value[e]
                               /\ env_status'[e] = env_status[e]
      /\ pc'[x] = q /\ \A e \in Slot \ {x} : pc'[e] = pc[e]
  BY <1>3, <1>4, <1>5 DEF MInv, WInv, SInv, IInv, TypeOK
<1>7. OthersKnow(x, x)
  BY <1>4, <1>5, <1>6 DEF OthersKnow
<1>8. /\ Knows(q, l, return_value'[x], waiting_return_value'[x]) /\ Untouched(q, l)
      /\ Working(p, l) => Working(q, l)
      /\ \A k : Covers(p, l, k) => Covers(q, l, k)
  <2>1. CASE p = "recvcond"
    <3>1. q = "cond"
      BY <1>2, <2>1
    <3>2. /\ Parsing("recvcond", l) /\ Parsing("cond", l)
          /\ Ahead("recvcond", l) /\ Ahead("cond", l)
          /\ ~Working("cond", l) /\ ~Working("recvcond", l)
          /\ ~ToRun("cond", l) /\ ~ToRun("recvcond", l)
          /\ ~Holding("cond", l) /\ ~Program("cond")
          /\ NextWord("cond", l) = NextWord("recvcond", l)
      BY DEF Parsing, Ahead, Working, ToRun, Holding, Program, NextWord
    <3>3. Spot("cond", l) /\ Known(l, NextWord("cond", l))
      BY <1>3, <2>1, <3>2 DEF Knows, Spot
    <3>4. Knows("cond", l, return_value'[x], waiting_return_value'[x])
      BY <1>6, <3>2, <3>3 DEF Knows
    <3>5. Untouched("cond", l)
      BY <1>3, <2>1, <3>2 DEF Untouched
    <3> QED BY <2>1, <3>1, <3>2, <3>4, <3>5 DEF Covers
  <2>2. CASE p # "recvcond"
    <3>1. q \in {"forward", "after"} /\ p \in {"recv", "spawned"}
      BY <1>1, <1>2, <2>2
    <3>2. /\ Holding(p, l) /\ Working(p, l) /\ Working(q, l) /\ ~Ahead(q, l) /\ ~ToRun(q, l)
          /\ ~Parsing(q, l) /\ ~Ahead(p, l) /\ ~ToRun(p, l)
      BY <3>1 DEF Holding, Working, Ahead, ToRun, Parsing
    <3>3. IsWord(l, l.word) /\ DueAt(hist[l.n], l.word) /\ Result(l) # NotRun
      BY <1>3, <3>1, <3>2 DEF Knows, Spot
    <3>4. Spot(q, l)
      BY <3>1, <3>2, <3>3 DEF Spot
    <3>5. Knows(q, l, return_value'[x], waiting_return_value'[x])
      BY <1>6, <3>1, <3>2, <3>3, <3>4 DEF Knows
    <3> QED BY <3>1, <3>2, <3>5 DEF Untouched, Covers
  <2> QED BY <2>1, <2>2
<1>9. \A c \in Slot : env_status[c] # "FREE" /\ Working(pc[c], loc[c])
                        => env_status'[c] # "FREE" /\ env_id'[c] = env_id[c]
  BY <1>5, <1>6
<1>10. q \in {"cond", "forward", "after"} /\ p # "none"
  BY <1>1, <1>2
<1>11. ~Joining(q, l)
  BY <1>10 DEF Joining
<1> QED BY <1>3, <1>4, <1>6, <1>7, <1>8, <1>9, <1>10, <1>11, SystemMeans

LEMMA ExitMeans ==
  ASSUME MInv, WInv', Exit
  PROVE  MInv'
<1>1. PICK x, l : x = curenv /\ l = L
  OBVIOUS
<1>2. /\ At("exit") /\ sys_env_destroy(x) /\ UNCHANGED <<loc, hist>>
      /\ pc' = [pc EXCEPT ![x] = "none"]
  BY <1>1 DEF Exit, Goto
<1>3. x \in Slot /\ pc[x] = "exit" /\ loc[x] = l /\ DOMAIN pc = Slot
  BY <1>1, <1>2, MeaningMover
<1>4. /\ env_status' = [env_status EXCEPT ![x] = "FREE"]
      /\ UNCHANGED <<env_id, waiting_return_value, return_value>>
  BY <1>2 DEF sys_env_destroy, env_destroy, ipcvars
<1>5. \A f \in Slot \ {x} : env_status'[f] = env_status[f] /\ pc'[f] = pc[f]
  BY <1>2, <1>3, <1>4 DEF MInv, WInv, SInv, IInv, TypeOK
<1>6. OthersKnow(x, x)
  BY <1>2, <1>4, <1>5 DEF OthersKnow
<1>7. ~Working("exit", l) /\ \A k : ~Covers("exit", l, k)
  BY DEF Working, Covers, ToRun, Ahead, Parsing
<1>8. \A c \in Slot : env_status[c] # "FREE" /\ Working(pc[c], loc[c])
                        => env_status'[c] # "FREE" /\ env_id'[c] = env_id[c]
  BY <1>3, <1>4, <1>5, <1>7
<1>9. pc'[x] = "none" /\ ~Joining("none", l)
  BY <1>2, <1>3 DEF Joining
<1> QED BY <1>2, <1>3, <1>5, <1>6, <1>7, <1>8, <1>9, SystemMeans

\* The value a process sends is the status of the command it is about.
LEMMA SendMeans ==
  ASSUME MInv, WInv', RunNothing \/ ForwardResult \/ SendResult
  PROVE  MInv'
<1>1. PICK p \in {"run", "forward", "return"} :
        /\ At(p) /\ (p = "run" => L.argc = 0)
        /\ SendToParent(IF p = "run" THEN 0 ELSE IF p = "forward" THEN return_value[curenv] ELSE L.value)
  BY DEF RunNothing, ForwardResult, SendResult
<1>2. PICK x, l, v : /\ x = curenv /\ l = L
                     /\ v = IF p = "run" THEN 0 ELSE IF p = "forward" THEN return_value[x] ELSE l.value
  OBVIOUS
<1>3. /\ x \in Slot /\ env_status[x] = "RUNNABLE" /\ pc[x] = p /\ loc[x] = l
      /\ Place(p, l) /\ DOMAIN pc = Slot /\ ~waiting_return_value[x]
      /\ Knows(p, l, return_value[x], waiting_return_value[x])
  BY <1>1, <1>2, MeaningMover
<1>4. PICK q : /\ pc' = [pc EXCEPT ![x] = q]
               /\ (q \in {"exit", "done"} /\ p # "forward") \/ (p = "forward" /\ q = "after")
  BY <1>1, <1>2, <1>3 DEF RunNothing, ForwardResult, SendResult, Goto, At
<1>5. UNCHANGED <<loc, hist>> /\ SendToParent(v)
  BY <1>1, <1>2 DEF RunNothing, ForwardResult, SendResult
<1>6. pc'[x] = q /\ \A e \in Slot \ {x} : pc'[e] = pc[e]
  BY <1>3, <1>4
<1>7. q \notin {"none", "main", "wait"} /\ ~Joining(q, l)
  BY <1>4 DEF Joining
<1>8. l.n \in 1 .. Len(hist) /\ l.line = hist[l.n].line /\ Plain(hist[l.n])
  BY <1>1, <1>2, LineOfMover
<1>9. /\ \A rv, w : Knows(q, l, rv, w) /\ Untouched(q, l)
      /\ Working(p, l) => Working(q, l)
      /\ \A k : Covers(p, l, k) => Covers(q, l, k)
  <2>1. CASE q \in {"exit", "done"} /\ p # "forward"
    <3>1. \A rv, w : Knows(q, l, rv, w) /\ Untouched(q, l)
      BY <1>7, <2>1, NothingLeft
    <3>2. ~Working(p, l) /\ \A k : ~Covers(p, l, k)
      BY <1>1, <1>2, <2>1 DEF Working, Covers, ToRun, Ahead, Parsing
    <3> QED BY <3>1, <3>2
  <2>2. CASE p = "forward" /\ q = "after"
    <3>1. IsWord(l, l.word) /\ DueAt(hist[l.n], l.word) /\ Result(l) # NotRun
      BY <1>3, <2>2 DEF Knows, Spot, Holding, Working
    <3>2. \A rv, w : Knows(q, l, rv, w) /\ Untouched(q, l)
      BY <2>2, <3>1 DEF Knows, Untouched, Spot, Ahead, Parsing, Working, ToRun, Holding, Program
    <3> QED BY <2>2, <3>2 DEF Working, Covers, ToRun, Ahead, Parsing
  <2> QED BY <1>4, <2>1, <2>2
<1>10. CASE UNCHANGED vars
  <2>1. UNCHANGED <<env_status, env_id, return_value, waiting_return_value>>
    BY <1>10 DEF vars, idvars, ipcvars
  <2>2. OthersKnow(x, x)
    BY <1>5, <1>6, <2>1 DEF OthersKnow
  <2>3. \A c \in Slot : env_status[c] # "FREE" /\ Working(pc[c], loc[c])
                          => env_status'[c] # "FREE" /\ env_id'[c] = env_id[c]
    BY <2>1
  <2> QED BY <1>1, <1>3, <1>5, <1>6, <1>7, <1>9, <2>2, <2>3, SystemMeans
<1>11. CASE sys_send_return_value(env_parent_id[curenv], v)
  <2>1. PICK e : e = ENVX(env_parent_id[x])
    OBVIOUS
  <2>2. /\ Valid(env_parent_id[x]) /\ waiting_return_value[e]
        /\ waiting_return_value' = [waiting_return_value EXCEPT ![e] = FALSE]
        /\ return_value' = [return_value EXCEPT ![e] = v]
        /\ env_status' = [env_status EXCEPT ![e] = "RUNNABLE"]
        /\ env_id' = env_id
    BY <1>2, <1>11, <2>1 DEF sys_send_return_value, EndWait, Wake, idvars
  <2>3. e \in Slot /\ KidOf(x, e) /\ e # x
    <3>1. e \in Slot
      BY <1>3, <2>1 DEF MInv, WInv, SInv, IInv, TypeOK, EnvId, ENVX
    <3> QED BY <1>3, <2>1, <2>2, <3>1 DEF Valid, KidOf
  <2>4. /\ ~waiting_return_value'[e] /\ env_status'[e] = "RUNNABLE" /\ return_value'[e] = v
        /\ \A f \in Slot \ {e} : /\ waiting_return_value'[f] = waiting_return_value[f]
                                 /\ return_value'[f] = return_value[f]
                                 /\ env_status'[f] = env_status[f]
    BY <2>2, <2>3 DEF MInv, WInv, SInv, IInv, TypeOK
  <2>5. pc[e] \in {"cond", "forward", "after"}
    BY <2>2, <2>3 DEF MInv, WInv, SlotsOK
  <2>6. KidFits(p, l, env_id[x], pc[e], loc[e], TRUE)
    <3>1. Kids
      BY DEF MInv, WInv
    <3> QED BY <1>3, <2>2, <2>3, <3>1, Zenon DEF Kids, KidFits
  <2>7. PICK t, m : t = pc[e] /\ m = loc[e]
    OBVIOUS
  <2>8. Knows(t, m, return_value[e], waiting_return_value[e]) /\ waiting_return_value[e]
    BY <2>2, <2>3, <2>5, <2>7 DEF MInv, Informed
  <2>9. \/ p = "return" /\ Program(p)
        \/ Teller(p, l)
        \/ MainLine(p, l)
    <3>1. p = "forward" => l.flag
      BY <1>3 DEF Place
    <3>2. p = "run" /\ ~l.flag => ~Piped(l) /\ l.argc = 0
      BY <1>1, <1>2, <1>3 DEF Place
    <3> QED BY <1>1, <3>1, <3>2 DEF Program, Teller, MainLine
  <2>10. \/ /\ p = "return" /\ t \in {"forward", "after"}
            /\ l.n = m.n /\ l.word = m.word
         \/ /\ Teller(p, l) /\ t = "cond"
            /\ l.n = m.n /\ l.word = m.word
    BY <2>5, <2>6, <2>7, <2>9 DEF KidFits
  <2>13. Knows(t, m, return_value'[e], waiting_return_value'[e])
    <3>1. CASE p = "return" /\ t \in {"forward", "after"} /\ l.n = m.n /\ l.word = m.word
      <4>1. v = Result(l) /\ Final(v)
        BY <1>2, <1>3, <3>1 DEF Knows
      <4>2. v = Result(m)
        BY <3>1, <4>1 DEF Result
      <4> QED BY <2>4, <2>8, <3>1, <4>1, <4>2 DEF Knows
    <3>2. CASE Teller(p, l) /\ t = "cond" /\ l.n = m.n /\ l.word = m.word
      <4>1. v = StatusAt(hist[l.n], l.word) /\ Final(v)
        <5>1. CASE p = "run"
          BY <1>1, <1>2, <1>3, <3>2, <5>1 DEF Knows, Teller, Final
        <5>2. CASE p = "forward"
          <6>1. v = Result(l) /\ Final(v) /\ DueAt(hist[l.n], l.word) /\ IsWord(l, l.word)
            BY <1>2, <1>3, <5>2 DEF Knows, Working, Spot, Holding
          <6>2. l.word \in DOMAIN hist[l.n].line /\ l.word % 2 = 1
            BY <1>8, <6>1 DEF IsWord
          <6>3. StatusAt(hist[l.n], l.word) = hist[l.n].result[l.word]
            BY <1>8, <6>1, <6>2, MeaningFacts
          <6> QED BY <6>1, <6>3 DEF Result
        <5>3. p # "return"
          BY <3>2 DEF Teller
        <5> QED BY <1>1, <5>1, <5>2, <5>3
      <4>2. v = StatusAt(hist[m.n], m.word)
        BY <3>2, <4>1
      <4> QED BY <2>4, <2>8, <3>2, <4>1, <4>2 DEF Knows
    <3> QED BY <2>10, <3>1, <3>2
  <2>14. OthersKnow(x, x)
    BY <1>5, <1>6, <2>4, <2>7, <2>13 DEF OthersKnow
  <2>15. \A c \in Slot : env_status[c] # "FREE" /\ Working(pc[c], loc[c])
                           => env_status'[c] # "FREE" /\ env_id'[c] = env_id[c]
    BY <2>2, <2>4
  <2> QED BY <1>1, <1>3, <1>5, <1>6, <1>7, <1>9, <2>14, <2>15, SystemMeans
<1> QED BY <1>5, <1>10, <1>11 DEF SendToParent

-----------------------------------------------------------------------------
\* The clock, yield and boot.
LEMMA IdleMeans ==
  ASSUME MInv, WInv', UNCHANGED <<pc, loc, hist, return_value, waiting_return_value>>,
         \/ UNCHANGED <<env_status, env_id>>
         \/ \A e \in Slot : pc[e] # "wait"
  PROVE  MInv'
<1>1. PlainSessions' /\ PlainHist'
  BY DEF MInv, PlainSessions, PlainHist
<1>2. Informed'
  BY DEF MInv, Informed, Knows, Known, Untouched, Result
<1>3. RunsOnce'
  BY DEF MInv, RunsOnce
<1>4. Waits'
  <2>1. CASE UNCHANGED <<env_status, env_id>>
    <3>1. Waits
      BY DEF MInv
    <3> QED BY <2>1, <3>1 DEF Waits, WorksFor, Result
  <2>2. CASE \A e \in Slot : pc[e] # "wait"
    BY <2>2 DEF Waits
  <2> QED BY <2>1, <2>2
<1>5. Covered'
  BY DEF MInv, Covered
<1>6. OnlyWhenDue'
  BY DEF MInv, OnlyWhenDue
<1> QED BY <1>1, <1>2, <1>3, <1>4, <1>5, <1>6 DEF MInv

LEMMA BootMeans ==
  ASSUME MInv, WInv', BootShell \/ Clock \/ UNCHANGED allvars \/ (Wait /\ sys_yield /\ UNCHANGED shellvars)
  PROVE  MInv'
<1>1. UNCHANGED <<pc, loc, hist>>
  BY DEF BootShell, Clock, shellvars, allvars
<1>2. CASE StartFirst \/ Timer \/ UNCHANGED vars \/ sys_yield
  <2>1. UNCHANGED <<env_status, env_id, waiting_return_value, return_value>>
    BY <1>2 DEF StartFirst, Timer, sys_yield, vars, idvars, ipcvars
  <2> QED BY <1>1, <2>1, IdleMeans
<1>3. CASE envid_count = 0 /\ env_create(0, 1)
  <2>1. UNCHANGED <<waiting_return_value, return_value>>
    BY <1>3 DEF env_create, ipcvars
  <2>2. \A e \in Slot : env_status[e] = "FREE"
    <3>1. \A e \in Slot : env_status[e] # "FREE" => env_id[e][1] \in 1 .. 0
      BY <1>3 DEF MInv, WInv, SInv, IInv, LiveFields
    <3> QED BY <3>1
  <2>3. \A e \in Slot : pc[e] # "wait"
    BY <2>2 DEF MInv, WInv, SlotsOK
  <2> QED BY <1>1, <2>1, <2>3, IdleMeans
<1> QED BY <1>2, <1>3 DEF BootShell, Clock, allvars

-----------------------------------------------------------------------------
\* fork: what the caller knows and has to run is split between the caller
\* and the child, and ; waits for the child that has the command.
Shares(l, id, P, m, C, k) ==
  /\ \A rv, w : Knows(P, m, rv, w) /\ Knows(C, k, rv, w)
  /\ Untouched(P, m) /\ Untouched(C, k)
  /\ P # "main" /\ C \notin {"main", "wait"}
  /\ Joining(P, m) => Working(C, k) /\ k.n = m.n /\ k.word = m.word /\ m.kid = id
  /\ m.n = l.n /\ k.n = l.n
  /\ \A j \in Words(hist[l.n]) : Covers("start", l, j) =>
       Skipped(hist[l.n], j) \/ Covers(P, m, j) \/ Covers(C, k, j)

\* One side runs the command,
LEMMA RunShare ==
  ASSUME NEW l, NEW r, r.n = l.n, r.line = l.line, r.word = l.word, r.argc # 0,
         IsWord(l, l.word), DueAt(hist[l.n], l.word), Result(l) = NotRun, NEW rv, NEW w
  PROVE  /\ Knows("run", r, rv, w) /\ Untouched("run", r) /\ Working("run", r)
         /\ Covers("run", r, l.word)
<1>1. IsWord(r, r.word) /\ Result(r) = NotRun
  BY DEF IsWord, Result
<1> QED BY <1>1
        DEF Knows, Untouched, Spot, Ahead, Parsing, Working, ToRun, Covers

\* and one side parses on.
LEMMA FreshShare ==
  ASSUME NEW l, NEW r, r.n = l.n, r.line = l.line, r.pos = l.pos, r.argc = 0, r.mark = TRUE,
         l.pos % 2 = 1, l.pos \in DOMAIN l.line => DueAt(hist[l.n], l.pos),
         \A k \in DOMAIN l.line : k >= l.pos => hist[l.n].result[k] = NotRun, NEW rv, NEW w
  PROVE  /\ Knows("parse", r, rv, w) /\ Untouched("parse", r)
         /\ \A j : l.pos <= j => Covers("parse", r, j)
<1>1. Ahead("parse", r) /\ ~ToRun("parse", r) /\ ~Holding("parse", r) /\ NextWord("parse", r) = l.pos
  BY DEF Ahead, Parsing, ToRun, Holding, NextWord
<1>2. Known(r, l.pos)
  BY DEF Known
<1>3. Spot("parse", r)
  BY <1>1 DEF Spot, Program
<1>4. Knows("parse", r, rv, w)
  BY <1>1, <1>2, <1>3 DEF Knows, Working
<1>5. Untouched("parse", r)
  BY <1>1 DEF Untouched
<1> QED BY <1>1, <1>4, <1>5 DEF Covers

LEMMA OperatorFacts ==
  ASSUME MInv, At("start"), L.op \in OperatorTokens
  PROVE  /\ L.op \notin {"spawn", "line"} /\ L.argc # 0
         /\ L.pos \in Int /\ L.pos % 2 = 1 /\ L.word = L.pos - 2
         /\ IsWord(L, L.word) /\ Result(L) = NotRun /\ Known(L, L.word)
         /\ \A k \in DOMAIN L.line : k >= L.pos => hist[L.n].result[k] = NotRun
         /\ L.mark <=> DueAt(hist[L.n], L.word)
         /\ ~L.mark => /\ L.op \in {"a", "o"} /\ Skipped(hist[L.n], L.word)
                       /\ StatusAt(hist[L.n], L.word) = 0
         /\ L.pos \in DOMAIN L.line => (DueAt(hist[L.n], L.pos) <=> DueBy(hist[L.n], L.pos))
         /\ L.op = hist[L.n].line[L.pos - 1]
         /\ \A j \in Words(hist[L.n]) : Covers("start", L, j) => j = L.word \/ L.pos <= j
<1>1. L.op \notin {"spawn", "line"}
  BY DEF OperatorTokens
<1>2. Parsing("start", L)
  BY <1>1 DEF Parsing
<1>3. /\ L.word = L.pos - 2 /\ L.pos \in Int /\ L.op = L.line[L.pos - 1]
      /\ L.pos % 2 = 1 /\ L.pos # 1 /\ L.word \in DOMAIN L.line /\ L.word % 2 = 1
      /\ L.word + 1 \in DOMAIN L.line /\ L.word + 1 = L.pos - 1 /\ Known(L, L.word)
      /\ \A k \in DOMAIN L.line : k >= L.pos => hist[L.n].result[k] = NotRun
  BY <1>2, BetweenFacts
<1>4. L.line = hist[L.n].line /\ Plain(hist[L.n])
  BY LineOfMover
<1>5. Place("start", L) /\ Untouched("start", L)
  BY MeaningMover
<1>6. L.argc # 0
  BY <1>2, <1>5 DEF Place
<1>7. Result(L) = NotRun
  BY <1>5, <1>6 DEF Untouched, ToRun
<1>8. L.mark <=> DueAt(hist[L.n], L.word)
  BY <1>3 DEF Known
<1>9. ~L.mark => /\ hist[L.n].line[L.word + 1] \in {"a", "o"} /\ Skipped(hist[L.n], L.word)
                 /\ StatusAt(hist[L.n], L.word) = 0
  BY <1>3, <1>4, MarkFacts
<1>10. L.op = hist[L.n].line[L.pos - 1] /\ hist[L.n].line[L.word + 1] = L.op
  BY <1>3, <1>4
<1>11. L.pos \in DOMAIN L.line => (DueAt(hist[L.n], L.pos) <=> DueBy(hist[L.n], L.pos))
  BY <1>3, <1>4, MeaningFacts
<1>12. IsWord(L, L.word)
  BY <1>3 DEF IsWord
<1>13. \A j \in Words(hist[L.n]) : Covers("start", L, j) => j = L.word \/ L.pos <= j
  BY DEF Covers
<1> QED BY <1>1, <1>3, <1>6, <1>7, <1>8, <1>9, <1>10, <1>11, <1>12, <1>13

LEMMA ForkShares ==
  ASSUME MInv, At("start"), L.op # "spawn", NEW id
  PROVE  Shares(L, id, ParentPc, ParentLocals(id), ChildPc, ChildLocals)
<1>1. PICK l : l = L
  OBVIOUS
<1>2. /\ GoodLocals(l) /\ Place("start", l) /\ Untouched("start", l)
      /\ Knows("start", l, return_value[curenv], waiting_return_value[curenv])
  BY <1>1, MeaningMover
<1>3. l.op \in OperatorTokens \cup {"spawn", "line"}
  BY <1>2 DEF Place
<1>4. CASE l.op = "line"
  <2>1. PICK m : m = [l EXCEPT !.kid = id]
    OBVIOUS
  <2>2. m.n = l.n /\ m.op = "line"
    BY <1>2, <1>4, <2>1 DEF GoodLocals, NoLocals
  <2>3. /\ ParentPc = "wait" /\ ChildPc = "parse" /\ ParentLocals(id) = m /\ ChildLocals = l
    BY <1>1, <1>4, <2>1 DEF ParentPc, ChildPc, ParentLocals, ChildLocals
  <2>4. l.pos = 1 /\ l.argc = 0 /\ Ahead("start", l) /\ NextWord("start", l) = l.pos
    BY <1>2, <1>4 DEF Place, Ahead, NextWord
  <2>5. ~Joining("wait", m)
    BY <2>2 DEF Joining
  <2>6. /\ \A rv, w : Knows("wait", m, rv, w)
        /\ Untouched("wait", m)
    BY <2>5, NothingLeft
  <2>7. Ahead("parse", l) /\ ~ToRun("parse", l) /\ ~Holding("parse", l) /\ NextWord("parse", l) = l.pos
    BY <2>4 DEF Ahead, Parsing, ToRun, Holding, NextWord
  <2>8. Known(l, l.pos)
    BY <1>2, <2>4 DEF Knows
  <2>9. Spot("parse", l)
    BY <2>4, <2>7 DEF Spot, Program
  <2>10. \A rv, w : Knows("parse", l, rv, w)
    BY <2>7, <2>8, <2>9 DEF Knows, Working
  <2>11. Untouched("parse", l)
    BY <1>2, <2>4, <2>7 DEF Untouched
  <2>12. \A j \in Words(hist[l.n]) : Covers("start", l, j) => Covers("parse", l, j)
    BY <1>4, <2>4, <2>7 DEF Covers, ToRun
  <2> QED BY <1>1, <2>2, <2>3, <2>5, <2>6, <2>10, <2>11, <2>12 DEF Shares
<1>5. ASSUME l.op \in OperatorTokens
      PROVE  /\ l.op \notin {"spawn", "line"} /\ l.argc # 0
             /\ l.pos \in Int /\ l.pos % 2 = 1 /\ l.word = l.pos - 2
             /\ IsWord(l, l.word) /\ Result(l) = NotRun /\ Known(l, l.word)
             /\ \A k \in DOMAIN l.line : k >= l.pos => hist[l.n].result[k] = NotRun
             /\ l.mark <=> DueAt(hist[l.n], l.word)
             /\ ~l.mark => /\ l.op \in {"a", "o"} /\ Skipped(hist[l.n], l.word)
                           /\ StatusAt(hist[l.n], l.word) = 0
             /\ l.pos \in DOMAIN l.line => (DueAt(hist[l.n], l.pos) <=> DueBy(hist[l.n], l.pos))
             /\ l.op = hist[l.n].line[l.pos - 1]
             /\ \A j \in Words(hist[l.n]) : Covers("start", l, j) => j = l.word \/ l.pos <= j
  BY <1>1, <1>5, OperatorFacts
<1>6. CASE l.op \in {"a", "o"}
  <2>0. l.op \in OperatorTokens
    BY <1>6 DEF OperatorTokens
  <2>1. PICK m, k : m = [l EXCEPT !.kid = id] /\ k = [l EXCEPT !.argc = IF l.mark THEN @ ELSE 0]
    OBVIOUS
  <2>2. /\ m.n = l.n /\ m.line = l.line /\ m.pos = l.pos /\ m.word = l.word /\ m.mark = l.mark
        /\ k.n = l.n /\ k.line = l.line /\ k.word = l.word
        /\ k.argc = IF l.mark THEN l.argc ELSE 0
    BY <1>2, <2>1 DEF GoodLocals, NoLocals
  <2>3. /\ ParentPc = "recvcond" /\ ChildPc = "run" /\ ParentLocals(id) = m /\ ChildLocals = k
    BY <1>1, <1>6, <2>1 DEF ParentPc, ChildPc, ParentLocals, ChildLocals
  <2>4. ~Joining("recvcond", m)
    BY DEF Joining
  <2>5. Ahead("recvcond", m) /\ ~ToRun("recvcond", m) /\ NextWord("recvcond", m) = l.word
        /\ ~Holding("recvcond", m) /\ ~Working("recvcond", m)
    BY <2>2 DEF Ahead, Parsing, ToRun, NextWord, Holding, Working
  <2>6. Known(m, l.word)
    BY <1>5, <2>0, <2>2 DEF Known
  <2>7. Spot("recvcond", m)
    BY <1>5, <2>0, <2>2, <2>5 DEF Spot, IsWord, Program
  <2>8. \A rv, w : Knows("recvcond", m, rv, w)
    BY <2>5, <2>6, <2>7 DEF Knows
  <2>9. Untouched("recvcond", m)
    BY <1>5, <2>0, <2>2, <2>5 DEF Untouched
  <2>10. /\ \A rv, w : Knows("run", k, rv, w)
         /\ Untouched("run", k) /\ (l.mark => Covers("run", k, l.word))
    <3>1. CASE l.mark
      BY <1>5, <2>0, <2>2, <3>1, RunShare
    <3>2. CASE ~l.mark
      <4>1. k.argc = 0 /\ IsWord(k, k.word) /\ StatusAt(hist[k.n], k.word) = 0
        BY <1>5, <2>0, <2>2, <3>2 DEF IsWord
      <4>2. ~Ahead("run", k) /\ ~ToRun("run", k) /\ ~Working("run", k)
        BY <4>1 DEF Ahead, Parsing, ToRun, Working
      <4>3. Spot("run", k)
        BY <4>1 DEF Spot, Parsing
      <4>4. \A rv, w : Knows("run", k, rv, w)
        BY <4>1, <4>2, <4>3 DEF Knows
      <4>5. Untouched("run", k)
        BY <4>2 DEF Untouched
      <4> QED BY <3>2, <4>4, <4>5
    <3> QED BY <3>1, <3>2
  <2>11. \A j \in Words(hist[l.n]) : Covers("start", l, j) =>
           Skipped(hist[l.n], j) \/ Covers("recvcond", m, j) \/ Covers("run", k, j)
    <3> SUFFICES ASSUME NEW j \in Words(hist[l.n]), Covers("start", l, j)
                 PROVE  Skipped(hist[l.n], j) \/ Covers("recvcond", m, j) \/ Covers("run", k, j)
      OBVIOUS
    <3>1. CASE j = l.word
      BY <1>5, <2>0, <2>10, <3>1
    <3>2. CASE l.pos <= j
      BY <2>2, <2>5, <3>2 DEF Covers
    <3> QED BY <1>5, <2>0, <3>1, <3>2
  <2> QED BY <1>1, <2>2, <2>3, <2>4, <2>8, <2>9, <2>10, <2>11 DEF Shares
<1>7. CASE l.op = ";"
  <2>0. l.op \in OperatorTokens /\ l.op \notin {"a", "o"}
    BY <1>7 DEF OperatorTokens
  <2>1. PICK m : m = [l EXCEPT !.kid = id]
    OBVIOUS
  <2>2. /\ m.n = l.n /\ m.line = l.line /\ m.pos = l.pos /\ m.word = l.word /\ m.mark = l.mark
        /\ m.op = l.op /\ m.kid = id /\ m.argc = l.argc
    BY <1>2, <2>1 DEF GoodLocals, NoLocals
  <2>3. /\ ParentPc = "wait" /\ ChildPc = "run" /\ ParentLocals(id) = m /\ ChildLocals = l
    BY <1>1, <1>7, <2>1 DEF ParentPc, ChildPc, ParentLocals, ChildLocals
  <2>4. l.mark /\ DueAt(hist[l.n], l.word)
    BY <1>5, <2>0
  <2>5. Parsing("wait", m)
    BY <1>7, <2>2 DEF Parsing
  <2>6. Ahead("wait", m) /\ ~ToRun("wait", m) /\ NextWord("wait", m) = l.word
        /\ ~Holding("wait", m) /\ ~Working("wait", m)
    BY <2>2, <2>5 DEF Ahead, ToRun, NextWord, Holding, Working
  <2>7. Known(m, l.word)
    BY <1>5, <2>0, <2>2 DEF Known
  <2>8. Spot("wait", m)
    BY <1>5, <2>0, <2>2, <2>6 DEF Spot, IsWord, Program
  <2>9. \A rv, w : Knows("wait", m, rv, w)
    BY <2>6, <2>7, <2>8 DEF Knows
  <2>10. Untouched("wait", m)
    BY <1>5, <2>0, <2>2, <2>6 DEF Untouched
  <2>11. /\ \A rv, w : Knows("run", l, rv, w)
         /\ Untouched("run", l) /\ Working("run", l) /\ Covers("run", l, l.word)
    BY <1>5, <2>0, <2>4, RunShare
  <2>12. \A j \in Words(hist[l.n]) : Covers("start", l, j) =>
           Covers("wait", m, j) \/ Covers("run", l, j)
    BY <1>5, <2>0, <2>2, <2>6, <2>11 DEF Covers
  <2> QED BY <1>1, <2>2, <2>3, <2>9, <2>10, <2>11, <2>12 DEF Shares
<1>8. CASE l.op = "&"
  <2>0. l.op \in OperatorTokens /\ l.op \notin {"a", "o"}
    BY <1>8 DEF OperatorTokens
  <2>1. PICK m : m = [l EXCEPT !.argc = 0, !.mark = TRUE]
    OBVIOUS
  <2>2. /\ m.n = l.n /\ m.line = l.line /\ m.pos = l.pos /\ m.argc = 0 /\ m.mark = TRUE
    BY <1>2, <2>1 DEF GoodLocals, NoLocals
  <2>3. /\ ParentPc = "parse" /\ ChildPc = "run" /\ ParentLocals(id) = m /\ ChildLocals = l
    BY <1>1, <1>8, <2>1 DEF ParentPc, ChildPc, ParentLocals, ChildLocals, Fresh
  <2>4. l.mark /\ DueAt(hist[l.n], l.word)
    BY <1>5, <2>0
  <2>5. l.pos \in DOMAIN l.line => DueAt(hist[l.n], l.pos)
    BY <1>5, <1>8, <2>0 DEF DueBy
  <2>6. ~Joining("parse", m)
    BY DEF Joining
  <2>7. /\ \A rv, w : Knows("parse", m, rv, w)
        /\ Untouched("parse", m) /\ \A j : l.pos <= j => Covers("parse", m, j)
    BY <1>5, <2>0, <2>2, <2>5, FreshShare
  <2>8. /\ \A rv, w : Knows("run", l, rv, w)
        /\ Untouched("run", l) /\ Covers("run", l, l.word)
    BY <1>5, <2>0, <2>4, RunShare
  <2>9. \A j \in Words(hist[l.n]) : Covers("start", l, j) =>
           Covers("parse", m, j) \/ Covers("run", l, j)
    BY <1>5, <2>0, <2>7, <2>8
  <2> QED BY <1>1, <2>2, <2>3, <2>6, <2>7, <2>8, <2>9 DEF Shares
<1>9. CASE l.op = "|"
  <2>0. l.op \in OperatorTokens /\ l.op \notin {"a", "o"}
    BY <1>9 DEF OperatorTokens
  <2>1. PICK m, k : /\ m = [l EXCEPT !.rightpipe = id]
                    /\ k = [[l EXCEPT !.argc = 0, !.mark = TRUE] EXCEPT !.rightpipe = NoId]
    OBVIOUS
  <2>2. /\ m.n = l.n /\ m.line = l.line /\ m.word = l.word /\ m.argc = l.argc
        /\ k.n = l.n /\ k.line = l.line /\ k.pos = l.pos /\ k.argc = 0 /\ k.mark = TRUE
    BY <1>2, <2>1 DEF GoodLocals, NoLocals
  <2>3. /\ ParentPc = "run" /\ ChildPc = "parse" /\ ParentLocals(id) = m /\ ChildLocals = k
    BY <1>1, <1>9, <2>1 DEF ParentPc, ChildPc, ParentLocals, ChildLocals, Fresh
  <2>4. l.mark /\ DueAt(hist[l.n], l.word)
    BY <1>5, <2>0
  <2>5. l.pos \in DOMAIN l.line => DueAt(hist[l.n], l.pos)
    <3>1. DueAt(hist[l.n], l.pos - 2)
      BY <1>5, <2>0, <2>4
    <3> QED BY <1>5, <1>9, <2>0, <3>1 DEF DueBy
  <2>6. ~Joining("run", m)
    BY DEF Joining
  <2>7. /\ \A rv, w : Knows("parse", k, rv, w)
        /\ Untouched("parse", k) /\ \A j : l.pos <= j => Covers("parse", k, j)
    BY <1>5, <2>0, <2>2, <2>5, FreshShare
  <2>8. /\ \A rv, w : Knows("run", m, rv, w)
        /\ Untouched("run", m) /\ Covers("run", m, l.word)
    BY <1>5, <2>0, <2>2, <2>4, RunShare
  <2>9. \A j \in Words(hist[l.n]) : Covers("start", l, j) =>
           Covers("run", m, j) \/ Covers("parse", k, j)
    BY <1>5, <2>0, <2>7, <2>8
  <2> QED BY <1>1, <2>2, <2>3, <2>6, <2>7, <2>8, <2>9 DEF Shares
<1> QED BY <1>1, <1>3, <1>4, <1>6, <1>7, <1>8, <1>9 DEF OperatorTokens

\* The child starts: fork hands on a part of the line, spawn the command.
LEMMA StartMeans ==
  ASSUME MInv, WInv', NEW e \in Slot, StartChild(e)
  PROVE  MInv'
<1>1. PICK x, l, id, P, m, C, k :
        /\ x = curenv /\ l = L /\ id = child[curenv]
        /\ P = ParentPc /\ m = ParentLocals(id) /\ C = ChildPc /\ k = ChildLocals
  OBVIOUS
<1>2. /\ At("start") /\ sys_set_env_status(e)
      /\ pc' = [pc EXCEPT ![e] = C, ![x] = P] /\ loc' = [loc EXCEPT ![e] = k, ![x] = m]
      /\ hist' = IF l.op = "spawn" THEN Put(l.n, l.word, Started) ELSE hist
  BY <1>1 DEF StartChild, Record, Put
<1>3. /\ x \in Slot /\ env_status[x] = "RUNNABLE" /\ pc[x] = "start" /\ loc[x] = l
      /\ GoodLocals(l) /\ DOMAIN pc = Slot /\ DOMAIN loc = Slot
      /\ Knows("start", l, return_value[x], waiting_return_value[x]) /\ Untouched("start", l)
  BY <1>1, <1>2, MeaningMover
<1>4. /\ id # NoId /\ e = ENVX(id) /\ env_status' = [env_status EXCEPT ![e] = "RUNNABLE"]
      /\ UNCHANGED <<env_id, waiting_return_value, return_value>>
  BY <1>1, <1>2 DEF sys_set_env_status, idvars, ipcvars
<1>5. env_status[e] = "NOT_RUNNABLE" /\ env_id[e] = id /\ ~waiting_return_value[e] /\ e # x
  BY <1>1, <1>3, <1>4 DEF MInv, WInv, SInv, IInv, ChildFresh
<1>6. pc[e] = "none"
  BY <1>5 DEF MInv, WInv, SlotsOK
<1>7. /\ pc'[x] = P /\ loc'[x] = m /\ pc'[e] = C /\ loc'[e] = k
      /\ \A f \in Slot \ {x, e} : pc'[f] = pc[f] /\ loc'[f] = loc[f]
  BY <1>2, <1>3, <1>5
<1>8. env_status'[e] = "RUNNABLE" /\ \A f \in Slot \ {e} : env_status'[f] = env_status[f]
  BY <1>4 DEF MInv, WInv, SInv, IInv, TypeOK
<1>9. OthersKnow(x, e)
  BY <1>4, <1>7 DEF OthersKnow
<1>10. \A c \in Slot : env_status[c] # "FREE" /\ Working(pc[c], loc[c])
                         => env_status'[c] # "FREE" /\ env_id'[c] = env_id[c]
  BY <1>4, <1>8
<1>11. l.n \in 1 .. Len(hist) /\ l.line = hist[l.n].line /\ Plain(hist[l.n])
  BY <1>1, <1>2, LineOfMover
<1>12. CASE l.op # "spawn"
  <2>1. hist' = hist
    BY <1>2, <1>12
  <2>2. Shares(l, id, P, m, C, k)
    BY <1>1, <1>2, <1>12, ForkShares
  <2>3. PlainHist' /\ Writes(x)
    <3>1. Len(hist) \in Nat /\ DOMAIN hist = 1 .. Len(hist)
      BY HistFacts DEF MInv, WInv, HistOK
    <3>2. PlainHist'
      BY <2>1 DEF MInv, PlainHist
    <3>3. DOMAIN hist' = DOMAIN hist /\ Len(hist') = Len(hist)
      BY <2>1
    <3>4. DOMAIN hist' = 1 .. Len(hist) /\ Len(hist) <= Len(hist')
      BY <3>1, <3>3
    <3>5. \A n : hist'[n] = hist[n]
      BY <2>1
    <3> QED BY <3>2, <3>4, <3>5 DEF Writes
  <2>4. Learns(x)
    <3>1. PICK rv, w : rv = return_value[x] /\ w = waiting_return_value[x]
      OBVIOUS
    <3>2. Knows(P, m, rv, w) /\ Untouched(P, m)
      BY <2>2 DEF Shares
    <3>3. Untouched(pc[x], loc[x])'
      BY <1>7, <2>1, <3>2 DEF Untouched, Result
    <3>4. Knows(pc[x], loc[x], return_value[x], waiting_return_value[x])'
      BY <1>4, <1>7, <2>1, <3>1, <3>2 DEF Knows, Known, Result
    <3> QED BY <3>3, <3>4 DEF Learns
  <2>5. Learns(e)
    <3>1. PICK rv, w : rv = return_value[e] /\ w = waiting_return_value[e]
      OBVIOUS
    <3>2. Knows(C, k, rv, w) /\ Untouched(C, k)
      BY <2>2 DEF Shares
    <3>3. Untouched(pc[e], loc[e])'
      BY <1>7, <2>1, <3>2 DEF Untouched, Result
    <3>4. Knows(pc[e], loc[e], return_value[e], waiting_return_value[e])'
      BY <1>4, <1>7, <2>1, <3>1, <3>2 DEF Knows, Known, Result
    <3> QED BY <3>3, <3>4 DEF Learns
  <2>6. StartsOnce(x, e) /\ pc'[e] # "wait"
    BY <1>7, <2>2 DEF Shares, StartsOnce
  <2>7. KeepsWork(x)
    <3>1. ~Working("start", l)
      BY <1>12 DEF Working
    <3> QED BY <1>3, <1>10, <3>1 DEF KeepsWork
  <2>8. WaitsFairly(x)
    <3> SUFFICES ASSUME Joining(pc'[x], loc'[x]) PROVE WorksFor(e, x)'
      BY DEF WaitsFairly, Joining
    <3>1. Working(C, k) /\ k.n = m.n /\ k.word = m.word /\ m.kid = id
      BY <1>7, <2>2 DEF Shares
    <3>2. /\ env_status'[e] # "FREE" /\ env_id'[e] = loc'[x].kid
          /\ loc'[e].n = loc'[x].n /\ loc'[e].word = loc'[x].word
      BY <1>4, <1>5, <1>7, <1>8, <3>1
    <3>3. Working(pc[e], loc[e])'
      BY <1>7, <3>1 DEF Working
    <3> QED BY <3>2, <3>3 DEF WorksFor
  <2>9. HandsOn(x)
    <3> SUFFICES ASSUME NEW j \in Words(hist[l.n]), Covers("start", l, j)
                 PROVE  \/ Skipped(hist'[l.n], j)
                        \/ \E f \in Slot : Covers(pc'[f], loc'[f], j) /\ loc'[f].n = l.n
      BY <1>3 DEF HandsOn
    <3>1. /\ m.n = l.n /\ k.n = l.n
          /\ Skipped(hist[l.n], j) \/ Covers(P, m, j) \/ Covers(C, k, j)
      BY <2>2 DEF Shares
    <3>2. CASE Skipped(hist[l.n], j)
      BY <2>1, <3>2
    <3>3. CASE Covers(P, m, j)
      BY <1>3, <1>7, <3>1, <3>3
    <3>4. CASE Covers(C, k, j)
      BY <1>7, <3>1, <3>4
    <3> QED BY <3>1, <3>2, <3>3, <3>4
  <2> QED BY <1>3, <1>6, <1>9, <2>3, <2>4, <2>5, <2>6, <2>7, <2>8, <2>9, MeaningKept
<1>13. CASE l.op = "spawn"
  <2>1. hist' = Put(l.n, l.word, Started)
    BY <1>2, <1>13
  <2>2. /\ P = "spawned" /\ C = "main" /\ k = l /\ m = [l EXCEPT !.kid = id]
    BY <1>1, <1>13 DEF ParentPc, ChildPc, ParentLocals, ChildLocals
  <2>3. m.n = l.n /\ m.line = l.line /\ m.word = l.word /\ m.op = "spawn"
    BY <1>3, <1>13, <2>2 DEF GoodLocals, NoLocals
  <2>4. /\ ToRun("start", l) /\ Working("start", l) /\ Holding("start", l) /\ ~Ahead("start", l)
    BY <1>13 DEF ToRun, Working, Holding, Ahead, Parsing
  <2>5. /\ l.word \in DOMAIN l.line /\ l.word % 2 = 1 /\ IsWord(l, l.word)
        /\ DueAt(hist[l.n], l.word) /\ hist[l.n].result[l.word] = NotRun
    BY <1>3, <2>4 DEF Knows, Spot, IsWord, Untouched, Result
  <2>6. ~Final(hist[l.n].result[l.word]) /\ Started # NotRun
    BY <2>5 DEF Final, NotRun, Started
  <2>7. /\ PlainHist' /\ Writes(x) /\ hist'[l.n].result[l.word] = Started
        /\ Plain(hist'[l.n]) /\ Evolves(hist[l.n], hist'[l.n])
    BY <1>3, <1>11, <2>1, <2>4, <2>5, <2>6, RecordWrites DEF WInv
  <2>8. DueAt(hist'[l.n], l.word)
    BY <1>11, <2>5, <2>7, MeaningStays DEF Evolves
  <2>9. Learns(x)
    <3>1. pc'[x] = "spawned" /\ loc'[x] = m /\ hist'[m.n].result[m.word] # NotRun
          /\ DueAt(hist'[m.n], m.word)
      BY <1>7, <2>2, <2>3, <2>6, <2>7, <2>8
    <3>2. IsWord(m, m.word)
      BY <2>3, <2>5 DEF IsWord
    <3>3. Untouched(pc[x], loc[x])'
      BY <3>1 DEF Untouched, Ahead, Parsing, ToRun
    <3>4. Spot(pc[x], loc[x])'
      BY <3>1, <3>2 DEF Spot, Parsing, IsWord
    <3>5. Knows(pc[x], loc[x], return_value[x], waiting_return_value[x])'
      BY <3>1, <3>4 DEF Knows, Ahead, Parsing, Result
    <3> QED BY <3>3, <3>5 DEF Learns
  <2>10. Learns(e)
    <3>1. pc'[e] = "main" /\ loc'[e] = l /\ hist'[l.n].result[l.word] = Started
      BY <1>7, <2>2, <2>7
    <3>3. Untouched(pc[e], loc[e])'
      BY <3>1 DEF Untouched, Ahead, Parsing, ToRun, Result
    <3>4. Spot(pc[e], loc[e])'
      BY <2>5, <3>1 DEF Spot, Parsing, IsWord
    <3>5. Knows(pc[e], loc[e], return_value[e], waiting_return_value[e])'
      BY <3>1, <3>4 DEF Knows, Ahead, Parsing, Working
    <3> QED BY <3>3, <3>5 DEF Learns
  <2>11. StartsOnce(x, e) /\ pc'[e] # "wait" /\ WaitsFairly(x)
    BY <1>3, <1>7, <2>2, <2>4 DEF StartsOnce, WaitsFairly
  <2>12. KeepsWork(x)
    <3>1. Working(pc'[x], loc'[x])
      BY <1>7, <2>2 DEF Working
    <3> QED BY <1>3, <1>7, <1>10, <2>3, <3>1 DEF KeepsWork
  <2>13. HandsOn(x)
    <3> SUFFICES ASSUME NEW j \in Words(hist[l.n]), Covers("start", l, j)
                 PROVE  hist'[l.n].result[j] # NotRun
      BY <1>3 DEF HandsOn
    <3> QED BY <2>4, <2>6, <2>7 DEF Covers
  <2> QED BY <1>3, <1>6, <1>9, <2>7, <2>9, <2>10, <2>11, <2>12, <2>13, MeaningKept
<1> QED BY <1>12, <1>13

-----------------------------------------------------------------------------
LEMMA MeaningInit == PlainSessions /\ ShellInit => MInv
<1> SUFFICES ASSUME PlainSessions, ShellInit PROVE MInv
  OBVIOUS
<1>1. RegularSessions
  <2>1. PlainLine \subseteq RegularLine
    BY DEF PlainLine
  <2>2. Seq(PlainLine) \subseteq Seq(RegularLine)
    <3> HIDE DEF PlainLine, RegularLine
    <3> QED BY <2>1
  <2> QED BY <2>2 DEF PlainSessions, RegularSessions
<1>2. WInv
  BY <1>1, WaitersInit
<1>3. hist = <<>> /\ pc = [e \in Slot |-> IF e = 0 THEN "prompt" ELSE "none"]
  BY DEF ShellInit
<1>4. DOMAIN hist = {}
  BY <1>3
<1>5. PlainHist /\ Covered /\ OnlyWhenDue
  BY <1>4 DEF PlainHist, Covered, OnlyWhenDue
<1>6. \A e \in Slot : pc[e] \in {"prompt", "none"}
  BY <1>3
<1>7. RunsOnce /\ Waits
  BY <1>6 DEF RunsOnce, Waits
<1>8. Informed
  <2> SUFFICES ASSUME NEW e \in Slot, pc[e] = "prompt"
               PROVE  /\ Knows(pc[e], loc[e], return_value[e], waiting_return_value[e])
                      /\ Untouched(pc[e], loc[e])
    BY <1>6 DEF Informed
  <2>1. ~Joining(pc[e], loc[e])
    BY DEF Joining
  <2> QED BY <2>1, NothingLeft
<1> QED BY <1>2, <1>5, <1>7, <1>8 DEF MInv

LEMMA MeaningNext == MInv /\ [ShellNext]_allvars => MInv'
<1> SUFFICES ASSUME MInv, [ShellNext]_allvars PROVE MInv'
  OBVIOUS
<1>1. WInv'
  BY WaitersNext DEF MInv
<1>2. CASE BootShell \/ Clock \/ UNCHANGED allvars
  BY <1>1, <1>2, BootMeans
<1>3. CASE ParseWord \/ ParseEnd \/ ParseOperator \/ Condition
  BY <1>1, <1>3, WordMeans, EndMeans, OperatorMeans, ConditionMeans
<1>4. CASE \E e \in Slot : Exofork(e) \/ StartChild(e)
  BY <1>1, <1>4, ExoforkMeans, StartMeans
<1>5. CASE Wait
  <2>1. CASE sys_yield /\ UNCHANGED shellvars
    BY <1>1, <1>5, <2>1, BootMeans
  <2>2. CASE ~Valid(L.kid) /\ UNCHANGED <<vars, hist>>
    BY <1>1, <1>5, <2>2, WaitMeans
  <2> QED BY <1>5, <2>1, <2>2 DEF Wait
<1>6. CASE RecvCondition \/ RecvResult
  BY <1>1, <1>6, RecvMeans
<1>7. CASE RunNothing \/ ForwardResult \/ SendResult
  BY <1>1, <1>7, SendMeans
<1>8. CASE RunBuiltin \/ RunSpawn \/ AfterCommand
  BY <1>1, <1>8, BuiltinMeans, SpawnMeans, AfterMeans
<1>9. CASE CreateJob \/ SetJobDone
  BY <1>1, <1>9, TableMeans
<1>10. CASE \E s \in Sessions : Prompt(s)
  BY <1>1, <1>10, PromptMeans
<1>11. CASE \E v \in {-1, 0, 1} : MainReturns(v)
  BY <1>1, <1>11, ReturnMeans
<1>12. CASE Exit
  BY <1>1, <1>12, ExitMeans
<1> QED BY <1>2, <1>3, <1>4, <1>5, <1>6, <1>7, <1>8, <1>9, <1>10, <1>11, <1>12
        DEF ShellNext, Step

\* What the processes know gives the three properties of a line.
LEMMA MeaningOfConditions == MInv => ConditionSeesStatus
<1> SUFFICES ASSUME MInv, NEW e \in Slot, pc[e] = "cond", ~waiting_return_value[e]
             PROVE  return_value[e] = StatusAt(hist[loc[e].n], loc[e].pos - 2)
  BY DEF ConditionSeesStatus, StatusAt
<1>1. Knows("cond", loc[e], return_value[e], waiting_return_value[e])
  BY DEF MInv, Informed
<1>2. loc[e].word = loc[e].pos - 2
  BY <1>1 DEF Knows, Spot, Parsing
<1>3. return_value[e] = StatusAt(hist[loc[e].n], loc[e].word)
  BY <1>1 DEF Knows
<1> QED BY <1>2, <1>3

LEMMA MeaningAtRest == MInv => NoneForgotten
<1> SUFFICES ASSUME MInv, AtRest, NEW n \in DOMAIN hist, NEW k \in Words(hist[n]),
                    DueAt(hist[n], k)
             PROVE  hist[n].result[k] # NotRun
  BY DEF NoneForgotten, DueAt
<1>1. \A e \in Slot : pc[e] \in {"none", "prompt"}
  <2> SUFFICES ASSUME NEW e \in Slot PROVE pc[e] \in {"none", "prompt"}
    OBVIOUS
  <2>1. CASE e = 0
    BY <2>1 DEF AtRest
  <2>2. CASE e # 0
    <3>1. env_status[e] = "FREE"
      BY <2>2 DEF AtRest
    <3> QED BY <2>2, <3>1 DEF MInv, WInv, SlotsOK
  <2> QED BY <2>1, <2>2
<1>2. \A e \in Slot : ~Covers(pc[e], loc[e], k)
  BY <1>1 DEF Covers, ToRun, Ahead, Parsing
<1>3. ~Skipped(hist[n], k)
  BY DEF Skipped
<1> QED BY <1>2, <1>3 DEF MInv, Covered

\* A command is started only if the line says so (user/sh.c parsecmd and
\* runcmd): after && only if everything to its left returned 0, after || only
\* if not, after ; only when the command before it has ended.  The decision
\* is made in one process and the command is run by another, and the theorem
\* says that no interleaving, time slice or reused slot comes between them.
THEOREM CommandsRunOnlyWhenDue == PlainSessions /\ ShellSpec => []OnlyWhenDue
<1>1. MInv => OnlyWhenDue
  BY DEF MInv
<1> QED BY <1>1, MeaningInit, MeaningNext, PTL DEF ShellSpec

\* The value that user/sh.c branches on at && and || is the status of what is
\* to the left, through the chain command, subshell, shell, and not a value
\* that an earlier command left in env_return_value.
THEOREM ConditionsSeeTheStatus == PlainSessions /\ ShellSpec => []ConditionSeesStatus
<1> QED BY MeaningOfConditions, MeaningInit, MeaningNext, PTL DEF ShellSpec

\* When the shell is back at its prompt and nothing else runs, every command
\* that the line says should run has run: no fork of user/sh.c drops a part
\* of the line.
THEOREM NoCommandIsForgotten == PlainSessions /\ ShellSpec => []NoneForgotten
<1> QED BY MeaningAtRest, MeaningInit, MeaningNext, PTL DEF ShellSpec
=============================================================================
