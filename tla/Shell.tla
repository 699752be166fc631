-------------------------------- MODULE Shell --------------------------------
(***************************************************************************)
(* The shell (user/sh.c) as a family of processes on the kernel of module  *)
(* KernelEnv: the interactive shell forks a subshell per line, subshells   *)
(* fork at && || ; & and |, spawn the commands, and learn their results    *)
(* through the return-value system calls and the job table of kern/env.c.  *)
(*                                                                         *)
(* A process runs only while it is curenv; its steps are its system calls  *)
(* and the reads of shared memory between them, and the clock may          *)
(* interrupt it between any two of them.  A line is a sequence of tokens.  *)
(* One token stands for a command with its arguments and redirections:     *)
(* "w" a program, "x" a name that is no program, "b" a built-in that only  *)
(* prints (jobs, history), "k" kill 1, "g" fg 1.  The operators are "a"    *)
(* for &&, "o" for ||, ";", "&" and "|".  File and pipe I/O is left out: a *)
(* command runs for any time and returns 0 or 1, or panics (value -1).     *)
(***************************************************************************)
EXTENDS KernelEnv

CONSTANT
  Sessions    \* what the user may type: sequences of lines, each of which
              \* begins with a word

ASSUME ShellAssumption ==
  /\ \A s \in Sessions : \A n \in DOMAIN s :
       /\ s[n] \in Seq({"w", "x", "b", "k", "g", "a", "o", ";", "&", "|"})
       /\ s[n] # <<>> /\ s[n][1] \in {"w", "x", "b", "k", "g"}
  /\ {-1, 0, 1} \subseteq Value
  /\ 1 \in Priorities

VARIABLES
  pc,     \* where each process is
  loc,    \* its local variables, copied by fork
  jobs,   \* the kernel's job table
  hist    \* history: each line typed and what became of its commands

shellvars == <<pc, loc, jobs, hist>>
allvars   == <<vars, shellvars>>

NotRun  == 9    \* in hist, beside the results: not started,
Started == 8    \* and started but without a result yet

\* Locals of a shell process: the line and its number, the next token, the
\* word parsed last (argv) and whether this call of parsecmd read it (argc),
\* mark, flag and job_flag, rightpipe, the operator that made it fork, and
\* the process it forked or spawned last.
NoLocals ==
  [n |-> 0, line |-> <<>>, pos |-> 1, word |-> 0, argc |-> 0, mark |-> TRUE,
   flag |-> FALSE, job_flag |-> FALSE, rightpipe |-> NoId, op |-> "none",
   kid |-> NoId, value |-> 0]

L == loc[curenv]
Goto(p) == pc' = [pc EXCEPT ![curenv] = p]
Token == IF L.pos > Len(L.line) THEN "end" ELSE L.line[L.pos]
At(p) == Running /\ pc[curenv] = p
Record(r) == [hist EXCEPT ![L.n].result[L.word] = r]

-----------------------------------------------------------------------------
(* parsecmd *)

\* case 'w': remember the word; any word ends the effect of '&'.
ParseWord ==
  /\ At("parse")
  /\ Token \in {"w", "x", "b", "k", "g"}
  /\ loc' = [loc EXCEPT ![curenv] = [L EXCEPT !.pos = @ + 1, !.word = L.pos,
               !.argc = 1, !.flag = FALSE, !.job_flag = FALSE]]
  /\ UNCHANGED <<vars, pc, jobs, hist>>

\* case 0: the end of the line.
ParseEnd ==
  /\ At("parse")
  /\ Token = "end"
  /\ loc' = [loc EXCEPT ![curenv].argc = IF L.mark THEN @ ELSE 0,
                        ![curenv].flag = FALSE]
  /\ Goto("run")
  /\ UNCHANGED <<vars, jobs, hist>>

\* The operators all fork; '&' sets job_flag and && and || set flag first.
ParseOperator ==
  /\ At("parse")
  /\ Token \in {"a", "o", ";", "&", "|"}
  /\ loc' = [loc EXCEPT ![curenv] = [L EXCEPT !.pos = @ + 1, !.op = Token,
               !.flag = Token \in {"a", "o"},
               !.job_flag = @ \/ Token = "&"]]
  /\ Goto("fork")
  /\ UNCHANGED <<vars, jobs, hist>>

-----------------------------------------------------------------------------
(* fork and spawn: sys_exofork, then sys_set_env_status on the child *)

Exofork(e) ==
  /\ At("fork")
  /\ sys_exofork(e)
  /\ Goto("start")
  /\ UNCHANGED <<loc, jobs, hist>>

Fresh == [L EXCEPT !.argc = 0, !.mark = TRUE]   \* a nested parsecmd(..., 1)

\* What the child starts with when fork returns 0 in it.
ChildLocals ==
  CASE L.op \in {"a", "o"} -> [L EXCEPT !.argc = IF L.mark THEN @ ELSE 0]
    [] L.op = "|"          -> [Fresh EXCEPT !.rightpipe = NoId]
    [] OTHER               -> L

ChildPc ==
  CASE L.op = "spawn"         -> "main"
    [] L.op \in {"line", "|"} -> "parse"
    [] OTHER                  -> "run"

ParentLocals(id) ==
  CASE L.op = "|"  -> [L EXCEPT !.rightpipe = id]
    [] L.op = "&"  -> Fresh
    [] OTHER       -> [L EXCEPT !.kid = id]

ParentPc ==
  CASE L.op = "spawn"         -> "spawned"
    [] L.op \in {"line", ";"} -> "wait"
    [] L.op \in {"a", "o"}    -> "recvcond"
    [] L.op = "&"             -> "parse"
    [] L.op = "|"             -> "run"

StartChild(e) ==
  /\ At("start")
  /\ sys_set_env_status(e)
  /\ pc' = [pc EXCEPT ![e] = ChildPc, ![curenv] = ParentPc]
  /\ loc' = [loc EXCEPT ![e] = ChildLocals,
                        ![curenv] = ParentLocals(child[curenv])]
  /\ hist' = IF L.op = "spawn" THEN Record(Started) ELSE hist
  /\ UNCHANGED jobs

\* wait(): yield while the process is alive under its id, then go on.
Wait ==
  /\ At("wait")
  /\ \/ /\ Valid(L.kid)
        /\ sys_yield
        /\ UNCHANGED shellvars
     \/ /\ ~Valid(L.kid)
        /\ Goto(CASE L.op = "line" -> "prompt"
                  [] L.op = ";"    -> "parse"
                  [] OTHER         -> "exit")
        /\ loc' = [loc EXCEPT ![curenv] = IF L.op = ";" THEN Fresh ELSE L]
        /\ UNCHANGED <<vars, jobs, hist>>

\* Mutant of RecvCondition: read return_value without waiting for it.
ReadCondition ==
  /\ At("recvcond")
  /\ Goto("cond")
  /\ UNCHANGED <<vars, loc, jobs, hist>>

\* && and ||: block for the left side's value, then parse on with mark set
\* to whether the next command is to run.
RecvCondition ==
  /\ At("recvcond")
  /\ sys_recv_return_value
  /\ Goto("cond")
  /\ UNCHANGED <<loc, jobs, hist>>

\* Mutant of Condition: || is taken for &&.
AlwaysAnd ==
  /\ At("cond")
  /\ loc' = [loc EXCEPT ![curenv] = [Fresh EXCEPT
               !.mark = return_value[curenv] = 0]]
  /\ Goto("parse")
  /\ UNCHANGED <<vars, jobs, hist>>

Condition ==
  /\ At("cond")
  /\ loc' = [loc EXCEPT ![curenv] = [Fresh EXCEPT
               !.mark = (L.op = "a") = (return_value[curenv] = 0)]]
  /\ Goto("parse")
  /\ UNCHANGED <<vars, jobs, hist>>

-----------------------------------------------------------------------------
(* The job table *)

\* Mutant of env_create_job: the entry starts as Done.
BornDone(id) == Append(jobs, [envid |-> id, job_status |-> 0])

\* env_create_job: the entry's job_id is its place in the table.
env_create_job(id) == Append(jobs, [envid |-> id, job_status |-> 1])

\* env_set_job_done: the first entry with this env_id, if there is one.
env_set_job_done(id) ==
  [i \in DOMAIN jobs |->
     IF jobs[i].envid = id /\ \A j \in 1 .. i-1 : jobs[j].envid # id
     THEN [jobs[i] EXCEPT !.job_status = 0] ELSE jobs[i]]

\* env_kill_job destroys whoever is RUNNABLE in the job's slot, and marks
\* the job unless that was the caller, who does not return.
env_kill_job(i) ==
  IF i \in DOMAIN jobs /\ env_status[ENVX(jobs[i].envid)] = "RUNNABLE"
  THEN LET s == ENVX(jobs[i].envid) IN
       /\ env_destroy(s)
       /\ pc' = IF s = curenv THEN [pc EXCEPT ![s] = "none"]
                ELSE [pc EXCEPT ![s] = "none", ![curenv] = "exit"]
       /\ jobs' = IF s = curenv THEN jobs
                  ELSE [jobs EXCEPT ![i].job_status = 0]
  ELSE Goto("exit") /\ UNCHANGED <<vars, jobs>>

-----------------------------------------------------------------------------
(* runcmd *)

\* One try to send a value to the parent; the result is not looked at.
SendToParent(v) ==
  LET p == env_parent_id[curenv] IN
  IF Valid(p) /\ waiting_return_value[ENVX(p)]
  THEN sys_send_return_value(p, v) ELSE UNCHANGED vars

Word == L.line[L.word]

\* argc == 0: nothing to run here, or a command that && or || skips.
RunNothing ==
  /\ At("run")
  /\ L.argc = 0
  /\ SendToParent(0)
  /\ Goto("exit")
  /\ UNCHANGED <<loc, jobs, hist>>

RunBuiltin ==
  /\ At("run")
  /\ L.argc # 0
  /\ \/ /\ Word = "b"
        /\ Goto("exit")
        /\ UNCHANGED <<vars, loc, jobs>>
     \/ /\ Word = "k"
        /\ env_kill_job(1)
        /\ UNCHANGED loc
     \/ /\ Word = "g"
        /\ IF jobs # <<>> /\ env_status[ENVX(jobs[1].envid)] = "RUNNABLE"
           THEN /\ Goto("wait")
                /\ loc' = [loc EXCEPT ![curenv].kid = jobs[1].envid,
                                      ![curenv].op = "fg"]
           ELSE Goto("exit") /\ UNCHANGED loc
        /\ UNCHANGED <<vars, jobs>>
  /\ hist' = Record(0)

\* spawn() of a name that cannot be opened returns an error; the subshell
\* prints it and goes on.
RunSpawn ==
  /\ At("run")
  /\ L.argc # 0
  /\ \/ /\ Word = "w"
        /\ Goto("fork")
        /\ loc' = [loc EXCEPT ![curenv].op = "spawn"]
        /\ UNCHANGED hist
     \/ /\ Word = "x"
        /\ Goto("after")
        /\ hist' = Record(-1)
        /\ UNCHANGED loc
  /\ UNCHANGED <<vars, jobs>>

\* The command is running.  A job is entered into the table first.
CreateJob ==
  /\ At("spawned")
  /\ ~L.flag /\ L.job_flag
  /\ jobs' = env_create_job(L.kid)
  /\ Goto("recv")
  /\ UNCHANGED <<vars, loc, hist>>

\* Mutant of RecvResult: go on without receiving.
NoRecvResult ==
  /\ \/ At("recv")
     \/ At("spawned") /\ (L.flag \/ ~L.job_flag)
  /\ Goto(IF L.flag THEN "forward" ELSE "after")
  /\ UNCHANGED <<vars, loc, jobs, hist>>

RecvResult ==
  /\ \/ At("recv")
     \/ At("spawned") /\ (L.flag \/ ~L.job_flag)
  /\ sys_recv_return_value
  /\ Goto(IF L.flag THEN "forward" ELSE "after")
  /\ UNCHANGED <<loc, jobs, hist>>

\* Mutant of ForwardResult: every command is reported to have succeeded.
ForwardZero ==
  /\ At("forward")
  /\ SendToParent(0)
  /\ Goto("after")
  /\ UNCHANGED <<loc, jobs, hist>>

ForwardResult ==
  /\ At("forward")
  /\ SendToParent(return_value[curenv])
  /\ Goto("after")
  /\ UNCHANGED <<loc, jobs, hist>>

\* if (rightpipe) wait(rightpipe); then close_all and exit.
AfterCommand ==
  /\ At("after")
  /\ IF L.rightpipe # NoId
     THEN /\ Goto("wait")
          /\ loc' = [loc EXCEPT ![curenv].kid = L.rightpipe,
                                ![curenv].op = "rightpipe"]
     ELSE Goto("exit") /\ UNCHANGED loc
  /\ UNCHANGED <<vars, jobs, hist>>

-----------------------------------------------------------------------------
(* The interactive shell, and the life of a command *)

\* readline returns the next line of a session.
Prompt(s) ==
  LET l == s[L.n + 1] IN
  /\ At("prompt")
  /\ L.n < Len(s)
  /\ \A n \in DOMAIN hist : hist[n].line = s[n]
  /\ loc' = [loc EXCEPT ![curenv] = [NoLocals EXCEPT !.n = L.n + 1,
                                     !.line = l, !.op = "line"]]
  /\ hist' = Append(hist, [line |-> l, result |-> [k \in DOMAIN l |-> NotRun]])
  /\ Goto("fork")
  /\ UNCHANGED <<vars, jobs>>

\* The program ends: main returns v, or (v = -1) user_panic is called.
MainReturns(v) ==
  /\ At("main")
  /\ loc' = [loc EXCEPT ![curenv].value = v]
  /\ hist' = Record(v)
  /\ Goto("return")
  /\ UNCHANGED <<vars, jobs>>

\* libmain and _user_panic send the value to the parent.
SendResult ==
  /\ At("return")
  /\ SendToParent(L.value)
  /\ Goto(IF L.value = -1 THEN "exit" ELSE "done")
  /\ UNCHANGED <<loc, jobs, hist>>

\* libmain, but not _user_panic, then reports the end of a job.
SetJobDone ==
  /\ At("done")
  /\ jobs' = env_set_job_done(env_id[curenv])
  /\ Goto("exit")
  /\ UNCHANGED <<vars, loc, hist>>

\* Mutant of Exit: the process stays.
ExitLoops == At("exit") /\ UNCHANGED allvars

\* exit(): syscall_env_destroy(0).
Exit ==
  /\ At("exit")
  /\ sys_env_destroy(curenv)
  /\ Goto("none")
  /\ UNCHANGED <<loc, jobs, hist>>

-----------------------------------------------------------------------------
ShellInit ==
  /\ Init
  /\ pc = [e \in Slot |-> IF e = 0 THEN "prompt" ELSE "none"]
  /\ loc = [e \in Slot |-> NoLocals]
  /\ jobs = <<>>
  /\ hist = <<>>

\* Boot makes the interactive shell the first and only process.
BootShell ==
  /\ \/ envid_count = 0 /\ env_create(0, 1)
     \/ StartFirst
  /\ UNCHANGED shellvars

Clock == Timer /\ UNCHANGED shellvars

\* One step of the process that is running.
Step ==
  \/ ParseWord \/ ParseEnd \/ ParseOperator
  \/ \E e \in Slot : Exofork(e) \/ StartChild(e)
  \/ Wait \/ RecvCondition \/ Condition
  \/ RunNothing \/ RunBuiltin \/ RunSpawn
  \/ CreateJob \/ RecvResult \/ ForwardResult \/ AfterCommand
  \/ \E s \in Sessions : Prompt(s)
  \/ \E v \in {-1, 0, 1} : MainReturns(v)
  \/ SendResult \/ SetJobDone \/ Exit

ShellNext == BootShell \/ Clock \/ Step

ShellSpec == ShellInit /\ [][ShellNext]_allvars

\* The clock goes on ticking, and a process that gets the CPU again and again
\* gets on with its program: a time slice lasts many instructions.
ShellFairSpec ==
  /\ ShellSpec
  /\ WF_allvars(BootShell)
  /\ WF_allvars(Clock)
  /\ \A e \in Slot : SF_allvars(curenv = e /\ Step)

-----------------------------------------------------------------------------
(* Properties *)

\* Processes are where their status allows: a slot has a program counter iff
\* it is live, and a process blocked for a return value is at a receive.
ShellTypeOK ==
  /\ \A e \in Slot : env_status[e] = "FREE" => pc[e] = "none" \/ ~Running
  /\ \A i \in DOMAIN jobs : jobs[i].envid \in EnvId /\ jobs[i].job_status \in {0, 1}
  /\ \A e \in Slot : waiting_return_value[e]
                       => pc[e] \in {"cond", "forward", "after"}

\* What a line means, for the results its commands had: && and || have the
\* same precedence and group to the left, a command that is skipped leaves
\* the status as it was, ; waits for what is before it, & and | do not.
\* The pair says whether command k is to run now and the status after it.
Meaning(h) ==
  LET f[k \in DOMAIN h.line] ==
        IF k = 1 THEN <<TRUE, h.result[1]>>
        ELSE IF k % 2 = 0 THEN f[k-1]
        ELSE LET prev == f[k-2]
                 op   == h.line[k-1]
                 due  == \/ op = "a" /\ prev[2] = 0
                         \/ op = "o" /\ prev[2] \in {-1, 1}
                         \/ op = ";" /\ prev[2] \notin {NotRun, Started}
                         \/ op = "&"
                         \/ op = "|" /\ prev[1]
             IN <<due, IF due THEN h.result[k] ELSE prev[2]>>
  IN f

Words(h) == {k \in DOMAIN h.line : h.line[k] \in {"w", "x", "b", "k", "g"}}

\* A command is started only if the line says so: after && only if what is
\* before it returned 0, after || only if not, after ; only when it has ended.
OnlyWhenDue ==
  \A n \in DOMAIN hist : \A k \in Words(hist[n]) :
    hist[n].result[k] # NotRun => Meaning(hist[n])[k][1]

AtRest ==
  Running /\ pc[0] = "prompt"
  /\ \A e \in Slot \ {0} : env_status[e] = "FREE"

\* When the shell is back at its prompt and nothing else runs, every command
\* the line says should run has run.
NoneForgotten ==
  AtRest => \A n \in DOMAIN hist : \A k \in Words(hist[n]) :
              Meaning(hist[n])[k][1] => hist[n].result[k] # NotRun

\* The value a shell branches on at && and || is the status of everything to
\* the left, through the chain command, subshell, shell, and never a value
\* left in return_value from an earlier command.
ConditionSeesStatus ==
  \A e \in Slot :
    pc[e] = "cond" /\ ~waiting_return_value[e]
      => return_value[e] = Meaning(hist[loc[e].n])[loc[e].pos - 2][2]

\* A subshell that has received a value goes on only when its own command has
\* produced one: no other process wakes it early.
NoEarlyReturn ==
  \A e \in Slot :
    pc[e] \in {"forward", "after"} /\ ~waiting_return_value[e]
      => hist[loc[e].n].result[loc[e].word] # Started

\* A job that is listed as Done is not running any more: its process is gone
\* or about to destroy itself.
DoneMeansEnded ==
  \A i \in DOMAIN jobs :
    jobs[i].job_status = 0 /\ Valid(jobs[i].envid)
      => pc[ENVX(jobs[i].envid)] = "exit"

\* Blocked for a return value that nobody is left to send.
Stranded ==
  \E e \in Slot :
    /\ waiting_return_value[e]
    /\ \A c \in Slot : env_status[c] # "FREE" => env_parent_id[c] # env_id[e]

\* Every line brings the prompt back, unless some shell process is stranded:
\* nothing else in wait(), the forks or the scheduler can hang the shell.
PromptOrStranded == pc[0] = "wait" ~> pc[0] = "prompt" \/ Stranded

\* README.md:248 says that with close_all moved behind the receive, the
\* return value is no longer lost: nobody is stranded.
NobodyStranded == ~Stranded

\* README.md:840: when a background process ends, its job is set to Done.
RunningJobIsAlive ==
  \A i \in DOMAIN jobs : jobs[i].job_status = 1 => Valid(jobs[i].envid)

\* README.md:907: kill destroys the background process, not another one.
KillHitsItsJob ==
  [][At("run") /\ L.argc # 0 /\ Word = "k" =>
       \A e \in Slot : env_status[e] # "FREE" /\ env_status'[e] = "FREE"
                         => env_id[e] = jobs[1].envid]_allvars
=============================================================================
