------------------------------- MODULE CowFork -------------------------------
(***************************************************************************)
(* fork() and copy-on-write, which MOS runs in user mode (user/lib/fork.c) *)
(* on top of the mapping system calls and the TLB Mod exception            *)
(* (kern/tlbex.c).  The clock may interrupt between any two of its system  *)
(* calls, so parents, children and copy handlers interleave.               *)
(*                                                                         *)
(* The memory manager is what module AddrSpace shows of it: an environment *)
(* sees its page table, a free page is one that nobody maps, and a page    *)
(* that is handed out is zeroed.  The content of a page is one value; that *)
(* of a page shared on purpose is left out.                                *)
(*                                                                         *)
(* Every function call writes the stack page: below the frames that matter *)
(* to a program, so without a change of content, but a stack that is       *)
(* copy-on-write is copied first.  The exception stack, which fork does    *)
(* not share, read-only pages and page tables are left out.  That there is *)
(* no page for a table is one way in which a call fails when no page is    *)
(* free.                                                                   *)
(***************************************************************************)
EXTENDS Integers, FiniteSets

CONSTANTS
  Env, NoEnv,       \* slots of envs[]; no child
  Page, NoPage,     \* physical pages; an invalid entry
  Val               \* contents of a page; 0 is a zeroed page

ASSUME CowForkAssumption ==
  /\ IsFiniteSet(Env) /\ Env # {} /\ NoEnv \notin Env
  /\ Page \subseteq Nat /\ IsFiniteSet(Page) /\ NoPage \notin Page
  /\ 0 \in Val

\* The pages of a program, in the order in which fork() visits them: the page
\* cow_entry copies through, a page of PTE_LIBRARY, the stack page in use, and
\* a private page above it.
UCOW      == 0
LIB       == 1
STACK     == 2
OUTER     == 3
USTACKTOP == 4
Va        == 0 .. USTACKTOP-1
Private   == {STACK, OUTER}

Perm     == {{}, {"D"}, {"COW"}, {"D", "LIBRARY"}}
Entry    == [page : Page \cup {NoPage}, perm : Perm]
Unmapped == [page |-> NoPage, perm |-> {}]

VARIABLES
  live, runnable,    \* environments that exist, that may run
  pt, content,
  env_user_tlb_mod_entry,  \* environments with cow_entry registered
  fork,              \* where each environment is in fork()
  cow,               \* where it is in cow_entry(), which interrupts the rest
  view,              \* what the program last wrote, or inherited, at each page
  failed,            \* environments fork() could not give every page
  panicked

envvars == <<live, runnable, env_user_tlb_mod_entry>>
vars    == <<envvars, pt, content, fork, cow, view, failed, panicked>>

NotForking == [at |-> "none", va |-> 0, child |-> NoEnv, perm |-> {}]
NoFault    == [at |-> "none", va |-> 0]

-----------------------------------------------------------------------------
(* Memory *)

Free == {p \in Page : \A e \in Env, va \in Va : pt[e][va].page # p}

\* Free pages are alike: page_alloc takes the lowest.
page_alloc == CHOOSE p \in Free : \A q \in Free : p <= q

\* sys_mem_alloc and passive_alloc: a new page with content v.
MapNew(e, va, v) ==
  /\ pt' = [pt EXCEPT ![e][va] = [page |-> page_alloc, perm |-> {"D"}]]
  /\ content' = [content EXCEPT ![page_alloc] = v]

\* A page that becomes free counts as zeroed: page_alloc zeroes it before it
\* is read again.
Drop == content' = [p \in Page |-> IF p \in Free' THEN 0 ELSE content[p]]

\* sys_mem_map of the caller's page at srcva.
sys_mem_map(e, srcva, dst, dstva, perm) ==
  /\ pt' = [pt EXCEPT ![dst][dstva] =
              [page |-> pt[e][srcva].page, perm |-> perm]]
  /\ Drop

Mapped(e, va)   == pt[e][va] # Unmapped
Writable(e, va) == "D" \in pt[e][va].perm

\* e runs in its main flow, not in the handler.
Main(e) == e \in runnable /\ ~panicked /\ cow[e].at = "none"

-----------------------------------------------------------------------------
(* A program between its calls *)

\* A store to a page that may be written.
Write(e, va, v) ==
  /\ Main(e) /\ fork[e].at = "none"
  /\ Writable(e, va)
  /\ content' = [content EXCEPT ![pt[e][va].page] = v]
  /\ view' = [view EXCEPT ![e][va] = v]
  /\ UNCHANGED <<envvars, pt, fork, cow, failed, panicked>>

\* The first access to a page: passive_alloc.
Touch(e, va) ==
  /\ Main(e) /\ fork[e].at = "none"
  /\ ~Mapped(e, va)
  /\ \/ Free # {} /\ MapNew(e, va, 0) /\ UNCHANGED panicked
     \/ Free = {} /\ panicked' = TRUE /\ UNCHANGED <<pt, content>>
  /\ UNCHANGED <<envvars, fork, cow, view, failed>>

\* A store to a page that may not be written: do_tlb_mod.  During fork() it is
\* a function call, which writes the stack.
do_tlb_mod(e, va) ==
  /\ Main(e)
  /\ fork[e].at = "none" \/ va = STACK
  /\ Mapped(e, va) /\ ~Writable(e, va)
  /\ IF e \in env_user_tlb_mod_entry
     THEN cow' = [cow EXCEPT ![e] = [at |-> "alloc", va |-> va]]
          /\ UNCHANGED panicked
     ELSE panicked' = TRUE /\ UNCHANGED cow
  /\ UNCHANGED <<envvars, pt, content, fork, view, failed>>

\* exit() of e, or a kill of it.
env_destroy(e) ==
  /\ e \in runnable /\ ~panicked
  /\ live' = live \ {e}
  /\ runnable' = runnable \ {e}
  /\ env_user_tlb_mod_entry' = env_user_tlb_mod_entry \ {e}
  /\ pt' = [pt EXCEPT ![e] = [va \in Va |-> Unmapped]]
  /\ fork' = [fork EXCEPT ![e] = NotForking]
  /\ cow' = [cow EXCEPT ![e] = NoFault]
  /\ view' = [view EXCEPT ![e] = [va \in Va |-> 0]]
  /\ failed' = failed \ {e}
  /\ Drop
  /\ UNCHANGED panicked

-----------------------------------------------------------------------------
(* cow_entry *)

InHandler(e, at) == e \in runnable /\ ~panicked /\ cow[e].at = at

\* The page at UCOW.  The result of the call is not looked at.
CowAlloc(e) ==
  /\ InHandler(e, "alloc")
  /\ \/ Free # {} /\ MapNew(e, UCOW, 0)
     \/ Free = {} /\ UNCHANGED <<pt, content>>
  /\ cow' = [cow EXCEPT ![e].at = "copy"]
  /\ UNCHANGED <<envvars, fork, view, failed, panicked>>

\* memcpy to UCOW; if there is no page, its first store is a TLB miss.
CowCopy(e) ==
  LET old == content[pt[e][cow[e].va].page] IN
  /\ InHandler(e, "copy")
  /\ \/ /\ Mapped(e, UCOW)
        /\ content' = [content EXCEPT ![pt[e][UCOW].page] = old]
        /\ UNCHANGED <<pt, panicked>>
     \/ /\ ~Mapped(e, UCOW) /\ Free # {}
        /\ MapNew(e, UCOW, old)
        /\ UNCHANGED panicked
     \/ /\ ~Mapped(e, UCOW) /\ Free = {}
        /\ panicked' = TRUE
        /\ UNCHANGED <<pt, content>>
  /\ cow' = [cow EXCEPT ![e].at = "map"]
  /\ UNCHANGED <<envvars, fork, view, failed>>

\* Mutant of OwnedPerm: PTE_D is not added.
StillCow == {"COW"}

\* (perm & !PTE_COW) | PTE_D, in which !PTE_COW is 0.
OwnedPerm == {"D"}

CowMap(e) ==
  /\ InHandler(e, "map")
  /\ sys_mem_map(e, UCOW, e, cow[e].va, OwnedPerm)
  /\ cow' = [cow EXCEPT ![e].at = "unmap"]
  /\ UNCHANGED <<envvars, fork, view, failed, panicked>>

\* The handler ends: UCOW is unmapped and the store is tried again.
CowUnmap(e) ==
  /\ InHandler(e, "unmap")
  /\ pt' = [pt EXCEPT ![e][UCOW] = Unmapped]
  /\ cow' = [cow EXCEPT ![e] = NoFault]
  /\ UNCHANGED <<envvars, content, fork, view, failed, panicked>>

-----------------------------------------------------------------------------
(* fork *)

\* Mutant of Cowable: PTE_LIBRARY is not looked at.
AnyWritable(perm) == "D" \in perm

\* duppage makes a page copy-on-write if it is writable and not shared.
Cowable(perm) == "D" \in perm /\ "LIBRARY" \notin perm

\* (perm & !PTE_D) | PTE_COW, in which !PTE_D is 0, or perm as it is.
DupPerm(perm) == IF Cowable(perm) THEN {"COW"} ELSE perm

\* Mutants of Follow: the parent's page is protected before the child's, or
\* not at all.
SelfFirst(at, perm) ==
  CASE at = "scan"  -> IF Cowable(perm) THEN "self" ELSE "child"
    [] at = "self"  -> "child"
    [] at = "child" -> "scan"
ChildOnly(at, perm) == IF at = "scan" THEN "child" ELSE "scan"

\* The order of duppage's calls: "The page should be first mapped to the
\* child before remapped in the parent."
Follow(at, perm) ==
  CASE at = "scan"  -> "child"
    [] at = "child" -> IF Cowable(perm) THEN "self" ELSE "scan"
    [] at = "self"  -> "scan"

\* e is about to make the call at of fork(): it has pushed its frame.
AtCall(e, at) == Main(e) /\ fork[e].at = at /\ Writable(e, STACK)

\* The next call for this page, or the next page.
Advance(e, perm) ==
  LET at == Follow(fork[e].at, perm) IN
  fork' = [fork EXCEPT ![e].at = at,
                       ![e].perm = IF at = "scan" THEN {} ELSE perm,
                       ![e].va = IF at = "scan" THEN @ + 1 ELSE @]

\* syscall_set_tlb_mod_entry and syscall_exofork.  fork() does not notice if
\* exofork fails, for lack of a slot or of a page for the directory.
ForkStart(e) ==
  /\ AtCall(e, "none")
  /\ \/ \E c \in Env \ live :
          /\ live' = live \cup {c}
          /\ view' = [view EXCEPT ![c] = view[e]]
          /\ failed' = IF e \in failed THEN failed \cup {c} ELSE failed
          /\ fork' = [fork EXCEPT ![e].at = "scan", ![e].child = c]
     \/ /\ live = Env \/ Free = {}
        /\ fork' = [fork EXCEPT ![e].at = "scan"]
        /\ UNCHANGED <<live, view, failed>>
  /\ env_user_tlb_mod_entry' = env_user_tlb_mod_entry \cup {e}
  /\ UNCHANGED <<runnable, pt, content, cow, panicked>>

\* Mutant of LoopEnd: the child's handler is forgotten.
SkipEntry == "status"

\* What follows the loop over the pages.
LoopEnd == "entry"

\* The loop looks at a page, and at its permission if it is mapped.
Scan(e) ==
  LET va == fork[e].va IN
  /\ AtCall(e, "scan")
  /\ \/ /\ va = USTACKTOP
        /\ fork' = [fork EXCEPT ![e].at = LoopEnd, ![e].va = 0]
     \/ /\ va < USTACKTOP /\ ~Mapped(e, va)
        /\ fork' = [fork EXCEPT ![e].va = va + 1]
     \/ /\ va < USTACKTOP /\ Mapped(e, va)
        /\ Advance(e, pt[e][va].perm)
  /\ UNCHANGED <<envvars, pt, content, cow, view, failed, panicked>>

\* duppage maps the page in the child, and does not notice if that fails.
DupChild(e) ==
  LET c == fork[e].child
      va == fork[e].va
  IN
  /\ AtCall(e, "child")
  /\ \/ /\ c # NoEnv
        /\ sys_mem_map(e, va, c, va, DupPerm(fork[e].perm))
        /\ UNCHANGED failed
     \/ /\ c = NoEnv
        /\ UNCHANGED <<pt, content, failed>>
     \/ /\ c # NoEnv /\ Free = {}
        /\ failed' = failed \cup {c}
        /\ UNCHANGED <<pt, content>>
  /\ Advance(e, fork[e].perm)
  /\ UNCHANGED <<envvars, cow, view, panicked>>

\* duppage maps the page again in the parent.
DupSelf(e) ==
  /\ AtCall(e, "self")
  /\ sys_mem_map(e, fork[e].va, e, fork[e].va, DupPerm(fork[e].perm))
  /\ Advance(e, fork[e].perm)
  /\ UNCHANGED <<envvars, cow, view, failed, panicked>>

\* syscall_set_tlb_mod_entry for the child, in vain if there is none.
SetEntry(e) ==
  /\ AtCall(e, "entry")
  /\ env_user_tlb_mod_entry' =
       env_user_tlb_mod_entry \cup ({fork[e].child} \ {NoEnv})
  /\ fork' = [fork EXCEPT ![e].at = "status"]
  /\ UNCHANGED <<live, runnable, pt, content, cow, view, failed, panicked>>

\* syscall_set_env_status for the child, and fork() returns.
SetStatus(e) ==
  /\ AtCall(e, "status")
  /\ runnable' = runnable \cup ({fork[e].child} \ {NoEnv})
  /\ fork' = [fork EXCEPT ![e] = NotForking]
  /\ UNCHANGED <<live, env_user_tlb_mod_entry, pt, content, cow, view, failed,
                 panicked>>

-----------------------------------------------------------------------------
\* One program is loaded: its stack, and a page it shares with its children.
Init ==
  \E e \in Env, p, q \in Page :
    /\ p # q /\ \A r \in Page \ {p} : p < r /\ (r # q => q < r)
    /\ live = {e} /\ runnable = {e}
    /\ pt = [f \in Env |-> [va \in Va |->
         CASE f = e /\ va = STACK -> [page |-> p, perm |-> {"D"}]
           [] f = e /\ va = LIB   -> [page |-> q, perm |-> {"D", "LIBRARY"}]
           [] OTHER               -> Unmapped]]
    /\ content = [r \in Page |-> 0]
    /\ env_user_tlb_mod_entry = {}
    /\ fork = [f \in Env |-> NotForking]
    /\ cow = [f \in Env |-> NoFault]
    /\ view = [f \in Env |-> [va \in Va |-> 0]]
    /\ failed = {}
    /\ panicked = FALSE

\* What e does next once it is in fork() or in the handler.
Continue(e) ==
  \/ fork[e].at # "none" /\ do_tlb_mod(e, STACK)
  \/ Scan(e) \/ DupChild(e) \/ DupSelf(e) \/ SetEntry(e) \/ SetStatus(e)
  \/ CowAlloc(e) \/ CowCopy(e) \/ CowMap(e) \/ CowUnmap(e)

Next ==
  \E e \in Env :
    \/ Continue(e)
    \/ ForkStart(e)
    \/ env_destroy(e)
    \/ \E va \in Va \ {UCOW} :
         \/ Touch(e, va)
         \/ fork[e].at = "none" /\ do_tlb_mod(e, va)
    \/ \E va \in Private, v \in Val : Write(e, va, v)

Spec == Init /\ [][Next]_vars

\* A runnable environment gets the CPU again and again (RunnableRuns in module
\* KernelEnv), and what it does next in fork() or the handler is determined.
FairSpec == Spec /\ \A e \in Env : WF_vars(Continue(e))

-----------------------------------------------------------------------------
(* Properties *)

\* Every variable keeps its type; no page is ever both writable and
\* copy-on-write (the comment at duppage says so), and PTE_LIBRARY stays with
\* PTE_D.
TypeOK ==
  /\ runnable \subseteq live /\ live \subseteq Env
  /\ pt \in [Env -> [Va -> Entry]]
  /\ content \in [Page -> Val]
  /\ env_user_tlb_mod_entry \subseteq live
  /\ fork \in [Env -> [at : {"none", "scan", "child", "self", "entry", "status"},
                       va : 0 .. USTACKTOP, child : Env \cup {NoEnv},
                       perm : Perm]]
  /\ cow \in [Env -> [at : {"none", "alloc", "copy", "map", "unmap"}, va : Va]]
  /\ view \in [Env -> [Va -> Val]]
  /\ failed \subseteq live
  /\ panicked \in BOOLEAN

\* Isolation: every running program finds in its private pages what it wrote
\* there last, or what its parent had there when it called fork(), whatever
\* its relatives write, fork or copy meanwhile.
OwnMemory ==
  \A e \in runnable \ failed, va \in Private :
    IF Mapped(e, va) THEN content[pt[e][va].page] = view[e][va]
    ELSE view[e][va] = 0

\* A page that one program can write without a fault, and that it does not
\* share on purpose, is in no other running program.
WritableIsPrivate ==
  \A e \in live, va \in Va :
    Writable(e, va) /\ "LIBRARY" \notin pt[e][va].perm =>
      \A f \in runnable \ {e}, w \in Va : pt[f][w].page # pt[e][va].page

\* A PTE_LIBRARY page stays one page for all descendants: file descriptors and
\* pipes rest on it.
LibraryShared ==
  \A e, f \in runnable \ failed : pt[e][LIB] = pt[f][LIB]

\* No program is caught by a TLB Mod exception without its handler, which
\* would be a kernel panic, and the handler finds the page copy-on-write.
HandlerReady ==
  \A e \in runnable :
    /\ (\E va \in Va : "COW" \in pt[e][va].perm) => e \in env_user_tlb_mod_entry
    /\ cow[e].at = "alloc" => "COW" \in pt[e][cow[e].va].perm

\* fork() returns, although it makes its own stack copy-on-write while it uses
\* it.
ForkEnds ==
  \A e \in Env : fork[e].at # "none" ~> fork[e].at = "none" \/ panicked
=============================================================================
