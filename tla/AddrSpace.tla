------------------------------ MODULE AddrSpace ------------------------------
(***************************************************************************)
(* The memory manager of the MOS kernel: physical pages and their          *)
(* reference counts, two-level page tables (kern/pmap.c), the TLB and its  *)
(* refill (kern/tlbex.c, kern/tlb_asm.S), the address spaces that          *)
(* environments get and give back (kern/env.c), and the system calls that  *)
(* change mappings (kern/syscall_all.c).                                   *)
(*                                                                         *)
(* The kernel runs with interrupts off: one system call or TLB miss is one *)
(* step.  A call that fails and changes nothing is a stuttering step.      *)
(*                                                                         *)
(* Abstracted: a virtual address is the number of its page; page_free_list *)
(* is a set, of which page_alloc takes one of Choices; the bits V and C,   *)
(* which every valid entry has, are left out of perm.  Any environment may *)
(* be the one that runs, so a refill may happen at any time.               *)
(*                                                                         *)
(* Left out: the kernel's own pages, and the mappings of envs[] and        *)
(* pages[], which all environments share and none changes.                 *)
(***************************************************************************)
EXTENDS Integers, FiniteSets

CONSTANTS
  Env, NoEnv,      \* slots of envs[]; no parent
  Page, NoPage,    \* physical pages above the kernel; an invalid entry
  NASID,           \* address space identifiers of the TLB
  NTLB,            \* entries of the TLB
  NDIR,            \* directory entries below UTOP
  PTES,            \* entries of one page table
  UTEMP,           \* lowest page a program may map
  USTACKTOP,       \* the page no program may touch unmapped
  REF_MOD,         \* pp_ref is a u_short: 2^16
  Perms,           \* permissions a program may ask for
  Choices(_)       \* the free pages page_alloc may take, of those there are

ASSUME AddrSpaceAssumption ==
  /\ IsFiniteSet(Env) /\ NoEnv \notin Env
  /\ IsFiniteSet(Page) /\ NoPage \notin Page
  /\ NASID \in Nat \ {0} /\ NTLB \in Nat \ {0}
  /\ NDIR \in Nat \ {0}
  /\ PTES \in Nat \ {0} /\ PTES % 2 = 0
  /\ UTEMP \in Nat /\ USTACKTOP \in Nat
  /\ REF_MOD \in Nat /\ REF_MOD > 1
  /\ Perms \subseteq SUBSET {"D", "COW", "LIBRARY"}
  /\ \A free \in SUBSET Page : /\ Choices(free) \subseteq free
                               /\ free # {} => Choices(free) # {}

Asid == 0 .. NASID-1
Dir  == 0 .. NDIR-1
NVA  == NDIR * PTES
Va   == 0 .. NVA-1             \* user pages, below UTOP

\* The window UVPT: page NVA+d is the page table of directory entry d, and
\* page NVA+NDIR the directory itself, which maps itself.
Vpt(d) == NVA + d
Self   == NDIR
VPage  == 0 .. NVA+NDIR

PDX(va)  == va \div PTES
Pair(v)  == v \div 2            \* a TLB entry holds an even and an odd page

Perm     == SUBSET {"D", "COW", "LIBRARY"}
Entry    == [page : Page \cup {NoPage}, perm : Perm]
Unmapped == [page |-> NoPage, perm |-> {}]

VARIABLES
  page_free_list, pp_ref,
  env_pgdir,         \* directory page of each environment, NoPage if it is free
  pgdir,             \* per environment: the page of each page table
  pt,                \* per environment: the entry of each user page
  tlb,               \* per ASID: the valid entries, Unmapped elsewhere
  env_asid,
  env_parent,
  lost,              \* pages a failed call took and never gave back
  phase              \* "boot", "run" or "panic"

pagevars == <<page_free_list, pp_ref>>
envvars  == <<env_pgdir, env_asid, env_parent>>
vars     == <<pagevars, envvars, pgdir, pt, tlb, lost, phase>>

-----------------------------------------------------------------------------
Live(e) == env_pgdir[e] # NoPage

Running(c) == phase = "run" /\ Live(c)

\* envid2env(_, _, 1): the caller itself or an immediate child of it.
MayControl(c, e) == Live(e) /\ (e = c \/ env_parent[e] = c)

\* Mutant of is_illegal_va: no upper limit.
OnlyTooLow(va) == va < UTEMP

is_illegal_va(va) == va < UTEMP \/ va >= NVA

\* What a walk of environment e's tables (tables dirs, entries ents) finds.
EntryIn(e, dirs, ents, v) ==
  IF v \in Va THEN ents[v]
  ELSE [page |-> IF v = Vpt(Self) THEN env_pgdir[e] ELSE dirs[v - NVA],
        perm |-> {}]

page_lookup(e, v) == EntryIn(e, pgdir[e], pt[e], v)

\* tlb_out empties the entry that holds the page, and with it the other page
\* of the pair.
tlb_invalidate(a, vs) ==
  [tlb EXCEPT ![a] = [w \in VPage |->
     IF \E v \in vs : Pair(v) = Pair(w) THEN Unmapped ELSE tlb[a][w]]]

\* The entries of the TLB in use: ASID and pair.
Slots(t) == {x \in Asid \X {Pair(v) : v \in VPage} :
               \E v \in VPage : Pair(v) = x[2] /\ t[x[1]][v] # Unmapped}

\* The TLB after both pages of v's pair are loaded from the tables and tlbwr
\* has overwritten the entry victim.
Refilled(e, dirs, ents, v, victim) ==
  [a \in Asid |-> [w \in VPage |->
     IF a = env_asid[e] /\ Pair(v) = Pair(w) THEN EntryIn(e, dirs, ents, w)
     ELSE IF victim = <<a, Pair(w)>> THEN Unmapped ELSE tlb[a][w]]]

\* tlbwr overwrites an entry at random, empty or not.
tlbwr(e, dirs, ents, v) ==
  \E victim \in Slots(tlb) \cup {<<env_asid[e], Pair(v)>>} :
    /\ tlb' = Refilled(e, dirs, ents, v, victim)
    /\ Cardinality(Slots(tlb')) <= NTLB

-----------------------------------------------------------------------------
(* Reference counts *)

Incref(n) == (n + 1) % REF_MOD

\* Mutant of Released: a page is freed with its second last reference.
ReleasedEarly(refs) == {p \in Page : pp_ref[p] > refs[p] /\ refs[p] <= 1}

\* page_decref: the pages whose count reaches 0 go to the free list.
Released(refs) == {p \in Page : pp_ref[p] > 0 /\ refs[p] = 0}

\* Mutant of Reinserted: a page mapped again where it was is counted again.
CountAgain(e, p, va) ==
  LET old == pt[e][va].page
      dec == IF old \in {NoPage, p} THEN pp_ref
             ELSE [pp_ref EXCEPT ![old] = @ - 1]
  IN [dec EXCEPT ![p] = Incref(@)]

\* The counts after page p has replaced what va was mapped to.
Reinserted(e, p, va) ==
  LET old == pt[e][va].page
      dec == IF old = NoPage THEN pp_ref
             ELSE [pp_ref EXCEPT ![old] = @ - 1]
  IN IF old = p THEN pp_ref ELSE [dec EXCEPT ![p] = Incref(@)]

\* page_insert with the free list free, all but the TLB: p replaces what was
\* mapped at va, or gets a new page table t.
Insert(e, free, p, va, perm) ==
  /\ pt' = [pt EXCEPT ![e][va] = [page |-> p, perm |-> perm]]
  /\ \/ /\ pgdir[e][PDX(va)] # NoPage
        /\ pp_ref' = Reinserted(e, p, va)
        /\ page_free_list' = free \cup Released(pp_ref')
        /\ UNCHANGED pgdir
     \/ /\ pgdir[e][PDX(va)] = NoPage
        /\ \E t \in Choices(free) :
             /\ pgdir' = [pgdir EXCEPT ![e][PDX(va)] = t]
             /\ pp_ref' = [pp_ref EXCEPT ![t] = 1, ![p] = Incref(@)]
             /\ page_free_list' = free \ {t}

page_insert(e, free, p, va, perm) ==
  /\ Insert(e, free, p, va, perm)
  /\ tlb' = tlb_invalidate(env_asid[e], {va})

\* pgdir_walk of page_insert returns -E_NO_MEM.
NoTable(e, free, va) == pgdir[e][PDX(va)] = NoPage /\ free = {}

-----------------------------------------------------------------------------
(* Address spaces *)

FreeAsids == {a \in Asid : \A e \in Env : Live(e) => env_asid[e] # a}

\* env_setup_vm and asid_alloc.
env_alloc(e, parent) ==
  /\ ~Live(e)
  /\ \E p \in Choices(page_free_list), a \in FreeAsids :
       /\ \A b \in FreeAsids : a <= b
       /\ page_free_list' = page_free_list \ {p}
       /\ pp_ref' = [pp_ref EXCEPT ![p] = Incref(@)]
       /\ env_pgdir' = [env_pgdir EXCEPT ![e] = p]
       /\ env_asid' = [env_asid EXCEPT ![e] = a]
  /\ env_parent' = [env_parent EXCEPT ![e] = parent]
  /\ UNCHANGED <<pgdir, pt, tlb, lost, phase>>

\* env_alloc without a free ASID: the slot stays free, its directory page is
\* not given back.
LoseDirectory ==
  /\ FreeAsids = {}
  /\ \E e \in Env : ~Live(e)
  /\ \E p \in Choices(page_free_list) :
       /\ page_free_list' = page_free_list \ {p}
       /\ pp_ref' = [pp_ref EXCEPT ![p] = Incref(@)]
       /\ lost' = lost \cup {p}
  /\ UNCHANGED <<envvars, pgdir, pt, tlb, phase>>

env_create(e) == phase = "boot" /\ env_alloc(e, NoEnv)

\* mips_init has created its environments.
StartFirst ==
  /\ phase = "boot"
  /\ \E e \in Env : Live(e)
  /\ phase' = "run"
  /\ UNCHANGED <<pagevars, envvars, pgdir, pt, tlb, lost>>

panic ==
  /\ phase' = "panic"
  /\ UNCHANGED <<pagevars, envvars, pgdir, pt, tlb, lost>>

\* A page of the image of an environment that boot creates.
load_icode_mapper(e, va, perm) ==
  /\ phase = "boot" /\ Live(e)
  /\ \/ /\ \E p \in Choices(page_free_list) :
             page_insert(e, page_free_list \ {p}, p, va, perm)
        /\ UNCHANGED <<envvars, lost, phase>>
     \/ /\ \/ page_free_list = {}
           \/ \E p \in Choices(page_free_list) : NoTable(e, page_free_list \ {p}, va)
        /\ panic

sys_exofork(c, e) == Running(c) /\ (env_alloc(e, c) \/ LoseDirectory)

\* Mutant of Flushed: the page tables stay in the TLB.
FlushedNoTables(e) == {va \in Va : pt[e][va] # Unmapped} \cup {Vpt(Self)}

\* The pages env_free(e) flushes from the TLB: what is mapped, each page
\* table, the directory.
Flushed(e) ==
  {va \in Va : pt[e][va] # Unmapped}
    \cup {Vpt(d) : d \in {f \in Dir : pgdir[e][f] # NoPage}}
    \cup {Vpt(Self)}

\* The references environment e holds to page p.
UsesBy(e, p) ==
  Cardinality({va \in Va : pt[e][va].page = p})
    + Cardinality({d \in Dir : pgdir[e][d] = p})
    + (IF env_pgdir[e] = p THEN 1 ELSE 0)

\* Every page of e, every page table and the directory lose a reference.
env_free(e) ==
  /\ phase = "run" /\ Live(e)
  /\ pp_ref' = [p \in Page |-> pp_ref[p] - UsesBy(e, p)]
  /\ page_free_list' = page_free_list \cup Released(pp_ref')
  /\ pgdir' = [pgdir EXCEPT ![e] = [d \in Dir |-> NoPage]]
  /\ pt' = [pt EXCEPT ![e] = [va \in Va |-> Unmapped]]
  /\ tlb' = tlb_invalidate(env_asid[e], Flushed(e))
  /\ env_pgdir' = [env_pgdir EXCEPT ![e] = NoPage]
  /\ env_asid' = [env_asid EXCEPT ![e] = 0]       \* not read before it is set
  /\ env_parent' = [f \in Env |->                \* an env_id is not used again
       IF e \in {f, env_parent[f]} THEN NoEnv ELSE env_parent[f]]
  /\ UNCHANGED <<lost, phase>>

-----------------------------------------------------------------------------
(* System calls *)

sys_mem_alloc(c, e, va, perm) ==
  /\ Running(c)
  /\ ~is_illegal_va(va)
  /\ MayControl(c, e)
  /\ \E p \in Choices(page_free_list) :
       LET free == page_free_list \ {p} IN
       \/ page_insert(e, free, p, va, perm) /\ UNCHANGED lost
       \/ /\ NoTable(e, free, va)            \* p is not given back
          /\ page_free_list' = free
          /\ lost' = lost \cup {p}
          /\ tlb' = tlb_invalidate(env_asid[e], {va})
          /\ UNCHANGED <<pp_ref, pgdir, pt>>
  /\ UNCHANGED <<envvars, phase>>

\* Maps the page of src at srcva; on -E_NO_MEM only the TLB is flushed.
MapInto(src, srcva, dst, dstva, perm) ==
  LET p == page_lookup(src, srcva).page IN
  /\ p # NoPage
  /\ \/ page_insert(dst, page_free_list, p, dstva, perm)
     \/ /\ NoTable(dst, page_free_list, dstva)
        /\ tlb' = tlb_invalidate(env_asid[dst], {dstva})
        /\ UNCHANGED <<pagevars, pgdir, pt>>
  /\ UNCHANGED <<envvars, lost, phase>>

sys_mem_map(c, src, srcva, dst, dstva, perm) ==
  /\ Running(c)
  /\ ~is_illegal_va(srcva) /\ ~is_illegal_va(dstva)
  /\ MayControl(c, src) /\ MayControl(c, dst)
  /\ MapInto(src, srcva, dst, dstva, perm)

sys_mem_unmap(c, e, va) ==
  /\ Running(c)
  /\ ~is_illegal_va(va)
  /\ MayControl(c, e)
  /\ pt[e][va] # Unmapped
  /\ pp_ref' = [pp_ref EXCEPT ![pt[e][va].page] = @ - 1]
  /\ page_free_list' = page_free_list \cup Released(pp_ref')
  /\ pt' = [pt EXCEPT ![e][va] = Unmapped]
  /\ tlb' = tlb_invalidate(env_asid[e], {va})
  /\ UNCHANGED <<envvars, pgdir, lost, phase>>

\* The page part of sys_ipc_try_send, to any environment e.  A receiver that
\* wants no page gave dstva 0, and gets the page there all the same.
sys_ipc_try_send(c, srcva, e, dstva, perm) ==
  /\ Running(c) /\ Live(e) /\ c # e
  /\ ~is_illegal_va(srcva)
  /\ dstva = 0 \/ ~is_illegal_va(dstva)
  /\ MapInto(c, srcva, e, dstva, perm)

-----------------------------------------------------------------------------
(* TLB refill *)

\* Pages for which passive_alloc panics.
Untouchable(v) == v < UTEMP \/ v = USTACKTOP

\* passive_alloc gives the page v of environment e a new zeroed page; in the
\* window UVPT that page becomes the page table.
passive_alloc(e, v) ==
  \E p \in Choices(page_free_list) :
    \/ /\ v \in Va
       /\ Insert(e, page_free_list \ {p}, p, v, {"D"})
    \/ /\ v \notin Va
       /\ pgdir' = [pgdir EXCEPT ![e][v - NVA] = p]
       /\ pp_ref' = [pp_ref EXCEPT ![p] = Incref(@)]
       /\ page_free_list' = page_free_list \ {p}
       /\ UNCHANGED pt

do_tlb_refill(e, v) ==
  LET absent == page_lookup(e, v).page = NoPage IN
  /\ Running(e)
  /\ \/ /\ ~absent
        /\ tlbwr(e, pgdir[e], pt[e], v)
        /\ UNCHANGED <<pagevars, envvars, pgdir, pt, lost, phase>>
     \/ /\ absent /\ ~Untouchable(v)
        /\ passive_alloc(e, v)
        /\ tlbwr(e, pgdir'[e], pt'[e], v)
        /\ UNCHANGED <<envvars, lost, phase>>
     \/ /\ absent
        /\ \/ Untouchable(v)
           \/ page_free_list = {}
           \/ /\ v \in Va
              /\ \E p \in Choices(page_free_list) : NoTable(e, page_free_list \ {p}, v)
        /\ panic

-----------------------------------------------------------------------------
\* page_init and env_init.
Init ==
  /\ page_free_list = Page
  /\ pp_ref = [p \in Page |-> 0]
  /\ env_pgdir = [e \in Env |-> NoPage]
  /\ pgdir = [e \in Env |-> [d \in Dir |-> NoPage]]
  /\ pt = [e \in Env |-> [va \in Va |-> Unmapped]]
  /\ tlb = [a \in Asid |-> [v \in VPage |-> Unmapped]]
  /\ env_asid = [e \in Env |-> 0]
  /\ env_parent = [e \in Env |-> NoEnv]
  /\ lost = {}
  /\ phase = "boot"

Next ==
  \/ StartFirst
  \/ \E e \in Env :
       \/ env_create(e)
       \/ env_free(e)
       \/ \E v \in VPage : do_tlb_refill(e, v)
       \/ \E va \in Va, perm \in {{}, {"D"}} :
            ~is_illegal_va(va) /\ load_icode_mapper(e, va, perm)
  \/ \E c, e \in Env :
       \/ sys_exofork(c, e)
       \/ \E va \in Va :
            \/ sys_mem_unmap(c, e, va)
            \/ \E perm \in Perms : sys_mem_alloc(c, e, va, perm)
       \/ \E srcva \in VPage, dstva \in Va, perm \in Perms :
            \/ sys_ipc_try_send(c, srcva, e, dstva, perm)
            \/ \E dst \in Env : sys_mem_map(c, e, srcva, dst, dstva, perm)

Spec == Init /\ [][Next]_vars

-----------------------------------------------------------------------------
(* Properties *)

\* Every variable keeps its type: entries hold pages or are invalid, and no
\* reference count goes below zero (what page_decref asserts).
TypeOK ==
  /\ page_free_list \subseteq Page
  /\ pp_ref \in [Page -> 0 .. REF_MOD-1]
  /\ env_pgdir \in [Env -> Page \cup {NoPage}]
  /\ pgdir \in [Env -> [Dir -> Page \cup {NoPage}]]
  /\ pt \in [Env -> [Va -> Entry]]
  /\ tlb \in [Asid -> [VPage -> Entry]]
  /\ env_asid \in [Env -> Asid]
  /\ env_parent \in [Env -> Env \cup {NoEnv}]
  /\ lost \subseteq Page
  /\ phase \in {"boot", "run", "panic"}

\* All references to a page: user mappings, page tables, directories.
Uses(p) ==
  Cardinality({x \in Env \X Va : pt[x[1]][x[2]].page = p})
    + Cardinality({x \in Env \X Dir : pgdir[x[1]][x[2]] = p})
    + Cardinality({e \in Env : env_pgdir[e] = p})

\* pp_ref counts exactly the references there are, through every order of
\* mapping, remapping, sharing, failing and dying.  One too few frees a page
\* that somebody still maps, one too many loses it; programs read the count
\* as well (pageref, on which pipes and open files rest).
RefsExact == \A p \in Page \ lost : pp_ref[p] = Uses(p)

\* A page is free iff nobody refers to it and no failed call has lost it:
\* page_alloc hands out nobody's page, and what dies is given back.
FreeExact ==
  /\ page_free_list = {p \in Page \ lost : Uses(p) = 0}
  /\ \A p \in lost : Uses(p) = 0

\* The TLB never knows more than the page tables: a valid entry is the entry
\* of the one live environment that has its ASID.  In particular no entry
\* outlives its mapping, its permission or its environment, whose ASID the
\* next environment gets.
TlbCoherent ==
  \A a \in Asid, v \in VPage : tlb[a][v].page # NoPage =>
    \E e \in Env :
      /\ Live(e)
      /\ env_asid[e] = a
      /\ \A f \in Env : Live(f) /\ env_asid[f] = a => f = e
      /\ page_lookup(e, v) = tlb[a][v]

\* The tables of an environment are in no program's hands: a directory or a
\* page table is referred to once, so it is no user page, of it or of others.
TablesPrivate ==
  \A e \in Env : Live(e) =>
    /\ Uses(env_pgdir[e]) = 1
    /\ \A d \in Dir : pgdir[e][d] # NoPage => Uses(pgdir[e][d]) = 1
=============================================================================
