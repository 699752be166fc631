--------------------------- MODULE AddrSpaceProofs ----------------------------
(***************************************************************************)
(* Proofs about AddrSpace, for any number of environments, pages, ASIDs    *)
(* and TLB entries, and any size of the page tables.                       *)
(*                                                                         *)
(* Two inductive invariants.  TInv is about the tables and the TLB: that   *)
(* no entry of the TLB is stale (TlbCoherent) needs that live environments *)
(* have different ASIDs, and that there is nothing where there is no page  *)
(* table.  RInv is about the reference counts: that they are exact, that a *)
(* page is free iff nobody refers to it and that nobody shares a page      *)
(* table need each other.  pp_ref has 16 bits, so the second holds as long *)
(* as no page has as many references as wrap it (NoWrap).                  *)
(***************************************************************************)
EXTENDS AddrSpace, FiniteSetTheorems, TLAPS

\* The types of the tables and the TLB.
TypeTables ==
  /\ page_free_list \subseteq Page
  /\ env_pgdir \in [Env -> Page \cup {NoPage}]
  /\ pgdir \in [Env -> [Dir -> Page \cup {NoPage}]]
  /\ pt \in [Env -> [Va -> Entry]]
  /\ tlb \in [Asid -> [VPage -> Entry]]
  /\ env_asid \in [Env -> Asid]
  /\ env_parent \in [Env -> Env \cup {NoEnv}]
  /\ lost \subseteq Page
  /\ phase \in {"boot", "run", "panic"}

\* Who has no directory has no page table; where there is no page table there
\* is no page; where there is no page there is no permission.
TablesOf(e) ==
  /\ ~Live(e) => \A d \in Dir : pgdir[e][d] = NoPage
  /\ \A va \in Va : /\ pgdir[e][PDX(va)] = NoPage => pt[e][va] = Unmapped
                    /\ pt[e][va].page = NoPage => pt[e][va] = Unmapped

Tables == \A e \in Env : TablesOf(e)

\* Live environments have different ASIDs.
AsidsDiffer ==
  \A e, f \in Env : Live(e) /\ Live(f) /\ env_asid[e] = env_asid[f] => e = f

TInv ==
  /\ TypeTables
  /\ Tables
  /\ AsidsDiffer
  /\ TlbCoherent

\* No page has as many references as its 16-bit count cannot hold.
NoWrap == \A p \in Page : Uses(p) < REF_MOD

-----------------------------------------------------------------------------
(* Addresses *)

\* The user pages and, above them, the window on the page tables.
LEMMA Window ==
  /\ NVA \in Nat /\ Va \subseteq VPage
  /\ \A d \in Dir : Vpt(d) \in VPage /\ Vpt(d) \notin Va /\ Vpt(d) # Vpt(Self) /\ Vpt(d) - NVA = d
  /\ Vpt(Self) \in VPage /\ Vpt(Self) \notin Va
  /\ \A v \in VPage \ Va : v # Vpt(Self) => v - NVA \in Dir /\ v = Vpt(v - NVA)
<1>1. NDIR \in Nat /\ PTES \in Nat
  BY AddrSpaceAssumption
<1>2. NVA \in Nat
  BY <1>1 DEF NVA
<1> HIDE DEF NVA
<1> QED BY <1>1, <1>2, AddrSpaceAssumption DEF Va, VPage, Vpt, Self, Dir

\* Every user page is in a page table.
LEMMA PdxInDir == \A va \in Va : PDX(va) \in Dir
<1> SUFFICES ASSUME NEW va \in Va PROVE PDX(va) \in Dir
  OBVIOUS
<1>1. NDIR \in Nat /\ PTES \in Nat /\ PTES > 0 /\ va \in Nat /\ va < NDIR * PTES
  BY AddrSpaceAssumption, Window DEF Va, NVA
<1>2. PICK q \in Int, r \in 0 .. PTES-1 : q = va \div PTES /\ va = PTES * q + r
  BY <1>1
<1>3. q >= 0
  BY <1>1, <1>2
<1>4. q < NDIR
  <2>1. SUFFICES ASSUME q >= NDIR PROVE FALSE
    BY <1>1
  <2>2. PTES * q >= PTES * NDIR
    BY <1>1, <1>3, <2>1
  <2> QED BY <1>1, <1>2, <2>2
<1> QED BY <1>1, <1>2, <1>3, <1>4 DEF PDX, Dir

\* What is and what is not an entry.
LEMMA Entries ==
  /\ Unmapped \in Entry /\ Unmapped.page = NoPage /\ NoPage \notin Page
  /\ \A p \in Page, perm \in Perm : [page |-> p, perm |-> perm] \in Entry
  /\ Perms \subseteq Perm /\ {} \in Perm /\ {"D"} \in Perm
BY AddrSpaceAssumption DEF Entry, Unmapped, Perm

-----------------------------------------------------------------------------
(* The tables and the TLB *)

LEMMA InitTInv == Init => TInv
<1> SUFFICES ASSUME Init PROVE TInv
  OBVIOUS
<1>1. 0 \in Asid
  BY AddrSpaceAssumption DEF Asid
<1>2. TypeTables
  BY <1>1, Entries DEF Init, TypeTables
<1>3. \A e \in Env : ~Live(e)
  BY DEF Init, Live
<1>4. Tables
  BY <1>3, PdxInDir DEF Init, Tables, TablesOf
<1>5. AsidsDiffer
  BY <1>3 DEF AsidsDiffer
<1>6. TlbCoherent
  BY Entries DEF Init, TlbCoherent
<1> QED BY <1>2, <1>4, <1>5, <1>6 DEF TInv

\* What tlb_out does to the TLB: the entries that hold pages of vs are empty.
Forgets(a, vs) ==
  /\ tlb' \in [Asid -> [VPage -> Entry]]
  /\ \A b \in Asid, w \in VPage :
       IF b = a /\ \E v \in vs : Pair(v) = Pair(w) THEN tlb'[b][w] = Unmapped
       ELSE tlb'[b][w] = tlb[b][w]

LEMMA Invalidate ==
  ASSUME tlb \in [Asid -> [VPage -> Entry]], NEW a \in Asid, NEW vs,
         tlb' = tlb_invalidate(a, vs)
  PROVE  Forgets(a, vs)
<1> DEFINE gone(w) == \E v \in vs : Pair(v) = Pair(w)
           row == [w \in VPage |-> IF gone(w) THEN Unmapped ELSE tlb[a][w]]
<1>1. tlb' = [tlb EXCEPT ![a] = row]
  BY DEF tlb_invalidate
<1>2. row \in [VPage -> Entry] /\ \A w \in VPage : row[w] = IF gone(w) THEN Unmapped ELSE tlb[a][w]
  <2> HIDE DEF gone
  <2> QED BY Entries
<1>3. /\ tlb' \in [Asid -> [VPage -> Entry]] /\ tlb'[a] = row
      /\ \A b \in Asid \ {a} : tlb'[b] = tlb[b]
  <2> HIDE DEF row
  <2> QED BY <1>1, <1>2
<1> HIDE DEF row, gone
<1>4. \A b \in Asid, w \in VPage :
        tlb'[b][w] = IF b = a /\ gone(w) THEN Unmapped ELSE tlb[b][w]
  BY <1>2, <1>3
<1> QED BY <1>3, <1>4 DEF gone, Forgets

\* tlb_out for one page.
LEMMA InvalidateOne ==
  ASSUME tlb \in [Asid -> [VPage -> Entry]], NEW a \in Asid, NEW va,
         tlb' = tlb_invalidate(a, {va})
  PROVE  /\ tlb' \in [Asid -> [VPage -> Entry]]
         /\ \A b \in Asid, w \in VPage :
              tlb'[b][w] = IF b = a /\ Pair(va) = Pair(w) THEN Unmapped ELSE tlb[b][w]
<1>1. Forgets(a, {va})
  BY Invalidate
<1>2. \A w : (\E v \in {va} : Pair(v) = Pair(w)) <=> Pair(va) = Pair(w)
  OBVIOUS
<1> QED BY <1>1, <1>2 DEF Forgets

\* A step that changes the tables of e only keeps the TLB coherent if each
\* entry of e that stays in it is one that the tables keep.
LEMMA TlbStep ==
  ASSUME TInv, TypeTables', NEW e \in Env, Live(e),
         UNCHANGED <<env_pgdir, env_asid>>,
         \A f \in Env \ {e} : pt'[f] = pt[f] /\ pgdir'[f] = pgdir[f],
         \A a \in Asid, v \in VPage : tlb'[a][v].page # NoPage =>
           \/ a = env_asid[e] /\ page_lookup(e, v)' = tlb'[a][v]
           \/ /\ tlb'[a][v] = tlb[a][v]
              /\ a = env_asid[e] /\ page_lookup(e, v) = tlb[a][v] =>
                   page_lookup(e, v)' = page_lookup(e, v)
  PROVE  AsidsDiffer' /\ TlbCoherent'
<1>1. AsidsDiffer /\ TlbCoherent
  BY DEF TInv
<1>2. \A f \in Env : Live(f)' <=> Live(f)
  BY DEF Live
<1>3. AsidsDiffer'
  BY <1>1, <1>2 DEF AsidsDiffer
<1>4. ASSUME NEW a \in Asid, NEW v \in VPage, tlb'[a][v].page # NoPage
      PROVE  \E f \in Env : /\ Live(f)'
                            /\ env_asid'[f] = a
                            /\ \A g \in Env : Live(g)' /\ env_asid'[g] = a => g = f
                            /\ page_lookup(f, v)' = tlb'[a][v]
  <2>1. CASE a = env_asid[e] /\ page_lookup(e, v)' = tlb'[a][v]
    BY <1>1, <1>2, <2>1 DEF AsidsDiffer
  <2>2. CASE /\ tlb'[a][v] = tlb[a][v]
             /\ a = env_asid[e] /\ page_lookup(e, v) = tlb[a][v] =>
                  page_lookup(e, v)' = page_lookup(e, v)
    <3>1. PICK f \in Env : /\ Live(f)
                           /\ env_asid[f] = a
                           /\ \A g \in Env : Live(g) /\ env_asid[g] = a => g = f
                           /\ page_lookup(f, v) = tlb[a][v]
      BY <1>1, <1>4, <2>2 DEF TlbCoherent
    <3>2. page_lookup(f, v)' = page_lookup(f, v)
      <4>1. CASE f = e
        BY <2>2, <3>1, <4>1
      <4>2. CASE f # e
        BY <4>2 DEF page_lookup, EntryIn
      <4> QED BY <4>1, <4>2
    <3> QED BY <1>2, <2>2, <3>1, <3>2
  <2> QED BY <1>4, <2>1, <2>2
<1>5. TlbCoherent'
  BY <1>4 DEF TlbCoherent
<1> QED BY <1>3, <1>5

\* What page_insert does to the tables of e: va gets its entry, its page table
\* is there, and all else stays.
Inserted(e, p, va, perm) ==
  /\ pt' \in [Env -> [Va -> Entry]]
  /\ pt'[e][va] = [page |-> p, perm |-> perm]
  /\ \A w \in Va \ {va} : pt'[e][w] = pt[e][w]
  /\ \A f \in Env \ {e} : pt'[f] = pt[f] /\ pgdir'[f] = pgdir[f]
  /\ pgdir' \in [Env -> [Dir -> Page \cup {NoPage}]]
  /\ \A d \in Dir : d # PDX(va) => pgdir'[e][d] = pgdir[e][d]
  /\ pgdir[e][PDX(va)] # NoPage => pgdir' = pgdir
  /\ pgdir'[e][PDX(va)] # NoPage
  /\ page_free_list' \subseteq Page

LEMMA InsertTables ==
  ASSUME TypeTables, NEW e \in Env, NEW free, free \subseteq Page, NEW p \in Page, NEW va \in Va,
         NEW perm \in Perm, Insert(e, free, p, va, perm)
  PROVE  Inserted(e, p, va, perm)
<1>1. pt' = [pt EXCEPT ![e][va] = [page |-> p, perm |-> perm]]
  BY DEF Insert
<1>2. [page |-> p, perm |-> perm] \in Entry /\ PDX(va) \in Dir /\ NoPage \notin Page
  BY Entries, PdxInDir
<1>3. /\ pt' \in [Env -> [Va -> Entry]]
      /\ pt'[e][va] = [page |-> p, perm |-> perm]
      /\ \A w \in Va \ {va} : pt'[e][w] = pt[e][w]
      /\ \A f \in Env \ {e} : pt'[f] = pt[f]
  BY <1>1, <1>2 DEF TypeTables
<1>4. CASE /\ pgdir[e][PDX(va)] # NoPage
           /\ page_free_list' = free \cup Released(pp_ref')
           /\ UNCHANGED pgdir
  BY <1>3, <1>4 DEF TypeTables, Released, Inserted
<1>5. ASSUME pgdir[e][PDX(va)] = NoPage, NEW t \in Choices(free),
             pgdir' = [pgdir EXCEPT ![e][PDX(va)] = t],
             page_free_list' = free \ {t}
      PROVE  /\ pgdir' \in [Env -> [Dir -> Page \cup {NoPage}]]
             /\ \A f \in Env \ {e} : pgdir'[f] = pgdir[f]
             /\ \A d \in Dir : d # PDX(va) => pgdir'[e][d] = pgdir[e][d]
             /\ pgdir'[e][PDX(va)] # NoPage
             /\ page_free_list' \subseteq Page
  <2>1. t \in Page
    BY AddrSpaceAssumption
  <2> QED BY <1>2, <1>5, <2>1 DEF TypeTables
<1> QED BY <1>3, <1>4, <1>5 DEF Insert, Inserted

\* Insert keeps the shape of the tables.
LEMMA InsertShape ==
  ASSUME TypeTables, Tables, UNCHANGED env_pgdir,
         NEW e \in Env, Live(e), NEW p \in Page, NEW va \in Va, NEW perm \in Perm,
         Inserted(e, p, va, perm)
  PROVE  /\ Tables'
         /\ \A w \in VPage : w # va /\ page_lookup(e, w).page # NoPage =>
              page_lookup(e, w)' = page_lookup(e, w)
<1>1. /\ pt'[e][va] = [page |-> p, perm |-> perm]
      /\ \A w \in Va \ {va} : pt'[e][w] = pt[e][w]
      /\ \A f \in Env \ {e} : pt'[f] = pt[f] /\ pgdir'[f] = pgdir[f]
      /\ \A d \in Dir : d # PDX(va) => pgdir'[e][d] = pgdir[e][d]
      /\ pgdir[e][PDX(va)] # NoPage => pgdir' = pgdir
      /\ pgdir'[e][PDX(va)] # NoPage
  BY DEF Inserted
<1>2. Tables'
  <2> SUFFICES ASSUME NEW f \in Env PROVE TablesOf(f)'
    BY DEF Tables
  <2>1. TablesOf(f)
    BY DEF Tables
  <2>2. CASE f # e
    BY <1>1, <2>1, <2>2 DEF TablesOf, Live
  <2>3. CASE f = e
    <3>1. Live(e)' /\ pt'[e][va].page # NoPage
      BY <1>1, Entries DEF Live
    <3>2. ASSUME NEW w \in Va \ {va}
          PROVE  /\ pgdir'[e][PDX(w)] = NoPage => pt'[e][w] = Unmapped
                 /\ pt'[e][w].page = NoPage => pt'[e][w] = Unmapped
      <4>1. pgdir'[e][PDX(w)] = NoPage => pgdir[e][PDX(w)] = NoPage
        BY <1>1, PdxInDir
      <4> QED BY <1>1, <2>1, <2>3, <4>1 DEF TablesOf
    <3> QED BY <1>1, <2>3, <3>1, <3>2 DEF TablesOf
  <2> QED BY <2>2, <2>3
<1>3. ASSUME NEW w \in VPage, w # va, page_lookup(e, w).page # NoPage
      PROVE  page_lookup(e, w)' = page_lookup(e, w)
  <2>1. CASE w \in Va
    BY <1>1, <1>3, <2>1 DEF page_lookup, EntryIn
  <2>2. CASE w \notin Va /\ w = Vpt(Self)
    BY <2>2 DEF page_lookup, EntryIn
  <2>3. CASE w \notin Va /\ w # Vpt(Self)
    <3>1. w - NVA \in Dir
      BY <2>3, Window
    <3>2. pgdir[e][w - NVA] # NoPage
      BY <1>3, <2>3 DEF page_lookup, EntryIn
    <3>3. pgdir'[e][w - NVA] = pgdir[e][w - NVA]
      BY <1>1, <3>1, <3>2
    <3> QED BY <2>3, <3>3 DEF page_lookup, EntryIn
  <2> QED BY <2>1, <2>2, <2>3
<1> QED BY <1>2, <1>3

\* A mapping that page_insert makes: the TLB forgets what it had at va.
LEMMA PageInsertTInv ==
  ASSUME TInv, NEW e \in Env, Live(e), NEW free, free \subseteq Page, NEW p \in Page,
         NEW va \in Va, NEW perm \in Perm, page_insert(e, free, p, va, perm),
         UNCHANGED <<env_pgdir, env_asid, env_parent, lost, phase>>
  PROVE  TInv'
<1>0. TypeTables /\ Tables /\ env_asid[e] \in Asid /\ va \in VPage
  BY Window DEF TInv, TypeTables
<1>1. Inserted(e, p, va, perm) /\ tlb' = tlb_invalidate(env_asid[e], {va})
  BY <1>0, InsertTables DEF page_insert
<1>2. /\ tlb' \in [Asid -> [VPage -> Entry]]
      /\ \A b \in Asid, w \in VPage :
           tlb'[b][w] = IF b = env_asid[e] /\ Pair(va) = Pair(w) THEN Unmapped ELSE tlb[b][w]
  <2>1. tlb \in [Asid -> [VPage -> Entry]]
    BY <1>0 DEF TypeTables
  <2> QED BY <1>0, <1>1, <2>1, InvalidateOne
<1>3. TypeTables'
  BY <1>0, <1>1, <1>2 DEF TypeTables, Inserted
<1>4. /\ Tables'
      /\ \A w \in VPage : w # va /\ page_lookup(e, w).page # NoPage =>
           page_lookup(e, w)' = page_lookup(e, w)
  BY <1>0, <1>1, InsertShape
<1>5. AsidsDiffer' /\ TlbCoherent'
  <2>1. \A f \in Env \ {e} : pt'[f] = pt[f] /\ pgdir'[f] = pgdir[f]
    BY <1>1 DEF Inserted
  <2>2. ASSUME NEW a \in Asid, NEW v \in VPage, tlb'[a][v].page # NoPage
        PROVE  /\ tlb'[a][v] = tlb[a][v]
               /\ a = env_asid[e] /\ page_lookup(e, v) = tlb[a][v] =>
                    page_lookup(e, v)' = page_lookup(e, v)
    BY <1>2, <1>4, <2>2, Entries
  <2> QED BY <1>3, <2>1, <2>2, TlbStep
<1> QED BY <1>3, <1>4, <1>5 DEF TInv

\* A step that leaves the tables alone and at most flushes the TLB.
LEMMA FlushTInv ==
  ASSUME TInv, UNCHANGED <<env_pgdir, env_asid, env_parent, pgdir, pt>>,
         page_free_list' \subseteq Page, lost' \subseteq Page,
         phase' \in {"boot", "run", "panic"},
         NEW a \in Asid, NEW vs, tlb' = tlb \/ tlb' = tlb_invalidate(a, vs)
  PROVE  TInv'
<1>0. TypeTables /\ Tables /\ AsidsDiffer /\ TlbCoherent
  BY DEF TInv
<1>1. /\ tlb' \in [Asid -> [VPage -> Entry]]
      /\ \A b \in Asid, w \in VPage : tlb'[b][w] \in {Unmapped, tlb[b][w]}
  <2>1. tlb \in [Asid -> [VPage -> Entry]]
    BY <1>0 DEF TypeTables
  <2>2. CASE tlb' = tlb_invalidate(a, vs)
    BY <2>1, <2>2, Invalidate DEF Forgets
  <2> QED BY <2>1, <2>2
<1>2. TypeTables'
  BY <1>0, <1>1 DEF TypeTables
<1>3. Tables' /\ AsidsDiffer'
  BY <1>0 DEF Tables, TablesOf, AsidsDiffer, Live
<1>4. TlbCoherent'
  <2>1. \A b \in Asid, w \in VPage : tlb'[b][w].page # NoPage => tlb'[b][w] = tlb[b][w]
    BY <1>1, Entries
  <2>2. \A f \in Env : (Live(f)' <=> Live(f)) /\ \A v \in VPage : page_lookup(f, v)' = page_lookup(f, v)
    BY DEF Live, page_lookup, EntryIn
  <2> QED BY <1>0, <2>1, <2>2 DEF TlbCoherent
<1> QED BY <1>2, <1>3, <1>4 DEF TInv

\* A new environment gets an ASID of which nothing is in the TLB.
LEMMA EnvAllocTInv ==
  ASSUME TInv, NEW e \in Env, NEW parent \in Env \cup {NoEnv}, env_alloc(e, parent)
  PROVE  TInv'
<1>0. TypeTables /\ Tables /\ AsidsDiffer /\ TlbCoherent
  BY DEF TInv
<1>1. PICK p \in Choices(page_free_list), a \in FreeAsids :
        /\ page_free_list' = page_free_list \ {p}
        /\ env_pgdir' = [env_pgdir EXCEPT ![e] = p]
        /\ env_asid' = [env_asid EXCEPT ![e] = a]
  BY DEF env_alloc
<1>2. /\ ~Live(e) /\ env_parent' = [env_parent EXCEPT ![e] = parent]
      /\ UNCHANGED <<pgdir, pt, tlb, lost, phase>>
  BY DEF env_alloc
<1>3. /\ p \in Page /\ p # NoPage /\ a \in Asid
      /\ \A f \in Env : Live(f) => env_asid[f] # a
  BY <1>0, AddrSpaceAssumption DEF TypeTables, FreeAsids
<1>4. TypeTables'
  BY <1>0, <1>1, <1>2, <1>3 DEF TypeTables
<1>5. /\ env_pgdir'[e] = p /\ env_asid'[e] = a
      /\ \A f \in Env \ {e} : env_pgdir'[f] = env_pgdir[f] /\ env_asid'[f] = env_asid[f]
  BY <1>0, <1>1 DEF TypeTables
<1>6. \A f \in Env : Live(f)' <=> Live(f) \/ f = e
  BY <1>3, <1>5 DEF Live
<1>7. Tables'
  BY <1>0, <1>2, <1>6 DEF Tables, TablesOf
<1>8. AsidsDiffer'
  BY <1>0, <1>3, <1>5, <1>6 DEF AsidsDiffer
<1>9. TlbCoherent'
  <2> SUFFICES ASSUME NEW b \in Asid, NEW v \in VPage, tlb'[b][v].page # NoPage
               PROVE  \E f \in Env : /\ Live(f)'
                                     /\ env_asid'[f] = b
                                     /\ \A g \in Env : Live(g)' /\ env_asid'[g] = b => g = f
                                     /\ page_lookup(f, v)' = tlb'[b][v]
    BY DEF TlbCoherent
  <2>1. PICK f \in Env : /\ Live(f)
                         /\ env_asid[f] = b
                         /\ \A g \in Env : Live(g) /\ env_asid[g] = b => g = f
                         /\ page_lookup(f, v) = tlb[b][v]
    BY <1>0, <1>2 DEF TlbCoherent
  <2>2. f # e /\ a # b
    BY <1>2, <1>3, <2>1
  <2>3. page_lookup(f, v)' = page_lookup(f, v)
    BY <1>2, <1>5, <2>2 DEF page_lookup, EntryIn
  <2> QED BY <1>2, <1>5, <1>6, <2>1, <2>2, <2>3
<1> QED BY <1>4, <1>7, <1>8, <1>9 DEF TInv

\* An environment that ends leaves nothing in the TLB for the next owner of
\* its ASID.
LEMMA EnvFreeTInv ==
  ASSUME TInv, NEW e \in Env, env_free(e)
  PROVE  TInv'
<1>0. TypeTables /\ Tables /\ AsidsDiffer /\ TlbCoherent /\ env_asid[e] \in Asid
  BY DEF TInv, TypeTables
<1>1. /\ Live(e)
      /\ page_free_list' = page_free_list \cup Released(pp_ref')
      /\ pgdir' = [pgdir EXCEPT ![e] = [d \in Dir |-> NoPage]]
      /\ pt' = [pt EXCEPT ![e] = [va \in Va |-> Unmapped]]
      /\ tlb' = tlb_invalidate(env_asid[e], Flushed(e))
      /\ env_pgdir' = [env_pgdir EXCEPT ![e] = NoPage]
      /\ env_asid' = [env_asid EXCEPT ![e] = 0]
      /\ env_parent' = [f \in Env |->
           IF e \in {f, env_parent[f]} THEN NoEnv ELSE env_parent[f]]
      /\ UNCHANGED <<lost, phase>>
  BY DEF env_free
<1>2. /\ tlb' \in [Asid -> [VPage -> Entry]]
      /\ \A b \in Asid, w \in VPage :
           tlb'[b][w] = IF b = env_asid[e] /\ \E v \in Flushed(e) : Pair(v) = Pair(w)
                        THEN Unmapped ELSE tlb[b][w]
  <2>1. tlb \in [Asid -> [VPage -> Entry]]
    BY <1>0 DEF TypeTables
  <2>2. Forgets(env_asid[e], Flushed(e))
    BY <1>0, <1>1, <2>1, Invalidate
  <2> QED BY <2>2 DEF Forgets
<1>3. TypeTables'
  <2>1. page_free_list' \subseteq Page
    BY <1>0, <1>1 DEF TypeTables, Released
  <2>2. 0 \in Asid
    BY AddrSpaceAssumption DEF Asid
  <2>3. /\ pgdir' \in [Env -> [Dir -> Page \cup {NoPage}]]
        /\ pt' \in [Env -> [Va -> Entry]]
        /\ env_pgdir' \in [Env -> Page \cup {NoPage}]
        /\ env_asid' \in [Env -> Asid]
    BY <1>0, <1>1, <2>2, Entries DEF TypeTables
  <2>4. env_parent' \in [Env -> Env \cup {NoEnv}]
    BY <1>0, <1>1 DEF TypeTables
  <2> QED BY <1>0, <1>1, <1>2, <2>1, <2>3, <2>4 DEF TypeTables
<1>4. /\ env_pgdir'[e] = NoPage
      /\ \A d \in Dir : pgdir'[e][d] = NoPage
      /\ \A va \in Va : pt'[e][va] = Unmapped
      /\ \A f \in Env \ {e} : /\ env_pgdir'[f] = env_pgdir[f] /\ env_asid'[f] = env_asid[f]
                              /\ pgdir'[f] = pgdir[f] /\ pt'[f] = pt[f]
  BY <1>0, <1>1 DEF TypeTables
<1>5. \A f \in Env : Live(f)' <=> Live(f) /\ f # e
  BY <1>4 DEF Live
<1>6. Tables'
  <2> SUFFICES ASSUME NEW f \in Env PROVE TablesOf(f)'
    BY DEF Tables
  <2>1. CASE f = e
    BY <1>4, <2>1 DEF TablesOf
  <2>2. CASE f # e
    BY <1>0, <1>4, <1>5, <2>2 DEF Tables, TablesOf
  <2> QED BY <2>1, <2>2
<1>7. AsidsDiffer'
  BY <1>0, <1>4, <1>5 DEF AsidsDiffer
<1>8. TlbCoherent'
  <2> SUFFICES ASSUME NEW b \in Asid, NEW v \in VPage, tlb'[b][v].page # NoPage
               PROVE  \E f \in Env : /\ Live(f)'
                                     /\ env_asid'[f] = b
                                     /\ \A g \in Env : Live(g)' /\ env_asid'[g] = b => g = f
                                     /\ page_lookup(f, v)' = tlb'[b][v]
    BY DEF TlbCoherent
  <2>1. /\ tlb'[b][v] = tlb[b][v]
        /\ b = env_asid[e] => v \notin Flushed(e)
    BY <1>2, Entries
  <2>2. PICK f \in Env : /\ Live(f)
                         /\ env_asid[f] = b
                         /\ \A g \in Env : Live(g) /\ env_asid[g] = b => g = f
                         /\ page_lookup(f, v) = tlb[b][v]
    BY <1>0, <2>1 DEF TlbCoherent
  <2>3. f # e
    <3> SUFFICES ASSUME f = e PROVE v \in Flushed(e)
      BY <2>1, <2>2
    <3>1. page_lookup(e, v).page # NoPage
      BY <2>1, <2>2
    <3>2. CASE v \in Va
      BY <3>1, <3>2, Entries DEF page_lookup, EntryIn, Flushed
    <3>3. CASE v = Vpt(Self)
      BY <3>3 DEF Flushed
    <3>4. CASE v \notin Va /\ v # Vpt(Self)
      <4>1. v - NVA \in Dir /\ v = Vpt(v - NVA)
        BY <3>4, Window
      <4>2. pgdir[e][v - NVA] # NoPage
        BY <3>1, <3>4 DEF page_lookup, EntryIn
      <4> QED BY <4>1, <4>2 DEF Flushed
    <3> QED BY <3>2, <3>3, <3>4
  <2>4. page_lookup(f, v)' = page_lookup(f, v)
    BY <1>4, <2>3 DEF page_lookup, EntryIn
  <2> QED BY <1>4, <1>5, <2>1, <2>2, <2>3, <2>4
<1> QED BY <1>3, <1>6, <1>7, <1>8 DEF TInv

\* sys_mem_unmap: page_remove flushes the TLB as well.
LEMMA UnmapTInv ==
  ASSUME TInv, NEW e \in Env, Live(e), NEW va \in Va,
         page_free_list' = page_free_list \cup Released(pp_ref'),
         pt' = [pt EXCEPT ![e][va] = Unmapped],
         tlb' = tlb_invalidate(env_asid[e], {va}),
         UNCHANGED <<env_pgdir, env_asid, env_parent, pgdir, lost, phase>>
  PROVE  TInv'
<1>0. TypeTables /\ Tables /\ env_asid[e] \in Asid /\ va \in VPage
      /\ tlb \in [Asid -> [VPage -> Entry]]
  BY Window DEF TInv, TypeTables
<1>1. /\ pt' \in [Env -> [Va -> Entry]]
      /\ pt'[e][va] = Unmapped
      /\ \A w \in Va \ {va} : pt'[e][w] = pt[e][w]
      /\ \A f \in Env \ {e} : pt'[f] = pt[f]
  BY <1>0, Entries DEF TypeTables
<1>2. /\ tlb' \in [Asid -> [VPage -> Entry]]
      /\ \A b \in Asid, w \in VPage :
           tlb'[b][w] = IF b = env_asid[e] /\ Pair(va) = Pair(w) THEN Unmapped ELSE tlb[b][w]
  BY <1>0, InvalidateOne
<1>3. TypeTables'
  BY <1>0, <1>1, <1>2 DEF TypeTables, Released
<1>4. Tables'
  <2> SUFFICES ASSUME NEW f \in Env PROVE TablesOf(f)'
    BY DEF Tables
  <2>1. TablesOf(f) /\ \A w \in Va : pt'[f][w] \in {Unmapped, pt[f][w]}
    BY <1>0, <1>1 DEF Tables
  <2> QED BY <2>1 DEF TablesOf, Live
<1>5. AsidsDiffer' /\ TlbCoherent'
  <2>1. \A w \in VPage : w # va => page_lookup(e, w)' = page_lookup(e, w)
    BY <1>1 DEF page_lookup, EntryIn
  <2>2. ASSUME NEW a \in Asid, NEW v \in VPage, tlb'[a][v].page # NoPage
        PROVE  /\ tlb'[a][v] = tlb[a][v]
               /\ a = env_asid[e] /\ page_lookup(e, v) = tlb[a][v] =>
                    page_lookup(e, v)' = page_lookup(e, v)
    BY <1>2, <2>1, <2>2, Entries
  <2>3. \A f \in Env \ {e} : pt'[f] = pt[f] /\ pgdir'[f] = pgdir[f]
    BY <1>1
  <2> QED BY <1>3, <2>2, <2>3, TlbStep
<1> QED BY <1>3, <1>4, <1>5 DEF TInv

\* A refill loads what the tables say, after they may have got a page.
LEMMA RefillTInv ==
  ASSUME TInv, NEW e \in Env, Live(e), NEW v \in VPage,
         UNCHANGED <<env_pgdir, env_asid, env_parent, lost, phase>>,
         page_free_list' \subseteq Page,
         pt' \in [Env -> [Va -> Entry]], pgdir' \in [Env -> [Dir -> Page \cup {NoPage}]],
         Tables',
         \A f \in Env \ {e} : pt'[f] = pt[f] /\ pgdir'[f] = pgdir[f],
         \A w \in VPage : w # v /\ page_lookup(e, w).page # NoPage =>
           page_lookup(e, w)' = page_lookup(e, w),
         tlbwr(e, pgdir'[e], pt'[e], v)
  PROVE  TInv'
<1>0. TypeTables /\ env_asid[e] \in Asid /\ tlb \in [Asid -> [VPage -> Entry]]
  BY DEF TInv, TypeTables
<1>1. PICK victim : tlb' = Refilled(e, pgdir'[e], pt'[e], v, victim)
  BY DEF tlbwr
<1>2. tlb' = [a \in Asid |-> [w \in VPage |->
                IF a = env_asid[e] /\ Pair(v) = Pair(w) THEN EntryIn(e, pgdir'[e], pt'[e], w)
                ELSE IF victim = <<a, Pair(w)>> THEN Unmapped ELSE tlb[a][w]]]
  BY <1>1 DEF Refilled
<1>3. \A w \in VPage : EntryIn(e, pgdir'[e], pt'[e], w) = page_lookup(e, w)'
  BY DEF page_lookup, EntryIn
<1>4. \A w \in VPage : page_lookup(e, w)' \in Entry
  <2> SUFFICES ASSUME NEW w \in VPage PROVE page_lookup(e, w)' \in Entry
    OBVIOUS
  <2>1. CASE w \in Va
    BY <2>1 DEF page_lookup, EntryIn
  <2>2. CASE w \notin Va
    <3>1. (IF w = Vpt(Self) THEN env_pgdir'[e] ELSE pgdir'[e][w - NVA]) \in Page \cup {NoPage}
      BY <1>0, <2>2, Window DEF TypeTables
    <3> QED BY <2>2, <3>1 DEF page_lookup, EntryIn, Entry, Perm
  <2> QED BY <2>1, <2>2
<1>5. \A a \in Asid, w \in VPage :
        tlb'[a][w] = IF a = env_asid[e] /\ Pair(v) = Pair(w) THEN page_lookup(e, w)'
                     ELSE IF victim = <<a, Pair(w)>> THEN Unmapped ELSE tlb[a][w]
  BY <1>2, <1>3
<1>6. tlb' \in [Asid -> [VPage -> Entry]]
  <2>1. \A a \in Asid, w \in VPage : tlb'[a][w] \in Entry
    BY <1>0, <1>4, <1>5, Entries
  <2>2. tlb' = [a \in Asid |-> [w \in VPage |-> tlb'[a][w]]]
    BY <1>2
  <2> QED BY <2>1, <2>2
<1>7. TypeTables'
  BY <1>0, <1>6 DEF TypeTables
<1>8. ASSUME NEW a \in Asid, NEW w \in VPage, tlb'[a][w].page # NoPage
      PROVE  \/ a = env_asid[e] /\ page_lookup(e, w)' = tlb'[a][w]
             \/ /\ tlb'[a][w] = tlb[a][w]
                /\ a = env_asid[e] /\ page_lookup(e, w) = tlb[a][w] =>
                     page_lookup(e, w)' = page_lookup(e, w)
  <2>1. CASE a = env_asid[e] /\ Pair(v) = Pair(w)
    BY <1>5, <2>1
  <2>2. CASE ~(a = env_asid[e] /\ Pair(v) = Pair(w))
    <3>1. tlb'[a][w] = tlb[a][w]
      BY <1>5, <1>8, <2>2, Entries
    <3>2. a = env_asid[e] => w # v
      BY <2>2
    <3> QED BY <1>8, <3>1, <3>2
  <2> QED BY <2>1, <2>2
<1>9. AsidsDiffer' /\ TlbCoherent'
  BY <1>7, <1>8, TlbStep
<1> QED BY <1>7, <1>9 DEF TInv

\* passive_alloc of a page that is not there: the tables get it, and keep all
\* else.
LEMMA PassiveAlloc ==
  ASSUME TypeTables, Tables, UNCHANGED env_pgdir, NEW e \in Env, Live(e), NEW v \in VPage,
         page_lookup(e, v).page = NoPage, passive_alloc(e, v)
  PROVE  /\ page_free_list' \subseteq Page
         /\ pt' \in [Env -> [Va -> Entry]]
         /\ pgdir' \in [Env -> [Dir -> Page \cup {NoPage}]]
         /\ Tables'
         /\ \A f \in Env \ {e} : pt'[f] = pt[f] /\ pgdir'[f] = pgdir[f]
         /\ \A w \in VPage : w # v /\ page_lookup(e, w).page # NoPage =>
              page_lookup(e, w)' = page_lookup(e, w)
<1>1. PICK p \in Choices(page_free_list) :
        \/ v \in Va /\ Insert(e, page_free_list \ {p}, p, v, {"D"})
        \/ /\ v \notin Va
           /\ pgdir' = [pgdir EXCEPT ![e][v - NVA] = p]
           /\ page_free_list' = page_free_list \ {p}
           /\ UNCHANGED pt
  BY DEF passive_alloc
<1>2. p \in Page /\ page_free_list \subseteq Page /\ p # NoPage
  BY AddrSpaceAssumption DEF TypeTables
<1>3. CASE v \in Va /\ Insert(e, page_free_list \ {p}, p, v, {"D"})
  <2>1. page_free_list \ {p} \subseteq Page /\ {"D"} \in Perm
    BY <1>2, Entries
  <2>2. Inserted(e, p, v, {"D"})
    BY <1>2, <1>3, <2>1, InsertTables
  <2>3. /\ Tables'
        /\ \A w \in VPage : w # v /\ page_lookup(e, w).page # NoPage =>
             page_lookup(e, w)' = page_lookup(e, w)
    BY <1>2, <1>3, <2>1, <2>2, InsertShape
  <2> QED BY <2>2, <2>3 DEF Inserted
<1>4. CASE /\ v \notin Va
           /\ pgdir' = [pgdir EXCEPT ![e][v - NVA] = p]
           /\ page_free_list' = page_free_list \ {p}
           /\ UNCHANGED pt
  <2>1. v # Vpt(Self)
    BY <1>4 DEF page_lookup, EntryIn, Live
  <2>2. v - NVA \in Dir /\ pgdir[e][v - NVA] = NoPage
    BY <1>4, <2>1, Window DEF page_lookup, EntryIn
  <2>3. /\ pgdir' \in [Env -> [Dir -> Page \cup {NoPage}]]
        /\ \A f \in Env \ {e} : pgdir'[f] = pgdir[f]
        /\ \A d \in Dir : pgdir'[e][d] = IF d = v - NVA THEN p ELSE pgdir[e][d]
    BY <1>2, <1>4, <2>2 DEF TypeTables
  <2>4. \A f \in Env, d \in Dir : pgdir'[f][d] = NoPage => pgdir[f][d] = NoPage
    BY <1>2, <2>2, <2>3
  <2>5. Tables'
    <3> SUFFICES ASSUME NEW f \in Env PROVE TablesOf(f)'
      BY DEF Tables
    <3>1. TablesOf(f)
      BY DEF Tables
    <3>2. ~Live(f)' => f # e
      BY DEF Live
    <3> QED BY <1>4, <2>3, <2>4, <3>1, <3>2, PdxInDir DEF TablesOf, Live
  <2>6. ASSUME NEW w \in VPage, w # v, page_lookup(e, w).page # NoPage
        PROVE  page_lookup(e, w)' = page_lookup(e, w)
    <3>1. CASE w \in Va \/ w = Vpt(Self)
      BY <1>4, <3>1 DEF page_lookup, EntryIn
    <3>2. CASE ~(w \in Va \/ w = Vpt(Self))
      <4>1. w - NVA \in Dir /\ w = Vpt(w - NVA) /\ v = Vpt(v - NVA)
        BY <1>4, <2>1, <3>2, Window
      <4>2. w - NVA # v - NVA
        BY <2>6, <4>1
      <4> QED BY <1>4, <2>3, <3>2, <4>1, <4>2 DEF page_lookup, EntryIn
    <3> QED BY <3>1, <3>2
  <2> QED BY <1>2, <1>4, <2>3, <2>5, <2>6 DEF TypeTables
<1> QED BY <1>1, <1>3, <1>4

\* A step that changes neither the tables nor the TLB.
LEMMA SameTInv ==
  ASSUME TInv, UNCHANGED <<env_pgdir, env_asid, env_parent, pgdir, pt, tlb>>,
         page_free_list' \subseteq Page, lost' \subseteq Page,
         phase' \in {"boot", "run", "panic"}
  PROVE  TInv'
<1>1. 0 \in Asid
  BY AddrSpaceAssumption DEF Asid
<1> QED BY <1>1, FlushTInv

\* MapInto keeps the tables and the TLB in step, whether or not there is a
\* page for the page table.
LEMMA MapIntoTInv ==
  ASSUME TInv, NEW src \in Env, NEW srcva \in Va, NEW dst \in Env, Live(dst),
         NEW dstva \in Va, NEW perm \in Perm, MapInto(src, srcva, dst, dstva, perm)
  PROVE  TInv'
<1>0. TypeTables /\ env_asid[dst] \in Asid
  BY DEF TInv, TypeTables
<1> DEFINE p == pt[src][srcva].page
<1>1. /\ p # NoPage
      /\ \/ page_insert(dst, page_free_list, p, dstva, perm)
         \/ /\ tlb' = tlb_invalidate(env_asid[dst], {dstva})
            /\ UNCHANGED <<page_free_list, pp_ref, pgdir, pt>>
      /\ UNCHANGED <<env_pgdir, env_asid, env_parent, lost, phase>>
  BY DEF MapInto, page_lookup, EntryIn, pagevars, envvars
<1>2. p \in Page /\ page_free_list \subseteq Page
  BY <1>0, <1>1 DEF TypeTables, Entry
<1> HIDE DEF p
<1>3. CASE page_insert(dst, page_free_list, p, dstva, perm)
  BY <1>1, <1>2, <1>3, PageInsertTInv
<1>4. CASE /\ tlb' = tlb_invalidate(env_asid[dst], {dstva})
           /\ UNCHANGED <<page_free_list, pp_ref, pgdir, pt>>
  BY <1>0, <1>1, <1>4, FlushTInv DEF TypeTables
<1> QED BY <1>1, <1>3, <1>4

\* A legal address below the limit is that of a user page.
LEMMA LegalIsUser == \A v \in VPage : ~is_illegal_va(v) => v \in Va
BY Window DEF is_illegal_va, Va, VPage

\* Every step keeps the tables and the TLB in step.
LEMMA NextTInv ==
  ASSUME TInv, [Next]_vars
  PROVE  TInv'
<1>0. /\ TypeTables /\ Tables /\ page_free_list \subseteq Page /\ lost \subseteq Page
      /\ phase \in {"boot", "run", "panic"}
      /\ \A p \in Choices(page_free_list) : p \in Page
      /\ \A e \in Env : env_asid[e] \in Asid
  BY AddrSpaceAssumption DEF TInv, TypeTables
<1>p. ASSUME panic PROVE TInv'
  BY <1>0, <1>p, SameTInv DEF panic, pagevars, envvars
<1>1. CASE UNCHANGED vars
  BY <1>0, <1>1, SameTInv DEF vars, pagevars, envvars
<1>2. CASE StartFirst
  BY <1>0, <1>2, SameTInv DEF StartFirst, pagevars, envvars
<1>3. ASSUME NEW e \in Env, env_create(e) PROVE TInv'
  BY <1>3, EnvAllocTInv DEF env_create
<1>4. ASSUME NEW e \in Env, env_free(e) PROVE TInv'
  BY <1>4, EnvFreeTInv
<1>5. ASSUME NEW e \in Env, NEW v \in VPage, do_tlb_refill(e, v) PROVE TInv'
  <2>1. Live(e)
    BY <1>5 DEF do_tlb_refill, Running
  <2>2. CASE /\ tlbwr(e, pgdir[e], pt[e], v)
             /\ UNCHANGED <<pagevars, envvars, pgdir, pt, lost, phase>>
    <3>1. UNCHANGED <<page_free_list, env_pgdir, env_asid, env_parent, pgdir, pt, lost, phase>>
      BY <2>2 DEF pagevars, envvars
    <3>2. tlbwr(e, pgdir'[e], pt'[e], v)
      BY <2>2, <3>1
    <3>3. Tables'
      BY <1>0, <3>1 DEF Tables, TablesOf, Live
    <3>4. \A w \in VPage : page_lookup(e, w)' = page_lookup(e, w)
      BY <3>1 DEF page_lookup, EntryIn
    <3>5. /\ pt' \in [Env -> [Va -> Entry]] /\ pgdir' \in [Env -> [Dir -> Page \cup {NoPage}]]
          /\ page_free_list' \subseteq Page
      BY <1>0, <3>1 DEF TypeTables
    <3>6. \A f \in Env \ {e} : pt'[f] = pt[f] /\ pgdir'[f] = pgdir[f]
      BY <3>1
    <3> QED BY <2>1, <3>1, <3>2, <3>3, <3>4, <3>5, <3>6, RefillTInv
  <2>3. CASE /\ page_lookup(e, v).page = NoPage
             /\ passive_alloc(e, v)
             /\ tlbwr(e, pgdir'[e], pt'[e], v)
             /\ UNCHANGED <<envvars, lost, phase>>
    <3>1. UNCHANGED <<env_pgdir, env_asid, env_parent, lost, phase>>
      BY <2>3 DEF envvars
    <3>2. /\ page_free_list' \subseteq Page
          /\ pt' \in [Env -> [Va -> Entry]]
          /\ pgdir' \in [Env -> [Dir -> Page \cup {NoPage}]]
          /\ Tables'
          /\ \A f \in Env \ {e} : pt'[f] = pt[f] /\ pgdir'[f] = pgdir[f]
          /\ \A w \in VPage : w # v /\ page_lookup(e, w).page # NoPage =>
               page_lookup(e, w)' = page_lookup(e, w)
      BY <1>0, <2>1, <2>3, <3>1, PassiveAlloc
    <3> QED BY <2>1, <2>3, <3>1, <3>2, RefillTInv
  <2> QED BY <1>p, <1>5, <2>2, <2>3 DEF do_tlb_refill
<1>6. ASSUME NEW e \in Env, NEW va \in Va, NEW perm \in {{}, {"D"}},
             load_icode_mapper(e, va, perm)
      PROVE  TInv'
  <2>1. Live(e) /\ perm \in Perm
    BY <1>6, Entries DEF load_icode_mapper
  <2>2. ASSUME NEW p \in Choices(page_free_list),
               page_insert(e, page_free_list \ {p}, p, va, perm),
               UNCHANGED <<envvars, lost, phase>>
        PROVE  TInv'
    <3>1. page_free_list \ {p} \subseteq Page /\ p \in Page
          /\ UNCHANGED <<env_pgdir, env_asid, env_parent, lost, phase>>
      BY <1>0, <2>2 DEF envvars
    <3> QED BY <2>1, <2>2, <3>1, PageInsertTInv
  <2> QED BY <1>p, <1>6, <2>2 DEF load_icode_mapper
<1>7. ASSUME NEW c \in Env, NEW e \in Env, sys_exofork(c, e) PROVE TInv'
  <2>1. CASE env_alloc(e, c)
    BY <2>1, EnvAllocTInv
  <2>2. CASE LoseDirectory
    <3>1. PICK p \in Choices(page_free_list) :
            page_free_list' = page_free_list \ {p} /\ lost' = lost \cup {p}
      BY <2>2 DEF LoseDirectory
    <3> QED BY <1>0, <2>2, <3>1, SameTInv DEF LoseDirectory, envvars
  <2> QED BY <1>7, <2>1, <2>2 DEF sys_exofork
<1>8. ASSUME NEW c \in Env, NEW e \in Env, NEW va \in Va, sys_mem_unmap(c, e, va) PROVE TInv'
  BY <1>8, UnmapTInv DEF sys_mem_unmap, MayControl, envvars
<1>9. ASSUME NEW c \in Env, NEW e \in Env, NEW va \in Va, NEW perm \in Perms,
             sys_mem_alloc(c, e, va, perm)
      PROVE  TInv'
  <2>1. Live(e) /\ perm \in Perm /\ UNCHANGED <<env_pgdir, env_asid, env_parent, phase>>
    BY <1>9, Entries DEF sys_mem_alloc, MayControl, envvars
  <2>2. PICK p \in Choices(page_free_list) :
          \/ page_insert(e, page_free_list \ {p}, p, va, perm) /\ UNCHANGED lost
          \/ /\ page_free_list' = page_free_list \ {p}
             /\ lost' = lost \cup {p}
             /\ tlb' = tlb_invalidate(env_asid[e], {va})
             /\ UNCHANGED <<pp_ref, pgdir, pt>>
    BY <1>9 DEF sys_mem_alloc
  <2>3. CASE page_insert(e, page_free_list \ {p}, p, va, perm) /\ UNCHANGED lost
    <3>1. page_free_list \ {p} \subseteq Page /\ p \in Page
      BY <1>0
    <3> QED BY <2>1, <2>3, <3>1, PageInsertTInv
  <2>4. CASE /\ page_free_list' = page_free_list \ {p}
             /\ lost' = lost \cup {p}
             /\ tlb' = tlb_invalidate(env_asid[e], {va})
             /\ UNCHANGED <<pp_ref, pgdir, pt>>
    <3>1. page_free_list' \subseteq Page /\ lost' \subseteq Page
          /\ phase' \in {"boot", "run", "panic"}
      BY <1>0, <2>1, <2>4
    <3> QED BY <1>0, <2>1, <2>4, <3>1, FlushTInv
  <2> QED BY <2>2, <2>3, <2>4
<1>10. ASSUME NEW c \in Env, NEW e \in Env, NEW srcva \in VPage, NEW dstva \in Va,
              NEW perm \in Perms, sys_ipc_try_send(c, srcva, e, dstva, perm)
       PROVE  TInv'
  BY <1>10, MapIntoTInv, LegalIsUser, Entries DEF sys_ipc_try_send
<1>11. ASSUME NEW c \in Env, NEW e \in Env, NEW srcva \in VPage, NEW dstva \in Va,
              NEW perm \in Perms, NEW dst \in Env, sys_mem_map(c, e, srcva, dst, dstva, perm)
       PROVE  TInv'
  BY <1>11, MapIntoTInv, LegalIsUser, Entries DEF sys_mem_map, MayControl
<1> QED BY <1>1, <1>2, <1>3, <1>4, <1>5, <1>6, <1>7, <1>8, <1>9, <1>10, <1>11 DEF Next

\* No entry of the TLB is stale: each is the entry of the one live environment
\* that has its ASID, whatever is mapped, remapped, unmapped, refilled, ends
\* and is created in between.
THEOREM TlbStaysCoherent == Spec => []TlbCoherent
<1>1. TInv => TlbCoherent
  BY DEF TInv
<1> QED BY <1>1, InitTInv, NextTInv, PTL DEF Spec

-----------------------------------------------------------------------------
(* Counting references *)

PtUses(p)  == {x \in Env \X Va : pt[x[1]][x[2]].page = p}
DirUses(p) == {x \in Env \X Dir : pgdir[x[1]][x[2]] = p}
EnvUses(p) == {e \in Env : env_pgdir[e] = p}

\* A page that is a page table or a directory is referred to once.
OneTable == \A p \in Page : DirUses(p) # {} \/ EnvUses(p) # {} => Uses(p) = 1

RInv ==
  /\ pp_ref \in [Page -> 0 .. REF_MOD-1]
  /\ RefsExact
  /\ FreeExact
  /\ OneTable

\* 1 if b, 0 if not.
One(b) == IF b THEN 1 ELSE 0

\* References are countable.
LEMMA Countable ==
  /\ IsFiniteSet(Env) /\ IsFiniteSet(Va) /\ IsFiniteSet(Dir)
  /\ IsFiniteSet(Env \X Va) /\ IsFiniteSet(Env \X Dir)
<1>1. IsFiniteSet(Env)
  BY AddrSpaceAssumption
<1>2. IsFiniteSet(Va)
  <2>1. 0 \in Int /\ NVA - 1 \in Int
    BY Window
  <2> QED BY <2>1, FS_Interval DEF Va
<1>3. IsFiniteSet(Dir)
  <2>1. 0 \in Int /\ NDIR - 1 \in Int
    BY AddrSpaceAssumption
  <2> QED BY <2>1, FS_Interval DEF Dir
<1> QED BY <1>1, <1>2, <1>3, FS_Product

\* Three kinds of references, counted together.
LEMMA ThreeKinds ==
  ASSUME NEW A, A \subseteq Env \X Va, NEW B, B \subseteq Env \X Dir, NEW C, C \subseteq Env,
         NEW n, n = Cardinality(A) + Cardinality(B) + Cardinality(C)
  PROVE  /\ IsFiniteSet(A) /\ IsFiniteSet(B) /\ IsFiniteSet(C)
         /\ Cardinality(A) \in Nat /\ Cardinality(B) \in Nat /\ Cardinality(C) \in Nat
         /\ n \in Nat
         /\ n = 0 <=> A = {} /\ B = {} /\ C = {}
         /\ n = 1 /\ (B # {} \/ C # {}) => A = {}
<1>1. IsFiniteSet(A) /\ IsFiniteSet(B) /\ IsFiniteSet(C)
  BY Countable, FS_Subset
<1>2. Cardinality(A) \in Nat /\ Cardinality(B) \in Nat /\ Cardinality(C) \in Nat
  BY <1>1, FS_CardinalityType
<1>3. /\ Cardinality(A) = 0 <=> A = {}
      /\ Cardinality(B) = 0 <=> B = {}
      /\ Cardinality(C) = 0 <=> C = {}
  BY <1>1, FS_EmptySet
<1> QED BY <1>1, <1>2, <1>3

\* The references to a page, of each kind.  A page that is referred to once,
\* as a table, is mapped by nobody.
LEMMA UsesSum ==
  ASSUME NEW p
  PROVE  /\ IsFiniteSet(PtUses(p)) /\ IsFiniteSet(DirUses(p)) /\ IsFiniteSet(EnvUses(p))
         /\ Cardinality(PtUses(p)) \in Nat
         /\ Cardinality(DirUses(p)) \in Nat
         /\ Cardinality(EnvUses(p)) \in Nat
         /\ Uses(p) = Cardinality(PtUses(p)) + Cardinality(DirUses(p)) + Cardinality(EnvUses(p))
         /\ Uses(p) \in Nat
         /\ Uses(p) = 0 <=> PtUses(p) = {} /\ DirUses(p) = {} /\ EnvUses(p) = {}
         /\ Uses(p) = 1 /\ (DirUses(p) # {} \/ EnvUses(p) # {}) => PtUses(p) = {}
<1>1. /\ PtUses(p) \subseteq Env \X Va /\ DirUses(p) \subseteq Env \X Dir
      /\ EnvUses(p) \subseteq Env
  BY DEF PtUses, DirUses, EnvUses
<1>2. Uses(p) = Cardinality(PtUses(p)) + Cardinality(DirUses(p)) + Cardinality(EnvUses(p))
  BY DEF Uses, PtUses, DirUses, EnvUses
<1> QED BY <1>1, <1>2, ThreeKinds, Zenon

\* The same after a step.
LEMMA UsesSumPrimed ==
  ASSUME NEW p
  PROVE  /\ Cardinality(PtUses(p))' \in Nat
         /\ Cardinality(DirUses(p))' \in Nat
         /\ Cardinality(EnvUses(p))' \in Nat
         /\ Uses(p)' = Cardinality(PtUses(p))' + Cardinality(DirUses(p))' + Cardinality(EnvUses(p))'
         /\ Uses(p)' \in Nat
         /\ Uses(p)' = 0 <=> PtUses(p)' = {} /\ DirUses(p)' = {} /\ EnvUses(p)' = {}
<1>1. /\ PtUses(p)' \subseteq Env \X Va /\ DirUses(p)' \subseteq Env \X Dir
      /\ EnvUses(p)' \subseteq Env
  BY DEF PtUses, DirUses, EnvUses
<1>2. Uses(p)' = Cardinality(PtUses(p)') + Cardinality(DirUses(p)') + Cardinality(EnvUses(p)')
  BY DEF Uses, PtUses, DirUses, EnvUses
<1> QED BY <1>1, <1>2, ThreeKinds, Zenon

\* Two sets that differ at most in x.
LEMMA CountOne ==
  ASSUME NEW S, NEW T, NEW x, IsFiniteSet(S), T \ {x} = S \ {x}
  PROVE  Cardinality(T) = Cardinality(S) + One(x \in T) - One(x \in S)
<1>1. Cardinality(S) \in Nat
  BY FS_CardinalityType
<1>2. CASE x \in S /\ x \in T
  <2>1. T = S
    BY <1>2
  <2> QED BY <1>1, <1>2, <2>1 DEF One
<1>3. CASE x \notin S /\ x \notin T
  <2>1. T = S
    BY <1>3
  <2> QED BY <1>1, <1>3, <2>1 DEF One
<1>4. CASE x \notin S /\ x \in T
  <2>1. T = S \cup {x}
    BY <1>4
  <2>2. Cardinality(S \cup {x}) = Cardinality(S) + 1
    BY <1>4, FS_AddElement
  <2> QED BY <1>1, <1>4, <2>1, <2>2 DEF One
<1>5. CASE x \in S /\ x \notin T
  <2>1. T = S \ {x}
    BY <1>5
  <2>2. Cardinality(S \ {x}) = Cardinality(S) - 1
    BY <1>5, FS_RemoveElement
  <2> QED BY <1>1, <1>5, <2>1, <2>2 DEF One
<1> QED BY <1>2, <1>3, <1>4, <1>5

\* One entry of a page table changes.
LEMMA PtCount ==
  ASSUME NEW e \in Env, NEW va \in Va, NEW p,
         \A f \in Env, w \in Va : <<f, w>> # <<e, va>> => pt'[f][w] = pt[f][w]
  PROVE  Cardinality(PtUses(p))' = Cardinality(PtUses(p))
           + One(pt'[e][va].page = p) - One(pt[e][va].page = p)
<1>1. PtUses(p)' \ {<<e, va>>} = PtUses(p) \ {<<e, va>>}
  BY DEF PtUses
<1>2. /\ <<e, va>> \in PtUses(p)' <=> pt'[e][va].page = p
      /\ <<e, va>> \in PtUses(p) <=> pt[e][va].page = p
  BY DEF PtUses
<1>3. IsFiniteSet(PtUses(p))
  BY UsesSum
<1>4. Cardinality(PtUses(p)') = Cardinality(PtUses(p))
        + One(<<e, va>> \in PtUses(p)') - One(<<e, va>> \in PtUses(p))
  BY <1>1, <1>3, CountOne
<1> QED BY <1>2, <1>4 DEF One

\* One entry of a directory changes.
LEMMA DirCount ==
  ASSUME NEW e \in Env, NEW d \in Dir, NEW p,
         \A f \in Env, g \in Dir : <<f, g>> # <<e, d>> => pgdir'[f][g] = pgdir[f][g]
  PROVE  Cardinality(DirUses(p))' = Cardinality(DirUses(p))
           + One(pgdir'[e][d] = p) - One(pgdir[e][d] = p)
<1>1. DirUses(p)' \ {<<e, d>>} = DirUses(p) \ {<<e, d>>}
  BY DEF DirUses
<1>2. /\ <<e, d>> \in DirUses(p)' <=> pgdir'[e][d] = p
      /\ <<e, d>> \in DirUses(p) <=> pgdir[e][d] = p
  BY DEF DirUses
<1>3. IsFiniteSet(DirUses(p))
  BY UsesSum
<1>4. Cardinality(DirUses(p)') = Cardinality(DirUses(p))
        + One(<<e, d>> \in DirUses(p)') - One(<<e, d>> \in DirUses(p))
  BY <1>1, <1>3, CountOne
<1> QED BY <1>2, <1>4 DEF One

\* The directory of one environment changes.
LEMMA EnvCount ==
  ASSUME NEW e \in Env, NEW p,
         \A f \in Env \ {e} : env_pgdir'[f] = env_pgdir[f]
  PROVE  Cardinality(EnvUses(p))' = Cardinality(EnvUses(p))
           + One(env_pgdir'[e] = p) - One(env_pgdir[e] = p)
<1>1. EnvUses(p)' \ {e} = EnvUses(p) \ {e}
  BY DEF EnvUses
<1>2. /\ e \in EnvUses(p)' <=> env_pgdir'[e] = p
      /\ e \in EnvUses(p) <=> env_pgdir[e] = p
  BY DEF EnvUses
<1>3. IsFiniteSet(EnvUses(p))
  BY UsesSum
<1>4. Cardinality(EnvUses(p)') = Cardinality(EnvUses(p))
        + One(e \in EnvUses(p)') - One(e \in EnvUses(p))
  BY <1>1, <1>3, CountOne
<1> QED BY <1>2, <1>4 DEF One

-----------------------------------------------------------------------------
(* The reference counts *)

LEMMA InitRInv == Init => RInv
<1> SUFFICES ASSUME Init PROVE RInv
  OBVIOUS
<1>1. ASSUME NEW p \in Page PROVE Uses(p) = 0
  <2>1. PtUses(p) = {}
    BY Entries DEF Init, PtUses
  <2>2. DirUses(p) = {}
    BY Entries DEF Init, DirUses
  <2>3. EnvUses(p) = {}
    BY Entries DEF Init, EnvUses
  <2> QED BY <2>1, <2>2, <2>3, UsesSum
<1>2. pp_ref \in [Page -> 0 .. REF_MOD-1] /\ RefsExact /\ FreeExact
  BY <1>1, AddrSpaceAssumption DEF Init, RefsExact, FreeExact
<1>3. OneTable
  BY <1>1, UsesSum DEF OneTable
<1> QED BY <1>2, <1>3 DEF RInv

\* A step in which the counts change as the references do, and in which the
\* pages of A get their first and the free list those that lose their last.
LEMMA CountStep ==
  ASSUME TypeTables, RInv, NoWrap', UNCHANGED lost, pp_ref' \in [Page -> Int],
         \A q \in Page : pp_ref'[q] = pp_ref[q] + Uses(q)' - Uses(q),
         NEW A, A \subseteq page_free_list,
         \A q \in A : Uses(q)' # 0,
         \A q \in Page \ A : Uses(q) = 0 => Uses(q)' = 0,
         page_free_list' = (page_free_list \ A) \cup Released(pp_ref')
  PROVE  pp_ref' \in [Page -> 0 .. REF_MOD-1] /\ RefsExact' /\ FreeExact'
<1>0. /\ pp_ref \in [Page -> 0 .. REF_MOD-1] /\ lost \subseteq Page
      /\ \A p \in Page \ lost : pp_ref[p] = Uses(p)
      /\ page_free_list = {p \in Page \ lost : Uses(p) = 0}
      /\ \A p \in lost : Uses(p) = 0
      /\ REF_MOD \in Nat
  BY AddrSpaceAssumption DEF RInv, RefsExact, FreeExact, TypeTables
<1>1. \A q \in Page : Uses(q) \in Nat /\ Uses(q)' \in Nat /\ Uses(q)' < REF_MOD /\ pp_ref[q] \in Nat
  BY <1>0, UsesSum, UsesSumPrimed DEF NoWrap
<1>2. \A q \in lost : q \in Page /\ q \notin A /\ Uses(q)' = 0 /\ pp_ref'[q] = pp_ref[q]
  BY <1>0, <1>1
<1>3. \A q \in Page \ lost : pp_ref'[q] = Uses(q)'
  BY <1>0, <1>1
<1>4. pp_ref' \in [Page -> 0 .. REF_MOD-1]
  <2>1. \A q \in Page : pp_ref'[q] \in 0 .. REF_MOD-1
    BY <1>0, <1>1, <1>2, <1>3
  <2> QED BY <2>1
<1>5. RefsExact'
  BY <1>3 DEF RefsExact
<1>6. page_free_list' = {p \in Page \ lost : Uses(p)' = 0}
  <2>1. ASSUME NEW q \in Page
        PROVE  q \in page_free_list' <=> q \notin lost /\ Uses(q)' = 0
    <3>1. q \in Released(pp_ref') <=> pp_ref[q] > 0 /\ pp_ref'[q] = 0
      BY DEF Released
    <3>2. CASE q \in lost
      BY <1>0, <1>2, <3>1, <3>2
    <3>3. CASE q \notin lost
      <4>1. pp_ref[q] = Uses(q) /\ pp_ref'[q] = Uses(q)' /\ (q \in page_free_list <=> Uses(q) = 0)
        BY <1>0, <1>3, <3>3
      <4>2. q \in page_free_list' <=> (Uses(q) = 0 /\ q \notin A) \/ (Uses(q) > 0 /\ Uses(q)' = 0)
        BY <3>1, <4>1
      <4> QED BY <1>1, <3>3, <4>2
    <3> QED BY <3>2, <3>3
  <2>2. page_free_list' \subseteq Page
    BY <1>0 DEF Released
  <2> QED BY <2>1, <2>2
<1>7. FreeExact'
  BY <1>2, <1>6 DEF FreeExact
<1> QED BY <1>4, <1>5, <1>7

\* What the invariants say of a free page, of a page of a program and of a
\* page table.
LEMMA PageKinds ==
  ASSUME TypeTables, RInv, NEW p \in Page
  PROVE  /\ p \in page_free_list => p \notin lost /\ pp_ref[p] = 0 /\ Uses(p) = 0
         /\ PtUses(p) # {} => /\ p \notin lost /\ pp_ref[p] = Uses(p) /\ Uses(p) > 0
                              /\ p \notin page_free_list
                              /\ DirUses(p) = {} /\ EnvUses(p) = {}
         /\ DirUses(p) # {} \/ EnvUses(p) # {} => PtUses(p) = {}
         /\ p \in lost => Uses(p) = 0
<1>1. /\ \A q \in Page \ lost : pp_ref[q] = Uses(q)
      /\ page_free_list = {q \in Page \ lost : Uses(q) = 0}
      /\ \A q \in lost : Uses(q) = 0
      /\ DirUses(p) # {} \/ EnvUses(p) # {} => Uses(p) = 1
  BY DEF RInv, RefsExact, FreeExact, OneTable
<1>2. /\ Uses(p) \in Nat
      /\ Uses(p) = 0 <=> PtUses(p) = {} /\ DirUses(p) = {} /\ EnvUses(p) = {}
      /\ Uses(p) = 1 /\ (DirUses(p) # {} \/ EnvUses(p) # {}) => PtUses(p) = {}
  BY UsesSum
<1> QED BY <1>1, <1>2

\* A count that does not wrap.
LEMMA Counts ==
  ASSUME NEW n \in Nat, n + 1 < REF_MOD
  PROVE  Incref(n) = n + 1
BY AddrSpaceAssumption DEF Incref

\* page_insert where there is a page table: one reference more to p, one less
\* to the page that was there.
LEMMA ReinsertRInv ==
  ASSUME TInv, RInv, NoWrap', NEW e \in Env, NEW p \in Page, NEW va \in Va, NEW perm \in Perm,
         p \notin lost, DirUses(p) = {}, EnvUses(p) = {},
         pt' = [pt EXCEPT ![e][va] = [page |-> p, perm |-> perm]],
         pp_ref' = Reinserted(e, p, va),
         page_free_list' = (page_free_list \ {p}) \cup Released(pp_ref'),
         UNCHANGED <<pgdir, env_pgdir, lost>>
  PROVE  RInv'
<1>0. /\ TypeTables /\ OneTable /\ pp_ref \in [Page -> 0 .. REF_MOD-1]
      /\ REF_MOD \in Nat /\ NoPage \notin Page
  BY AddrSpaceAssumption DEF TInv, RInv
<1>1. PICK old : old = pt[e][va].page
  OBVIOUS
<1>2. old \in Page \cup {NoPage}
  BY <1>0, <1>1 DEF TypeTables, Entry
<1>3. /\ pt'[e][va].page = p
      /\ \A f \in Env, w \in Va : <<f, w>> # <<e, va>> => pt'[f][w] = pt[f][w]
  BY <1>0 DEF TypeTables
<1>4. \A q : DirUses(q)' = DirUses(q) /\ EnvUses(q)' = EnvUses(q)
  BY DEF DirUses, EnvUses
<1>5. \A q : Uses(q)' = Uses(q) + One(p = q) - One(old = q)
  <2> TAKE q
  <2>1. Cardinality(PtUses(q))' = Cardinality(PtUses(q)) + One(p = q) - One(old = q)
    BY <1>1, <1>3, PtCount
  <2>2. One(p = q) \in {0, 1} /\ One(old = q) \in {0, 1}
    BY DEF One
  <2> QED BY <1>4, <2>1, <2>2, UsesSum, UsesSumPrimed
<1>6. old \in Page => PtUses(old) # {}
  <2>1. <<e, va>> \in PtUses(old)
    BY <1>1 DEF PtUses
  <2> QED BY <2>1
<1>7. pp_ref[p] = Uses(p) /\ Uses(p) \in Nat /\ (p \in page_free_list <=> Uses(p) = 0)
  BY UsesSum DEF RInv, RefsExact, FreeExact
<1>8. old # p => Incref(pp_ref[p]) = pp_ref[p] + 1
  <2>1. old # p => Uses(p)' = Uses(p) + 1
    BY <1>5, <1>7 DEF One
  <2>2. Uses(p)' < REF_MOD
    BY DEF NoWrap
  <2> QED BY <1>7, <2>1, <2>2, Counts
<1>9. /\ pp_ref' \in [Page -> Int]
      /\ \A q \in Page : pp_ref'[q] = pp_ref[q] + One(p = q) - One(old = q)
  <2>1. pp_ref' = IF old = p THEN pp_ref
                  ELSE [(IF old = NoPage THEN pp_ref ELSE [pp_ref EXCEPT ![old] = @ - 1])
                          EXCEPT ![p] = Incref(@)]
    BY <1>1 DEF Reinserted
  <2>2. \A q \in Page : pp_ref[q] \in Nat
    BY <1>0
  <2>3. CASE old = p
    <3>1. pp_ref' = pp_ref
      BY <2>1, <2>3
    <3>2. pp_ref' \in [Page -> Int]
      <4>1. 0 .. REF_MOD-1 \subseteq Int
        BY <1>0
      <4> QED BY <1>0, <3>1, <4>1
    <3>3. \A q \in Page : pp_ref[q] = pp_ref[q] + One(p = q) - One(p = q)
      BY <2>2 DEF One
    <3> QED BY <2>3, <3>1, <3>2, <3>3
  <2>4. CASE old = NoPage
    <3>1. pp_ref' = [pp_ref EXCEPT ![p] = pp_ref[p] + 1]
      BY <1>0, <1>8, <2>1, <2>4
    <3> QED BY <1>0, <2>2, <2>4, <3>1 DEF One
  <2>5. CASE old # p /\ old # NoPage
    <3>1. pp_ref' = [[pp_ref EXCEPT ![old] = @ - 1] EXCEPT ![p] = Incref(@)]
      BY <2>1, <2>5
    <3>2. /\ pp_ref' \in [Page -> Int]
          /\ \A q \in Page : pp_ref'[q] = IF q = p THEN pp_ref[p] + 1
                                          ELSE IF q = old THEN pp_ref[q] - 1 ELSE pp_ref[q]
      BY <1>0, <1>2, <1>8, <2>2, <2>5, <3>1
    <3> QED BY <2>2, <2>5, <3>2 DEF One
  <2> QED BY <2>3, <2>4, <2>5
<1>10. \A q \in Page : pp_ref'[q] = pp_ref[q] + Uses(q)' - Uses(q)
  <2>1. \A q \in Page : pp_ref[q] \in Nat /\ Uses(q) \in Nat /\ One(p = q) \in Nat /\ One(old = q) \in Nat
    BY <1>0, UsesSum DEF One
  <2> QED BY <1>5, <1>9, <2>1
<1>11. pp_ref' \in [Page -> 0 .. REF_MOD-1] /\ RefsExact' /\ FreeExact'
  <2> DEFINE A == {p} \cap page_free_list
  <2>1. page_free_list' = (page_free_list \ A) \cup Released(pp_ref') /\ A \subseteq page_free_list
    OBVIOUS
  <2>2. \A q \in A : Uses(q)' # 0
    BY <1>5, <1>6, <1>7, UsesSum DEF One
  <2>3. \A q \in Page \ A : Uses(q) = 0 => Uses(q)' = 0
    <3> SUFFICES ASSUME NEW q \in Page \ A, Uses(q) = 0 PROVE Uses(q)' = 0
      OBVIOUS
    <3>1. q # p
      BY <1>7
    <3>2. q # old
      BY <1>6, UsesSum
    <3> QED BY <1>5, <3>1, <3>2 DEF One
  <2> HIDE DEF A
  <2> QED BY <1>0, <1>9, <1>10, <2>1, <2>2, <2>3, CountStep
<1>12. OneTable'
  <2> SUFFICES ASSUME NEW q \in Page, DirUses(q) # {} \/ EnvUses(q) # {} PROVE Uses(q)' = 1
    BY <1>4 DEF OneTable
  <2>1. q # p /\ Uses(q) = 1
    BY <1>0 DEF OneTable
  <2>2. q # old
    BY <1>0, <1>6, PageKinds
  <2> QED BY <1>5, <2>1, <2>2 DEF One
<1> QED BY <1>11, <1>12 DEF RInv

\* page_insert where there is no page table: a free page t becomes the table.
LEMMA InsertTableRInv ==
  ASSUME TInv, RInv, NoWrap', NEW e \in Env, NEW p \in Page, NEW va \in Va, NEW perm \in Perm,
         p \notin lost, DirUses(p) = {}, EnvUses(p) = {},
         NEW t \in page_free_list, t # p, pgdir[e][PDX(va)] = NoPage,
         pt' = [pt EXCEPT ![e][va] = [page |-> p, perm |-> perm]],
         pgdir' = [pgdir EXCEPT ![e][PDX(va)] = t],
         pp_ref' = [pp_ref EXCEPT ![t] = 1, ![p] = Incref(@)],
         page_free_list' = (page_free_list \ {p}) \ {t},
         UNCHANGED <<env_pgdir, lost>>
  PROVE  RInv'
<1>0. /\ TypeTables /\ OneTable /\ pp_ref \in [Page -> 0 .. REF_MOD-1]
      /\ REF_MOD \in Nat /\ NoPage \notin Page /\ PDX(va) \in Dir
  BY AddrSpaceAssumption, PdxInDir DEF TInv, RInv
<1>1. pt[e][va].page = NoPage
  BY <1>0, Entries DEF TInv, Tables, TablesOf
<1>2. /\ pt'[e][va].page = p
      /\ \A f \in Env, w \in Va : <<f, w>> # <<e, va>> => pt'[f][w] = pt[f][w]
  BY <1>0 DEF TypeTables
<1>3. /\ pgdir'[e][PDX(va)] = t
      /\ \A f \in Env, d \in Dir : <<f, d>> # <<e, PDX(va)>> => pgdir'[f][d] = pgdir[f][d]
  BY <1>0 DEF TypeTables
<1>4. \A q : EnvUses(q)' = EnvUses(q)
  BY DEF EnvUses
<1>5. \A q \in Page : Uses(q)' = Uses(q) + One(p = q) + One(t = q)
  <2> TAKE q \in Page
  <2>1. Cardinality(PtUses(q))' = Cardinality(PtUses(q)) + One(p = q) - One(NoPage = q)
    BY <1>1, <1>2, PtCount
  <2>2. Cardinality(DirUses(q))' = Cardinality(DirUses(q)) + One(t = q) - One(NoPage = q)
    BY <1>0, <1>3, DirCount
  <2>3. One(p = q) \in {0, 1} /\ One(t = q) \in {0, 1} /\ One(NoPage = q) = 0
    BY <1>0 DEF One
  <2> QED BY <1>4, <2>1, <2>2, <2>3, UsesSum, UsesSumPrimed
<1>6. /\ pp_ref[p] = Uses(p) /\ Uses(p) \in Nat /\ (p \in page_free_list <=> Uses(p) = 0)
      /\ t \in Page /\ t \notin lost /\ pp_ref[t] = 0 /\ Uses(t) = 0
  BY UsesSum DEF RInv, RefsExact, FreeExact
<1>7. Incref(pp_ref[p]) = pp_ref[p] + 1
  <2>1. Uses(p)' = Uses(p) + 1
    BY <1>5, <1>6 DEF One
  <2>2. Uses(p)' < REF_MOD
    BY DEF NoWrap
  <2> QED BY <1>6, <2>1, <2>2, Counts
<1>8. /\ pp_ref' \in [Page -> Int]
      /\ \A q \in Page : pp_ref'[q] = pp_ref[q] + One(p = q) + One(t = q)
  <2>1. \A q \in Page : pp_ref[q] \in Nat
    BY <1>0
  <2>2. /\ pp_ref' \in [Page -> Int]
        /\ \A q \in Page : pp_ref'[q] = IF q = p THEN pp_ref[p] + 1
                                        ELSE IF q = t THEN 1 ELSE pp_ref[q]
    BY <1>0, <1>6, <1>7, <2>1
  <2> QED BY <1>6, <2>1, <2>2 DEF One
<1>9. /\ \A q \in Page : pp_ref'[q] = pp_ref[q] + Uses(q)' - Uses(q)
      /\ Released(pp_ref') = {}
  <2>1. \A q \in Page : pp_ref[q] \in Nat /\ Uses(q) \in Nat /\ One(p = q) \in Nat /\ One(t = q) \in Nat
    BY <1>0, UsesSum DEF One
  <2> QED BY <1>5, <1>8, <2>1 DEF Released
<1>10. pp_ref' \in [Page -> 0 .. REF_MOD-1] /\ RefsExact' /\ FreeExact'
  <2> DEFINE A == ({p} \cap page_free_list) \cup {t}
  <2>1. page_free_list' = (page_free_list \ A) \cup Released(pp_ref') /\ A \subseteq page_free_list
    BY <1>9
  <2>2. \A q \in A : Uses(q)' # 0
    BY <1>5, <1>6 DEF One
  <2>3. \A q \in Page \ A : Uses(q) = 0 => Uses(q)' = 0
    BY <1>5, <1>6 DEF One
  <2> HIDE DEF A
  <2> QED BY <1>0, <1>8, <1>9, <2>1, <2>2, <2>3, CountStep
<1>11. OneTable'
  <2> SUFFICES ASSUME NEW q \in Page, DirUses(q)' # {} \/ EnvUses(q)' # {} PROVE Uses(q)' = 1
    BY DEF OneTable
  <2>1. CASE q = t
    BY <1>5, <1>6, <2>1 DEF One
  <2>2. CASE q # t
    <3>1. DirUses(q)' \subseteq DirUses(q)
      BY <1>3, <2>2 DEF DirUses
    <3>2. q # p /\ Uses(q) = 1
      BY <1>0, <1>4, <3>1 DEF OneTable
    <3> QED BY <1>5, <2>2, <3>2 DEF One
  <2> QED BY <2>1, <2>2
<1> QED BY <1>10, <1>11 DEF RInv

\* page_insert counts exactly what it changes.
LEMMA InsertRInv ==
  ASSUME TInv, RInv, NoWrap', NEW e \in Env, NEW p \in Page, NEW va \in Va, NEW perm \in Perm,
         p \in page_free_list \/ PtUses(p) # {},
         Insert(e, page_free_list \ {p}, p, va, perm),
         UNCHANGED <<env_pgdir, lost>>
  PROVE  RInv'
<1>1. p \notin lost /\ DirUses(p) = {} /\ EnvUses(p) = {}
  <2>1. TypeTables
    BY DEF TInv
  <2> QED BY <2>1, PageKinds, UsesSum
<1>2. pt' = [pt EXCEPT ![e][va] = [page |-> p, perm |-> perm]]
  BY DEF Insert
<1>3. CASE /\ pp_ref' = Reinserted(e, p, va)
           /\ page_free_list' = (page_free_list \ {p}) \cup Released(pp_ref')
           /\ UNCHANGED pgdir
  BY <1>1, <1>2, <1>3, ReinsertRInv
<1>4. ASSUME pgdir[e][PDX(va)] = NoPage, NEW t \in Choices(page_free_list \ {p}),
             pgdir' = [pgdir EXCEPT ![e][PDX(va)] = t],
             pp_ref' = [pp_ref EXCEPT ![t] = 1, ![p] = Incref(@)],
             page_free_list' = (page_free_list \ {p}) \ {t}
      PROVE  RInv'
  <2>1. page_free_list \ {p} \in SUBSET Page
    BY DEF TInv, TypeTables
  <2>2. t \in page_free_list /\ t # p
    BY <1>4, <2>1, AddrSpaceAssumption
  <2> QED BY <1>1, <1>2, <1>4, <2>2, InsertTableRInv
<1> QED BY <1>3, <1>4 DEF Insert

\* A free page becomes a directory or a page table.
LEMMA NewTableRInv ==
  ASSUME TInv, RInv, NoWrap', NEW p \in page_free_list, UNCHANGED lost,
         \A q \in Page : Uses(q)' = Uses(q) + One(p = q),
         \A q \in Page \ {p} : DirUses(q)' = DirUses(q) /\ EnvUses(q)' = EnvUses(q),
         pp_ref' = [pp_ref EXCEPT ![p] = Incref(@)],
         page_free_list' = page_free_list \ {p}
  PROVE  RInv'
<1>0. /\ TypeTables /\ OneTable /\ pp_ref \in [Page -> 0 .. REF_MOD-1]
      /\ REF_MOD \in Nat /\ REF_MOD > 1
  BY AddrSpaceAssumption DEF TInv, RInv
<1>1. p \in Page /\ pp_ref[p] = 0 /\ Uses(p) = 0
  BY <1>0, PageKinds DEF TypeTables
<1>2. Incref(0) = 1
  BY <1>0, Counts
<1>3. \A q \in Page : pp_ref[q] \in Nat /\ Uses(q) \in Nat
  BY <1>0, UsesSum
<1>4. /\ pp_ref' \in [Page -> Int]
      /\ \A q \in Page : pp_ref'[q] = IF q = p THEN 1 ELSE pp_ref[q]
  BY <1>0, <1>1, <1>2, <1>3
<1>5. \A q \in Page : pp_ref'[q] = pp_ref[q] + Uses(q)' - Uses(q)
  BY <1>1, <1>3, <1>4 DEF One
<1>6. Released(pp_ref') = {}
  BY <1>1, <1>4 DEF Released
<1>7. \A q \in {p} : Uses(q)' # 0
  BY <1>1 DEF One
<1>8. \A q \in Page \ {p} : Uses(q)' = Uses(q)
  BY <1>3 DEF One
<1>9. pp_ref' \in [Page -> 0 .. REF_MOD-1] /\ RefsExact' /\ FreeExact'
  <2> DEFINE A == {p}
  <2>1. page_free_list' = (page_free_list \ A) \cup Released(pp_ref') /\ A \subseteq page_free_list
    BY <1>6
  <2>2. \A q \in A : Uses(q)' # 0
    BY <1>7
  <2>3. \A q \in Page \ A : Uses(q) = 0 => Uses(q)' = 0
    BY <1>8
  <2> HIDE DEF A
  <2> QED BY <1>0, <1>4, <1>5, <2>1, <2>2, <2>3, CountStep
<1>10. OneTable'
  <2> SUFFICES ASSUME NEW q \in Page, DirUses(q)' # {} \/ EnvUses(q)' # {} PROVE Uses(q)' = 1
    BY DEF OneTable
  <2>1. CASE q = p
    BY <1>1, <2>1 DEF One
  <2>2. CASE q # p
    BY <1>0, <1>8, <2>2 DEF OneTable
  <2> QED BY <2>1, <2>2
<1> QED BY <1>9, <1>10 DEF RInv

\* A page table that passive_alloc adds.
LEMMA PassiveTableRInv ==
  ASSUME TInv, RInv, NoWrap', NEW e \in Env, NEW d \in Dir, NEW p \in page_free_list,
         pgdir[e][d] = NoPage,
         pgdir' = [pgdir EXCEPT ![e][d] = p],
         pp_ref' = [pp_ref EXCEPT ![p] = Incref(@)],
         page_free_list' = page_free_list \ {p},
         UNCHANGED <<pt, env_pgdir, lost>>
  PROVE  RInv'
<1>1. /\ pgdir'[e][d] = p /\ NoPage \notin Page
      /\ \A f \in Env, g \in Dir : <<f, g>> # <<e, d>> => pgdir'[f][g] = pgdir[f][g]
  BY AddrSpaceAssumption DEF TInv, TypeTables
<1>2. \A q : PtUses(q)' = PtUses(q) /\ EnvUses(q)' = EnvUses(q)
  BY DEF PtUses, EnvUses
<1>3. \A q \in Page : Uses(q)' = Uses(q) + One(p = q)
  <2> TAKE q \in Page
  <2>1. Cardinality(DirUses(q))' = Cardinality(DirUses(q)) + One(p = q) - One(NoPage = q)
    BY <1>1, DirCount
  <2>2. One(p = q) \in {0, 1} /\ One(NoPage = q) = 0
    BY <1>1 DEF One
  <2> QED BY <1>2, <2>1, <2>2, UsesSum, UsesSumPrimed
<1>4. \A q \in Page \ {p} : DirUses(q)' = DirUses(q)
  BY <1>1 DEF DirUses
<1> QED BY <1>2, <1>3, <1>4, NewTableRInv

\* env_alloc: the directory is a free page.
LEMMA EnvAllocRInv ==
  ASSUME TInv, RInv, NoWrap', NEW e \in Env, NEW parent, env_alloc(e, parent)
  PROVE  RInv'
<1>1. PICK p \in Choices(page_free_list) :
        /\ page_free_list' = page_free_list \ {p}
        /\ pp_ref' = [pp_ref EXCEPT ![p] = Incref(@)]
        /\ env_pgdir' = [env_pgdir EXCEPT ![e] = p]
  BY DEF env_alloc
<1>2. env_pgdir[e] = NoPage /\ UNCHANGED <<pgdir, pt, lost>>
  BY DEF env_alloc, Live
<1>3. page_free_list \in SUBSET Page
  BY DEF TInv, TypeTables
<1>4. p \in page_free_list /\ NoPage \notin Page
  BY <1>1, <1>3, AddrSpaceAssumption
<1>5. env_pgdir'[e] = p /\ \A f \in Env \ {e} : env_pgdir'[f] = env_pgdir[f]
  BY <1>1 DEF TInv, TypeTables
<1>6. \A q : PtUses(q)' = PtUses(q) /\ DirUses(q)' = DirUses(q)
  BY <1>2 DEF PtUses, DirUses
<1>7. \A q \in Page : Uses(q)' = Uses(q) + One(p = q)
  <2> TAKE q \in Page
  <2>1. Cardinality(EnvUses(q))' = Cardinality(EnvUses(q)) + One(p = q) - One(NoPage = q)
    BY <1>2, <1>5, EnvCount
  <2>2. One(p = q) \in {0, 1} /\ One(NoPage = q) = 0
    BY <1>4 DEF One
  <2> QED BY <1>6, <2>1, <2>2, UsesSum, UsesSumPrimed
<1>8. \A q \in Page \ {p} : EnvUses(q)' = EnvUses(q)
  BY <1>2, <1>4, <1>5 DEF EnvUses
<1> QED BY <1>1, <1>2, <1>4, <1>6, <1>7, <1>8, NewTableRInv

\* References that nothing changes.
LEMMA SameUses ==
  ASSUME UNCHANGED <<pgdir, pt, env_pgdir>>
  PROVE  \A q : Uses(q)' = Uses(q) /\ DirUses(q)' = DirUses(q) /\ EnvUses(q)' = EnvUses(q)
BY DEF Uses, DirUses, EnvUses

LEMMA SameRInv ==
  ASSUME RInv, UNCHANGED <<page_free_list, pp_ref, pgdir, pt, env_pgdir, lost>>
  PROVE  RInv'
BY SameUses DEF RInv, RefsExact, FreeExact, OneTable

\* A page that a failed call takes and never gives back.
LEMMA LostRInv ==
  ASSUME TInv, RInv, NEW p \in page_free_list,
         pp_ref' \in [Page -> 0 .. REF_MOD-1],
         \A q \in Page \ {p} : pp_ref'[q] = pp_ref[q],
         page_free_list' = page_free_list \ {p}, lost' = lost \cup {p},
         UNCHANGED <<pgdir, pt, env_pgdir>>
  PROVE  RInv'
<1>1. p \in Page /\ Uses(p) = 0
  BY PageKinds DEF TInv, TypeTables
<1>2. RefsExact'
  BY <1>1, SameUses DEF RInv, RefsExact
<1>3. FreeExact'
  BY <1>1, SameUses DEF RInv, FreeExact
<1>4. OneTable'
  BY SameUses DEF RInv, OneTable
<1> QED BY <1>2, <1>3, <1>4 DEF RInv

\* sys_mem_unmap: one reference less to the page that was there.
LEMMA UnmapRInv ==
  ASSUME TInv, RInv, NoWrap', NEW e \in Env, NEW va \in Va, pt[e][va] # Unmapped,
         pp_ref' = [pp_ref EXCEPT ![pt[e][va].page] = @ - 1],
         page_free_list' = page_free_list \cup Released(pp_ref'),
         pt' = [pt EXCEPT ![e][va] = Unmapped],
         UNCHANGED <<pgdir, env_pgdir, lost>>
  PROVE  RInv'
<1>0. /\ TypeTables /\ OneTable /\ pp_ref \in [Page -> 0 .. REF_MOD-1] /\ TablesOf(e)
      /\ REF_MOD \in Nat /\ NoPage \notin Page
  BY AddrSpaceAssumption DEF TInv, RInv, Tables
<1>1. PICK old : old = pt[e][va].page
  OBVIOUS
<1>2. old \in Page
  <2>1. old # NoPage
    BY <1>0, <1>1 DEF TablesOf
  <2>2. pt[e][va] \in Entry
    BY <1>0 DEF TypeTables
  <2> QED BY <1>1, <2>1, <2>2 DEF Entry
<1>3. /\ pt'[e][va].page = NoPage
      /\ \A f \in Env, w \in Va : <<f, w>> # <<e, va>> => pt'[f][w] = pt[f][w]
  BY <1>0, Entries DEF TypeTables
<1>4. \A q : DirUses(q)' = DirUses(q) /\ EnvUses(q)' = EnvUses(q)
  BY DEF DirUses, EnvUses
<1>5. \A q \in Page : Uses(q)' = Uses(q) - One(old = q)
  <2> TAKE q \in Page
  <2>1. Cardinality(PtUses(q))' = Cardinality(PtUses(q)) + One(NoPage = q) - One(old = q)
    BY <1>1, <1>3, PtCount
  <2>2. One(NoPage = q) = 0 /\ One(old = q) \in {0, 1}
    BY <1>0 DEF One
  <2> QED BY <1>4, <2>1, <2>2, UsesSum, UsesSumPrimed
<1>6. PtUses(old) # {}
  <2>1. <<e, va>> \in PtUses(old)
    BY <1>1 DEF PtUses
  <2> QED BY <2>1
<1>7. \A q \in Page : pp_ref[q] \in Nat /\ Uses(q) \in Nat
  BY <1>0, UsesSum
<1>8. /\ pp_ref' \in [Page -> Int]
      /\ \A q \in Page : pp_ref'[q] = IF q = old THEN pp_ref[q] - 1 ELSE pp_ref[q]
  BY <1>0, <1>1, <1>2, <1>7
<1>9. \A q \in Page : pp_ref'[q] = pp_ref[q] + Uses(q)' - Uses(q)
  BY <1>5, <1>7, <1>8 DEF One
<1>10. pp_ref' \in [Page -> 0 .. REF_MOD-1] /\ RefsExact' /\ FreeExact'
  <2> DEFINE A == {}
  <2>1. page_free_list' = (page_free_list \ A) \cup Released(pp_ref') /\ A \subseteq page_free_list
    OBVIOUS
  <2>2. \A q \in A : Uses(q)' # 0
    OBVIOUS
  <2>3. \A q \in Page \ A : Uses(q) = 0 => Uses(q)' = 0
    <3> SUFFICES ASSUME NEW q \in Page, Uses(q) = 0 PROVE Uses(q)' = 0
      OBVIOUS
    <3>1. q # old
      BY <1>6, UsesSum
    <3> QED BY <1>5, <3>1 DEF One
  <2> HIDE DEF A
  <2> QED BY <1>0, <1>8, <1>9, <2>1, <2>2, <2>3, CountStep
<1>11. OneTable'
  <2> SUFFICES ASSUME NEW q \in Page, DirUses(q) # {} \/ EnvUses(q) # {} PROVE Uses(q)' = 1
    BY <1>4 DEF OneTable
  <2>1. Uses(q) = 1
    BY <1>0 DEF OneTable
  <2>2. q # old
    BY <1>0, <1>6, PageKinds
  <2> QED BY <1>5, <2>1, <2>2 DEF One
<1> QED BY <1>10, <1>11 DEF RInv

\* The references S had and T has not are those of row e, at the places R.
RowGone(e, R, S, T) == S = T \cup ({e} \X R) /\ T \cap ({e} \X R) = {}

LEMMA RowCount ==
  ASSUME NEW e, NEW R, IsFiniteSet(R), NEW S, NEW T, IsFiniteSet(S),
         RowGone(e, R, S, T)
  PROVE  Cardinality(R) \in Nat /\ Cardinality(T) = Cardinality(S) - Cardinality(R)
<1> DEFINE X == {e} \X R
<1>0. S = T \cup X /\ T \cap X = {}
  BY DEF RowGone
<1>1. IsFiniteSet(R) /\ IsFiniteSet({e}) /\ Cardinality({e}) = 1
  BY FS_Singleton
<1>2. IsFiniteSet(X) /\ Cardinality(X) = 1 * Cardinality(R)
  BY <1>1, FS_Product
<1>3. IsFiniteSet(T)
  BY <1>0, FS_Subset
<1>4. Cardinality(T \cup X) = Cardinality(T) + Cardinality(X) - Cardinality(T \cap X)
  BY <1>2, <1>3, FS_Union
<1>5. Cardinality(T \cap X) = 0
  BY <1>0, FS_EmptySet
<1>6. Cardinality(R) \in Nat /\ Cardinality(T) \in Nat
  BY <1>1, <1>3, FS_CardinalityType
<1> QED BY <1>0, <1>2, <1>4, <1>5, <1>6

\* What env_free takes away from the references to a page.
LEMMA UsesWithout ==
  ASSUME TypeTables, NEW e \in Env, NEW q \in Page,
         \A f \in Env \ {e} : /\ pt'[f] = pt[f] /\ pgdir'[f] = pgdir[f]
                              /\ env_pgdir'[f] = env_pgdir[f],
         \A va \in Va : pt'[e][va].page = NoPage,
         \A d \in Dir : pgdir'[e][d] = NoPage,
         env_pgdir'[e] = NoPage
  PROVE  /\ UsesBy(e, q) \in Nat /\ Uses(q)' = Uses(q) - UsesBy(e, q)
         /\ DirUses(q)' \subseteq DirUses(q) /\ EnvUses(q)' \subseteq EnvUses(q)
<1>0. q # NoPage /\ IsFiniteSet(Va) /\ IsFiniteSet(Dir)
  BY AddrSpaceAssumption, Countable
<1> DEFINE P == {va \in Va : pt[e][va].page = q}
           D == {d \in Dir : pgdir[e][d] = q}
<1>1. RowGone(e, P, PtUses(q), PtUses(q)')
  BY <1>0 DEF PtUses, RowGone
<1>2. RowGone(e, D, DirUses(q), DirUses(q)')
  BY <1>0 DEF DirUses, RowGone
<1>3. IsFiniteSet(P) /\ IsFiniteSet(D)
  BY <1>0, FS_Subset
<1>4. UsesBy(e, q) = Cardinality(P) + Cardinality(D) + One(env_pgdir[e] = q)
  BY DEF UsesBy, One
<1> HIDE DEF P, D
<1>5. IsFiniteSet(PtUses(q)) /\ IsFiniteSet(DirUses(q))
  BY UsesSum
<1>6. Cardinality(P) \in Nat /\ Cardinality(PtUses(q)') = Cardinality(PtUses(q)) - Cardinality(P)
  BY <1>1, <1>3, <1>5, RowCount, Zenon
<1>7. Cardinality(D) \in Nat /\ Cardinality(DirUses(q)') = Cardinality(DirUses(q)) - Cardinality(D)
  BY <1>2, <1>3, <1>5, RowCount, Zenon
<1>8. Cardinality(EnvUses(q))' = Cardinality(EnvUses(q)) + One(NoPage = q) - One(env_pgdir[e] = q)
  BY EnvCount
<1>9. One(NoPage = q) = 0 /\ One(env_pgdir[e] = q) \in {0, 1}
  BY <1>0 DEF One
<1>10. UsesBy(e, q) \in Nat /\ Uses(q)' = Uses(q) - UsesBy(e, q)
  BY <1>4, <1>6, <1>7, <1>8, <1>9, UsesSum, UsesSumPrimed
<1>11. EnvUses(q)' \subseteq EnvUses(q)
  BY <1>0 DEF EnvUses
<1>12. DirUses(q)' \subseteq DirUses(q)
  BY <1>2 DEF RowGone
<1> QED BY <1>10, <1>11, <1>12

\* env_free gives back every reference of e, and each page with its last.
LEMMA EnvFreeRInv ==
  ASSUME TInv, RInv, NoWrap', NEW e \in Env, env_free(e)
  PROVE  RInv'
<1>0. /\ TypeTables /\ OneTable /\ pp_ref \in [Page -> 0 .. REF_MOD-1]
      /\ REF_MOD \in Nat /\ NoPage \notin Page
  BY AddrSpaceAssumption DEF TInv, RInv
<1>1. /\ pp_ref' = [p \in Page |-> pp_ref[p] - UsesBy(e, p)]
      /\ page_free_list' = page_free_list \cup Released(pp_ref')
      /\ pgdir' = [pgdir EXCEPT ![e] = [d \in Dir |-> NoPage]]
      /\ pt' = [pt EXCEPT ![e] = [va \in Va |-> Unmapped]]
      /\ env_pgdir' = [env_pgdir EXCEPT ![e] = NoPage]
      /\ UNCHANGED lost
  BY DEF env_free
<1>2. /\ \A f \in Env \ {e} : /\ pt'[f] = pt[f] /\ pgdir'[f] = pgdir[f]
                              /\ env_pgdir'[f] = env_pgdir[f]
      /\ \A va \in Va : pt'[e][va].page = NoPage
      /\ \A d \in Dir : pgdir'[e][d] = NoPage
      /\ env_pgdir'[e] = NoPage
  BY <1>0, <1>1, Entries DEF TypeTables
<1>3. \A q \in Page : /\ UsesBy(e, q) \in Nat /\ Uses(q)' = Uses(q) - UsesBy(e, q)
                      /\ DirUses(q)' \subseteq DirUses(q) /\ EnvUses(q)' \subseteq EnvUses(q)
  BY <1>0, <1>2, UsesWithout
<1>4. \A q \in Page : pp_ref[q] \in Nat /\ Uses(q) \in Nat /\ Uses(q)' \in Nat
  BY <1>0, UsesSum, UsesSumPrimed
<1>5. /\ pp_ref' \in [Page -> Int]
      /\ \A q \in Page : pp_ref'[q] = pp_ref[q] + Uses(q)' - Uses(q)
  BY <1>1, <1>3, <1>4
<1>6. pp_ref' \in [Page -> 0 .. REF_MOD-1] /\ RefsExact' /\ FreeExact'
  <2> DEFINE A == {}
  <2>1. page_free_list' = (page_free_list \ A) \cup Released(pp_ref') /\ A \subseteq page_free_list
    BY <1>1
  <2>2. \A q \in A : Uses(q)' # 0
    OBVIOUS
  <2>3. \A q \in Page \ A : Uses(q) = 0 => Uses(q)' = 0
    BY <1>3, <1>4
  <2> HIDE DEF A
  <2> QED BY <1>0, <1>1, <1>5, <2>1, <2>2, <2>3, CountStep
<1>7. OneTable'
  <2> SUFFICES ASSUME NEW q \in Page, DirUses(q)' # {} \/ EnvUses(q)' # {} PROVE Uses(q)' = 1
    BY DEF OneTable
  <2>1. DirUses(q) # {} \/ EnvUses(q) # {}
    BY <1>3
  <2>2. Uses(q) = 1
    BY <1>0, <2>1 DEF OneTable
  <2>3. Uses(q)' # 0
    BY UsesSumPrimed
  <2> QED BY <1>3, <1>4, <2>2, <2>3
<1> QED BY <1>6, <1>7 DEF RInv

\* MapInto: a page that src maps gets one reference more.
LEMMA MapIntoRInv ==
  ASSUME TInv, RInv, NoWrap', NEW src \in Env, NEW srcva \in Va, NEW dst \in Env,
         NEW dstva \in Va, NEW perm \in Perm, MapInto(src, srcva, dst, dstva, perm)
  PROVE  RInv'
<1>0. TypeTables
  BY DEF TInv
<1>1. PICK p : p = pt[src][srcva].page
  OBVIOUS
<1>2. /\ p # NoPage
      /\ \/ page_insert(dst, page_free_list, p, dstva, perm)
         \/ UNCHANGED <<page_free_list, pp_ref, pgdir, pt>>
      /\ UNCHANGED <<env_pgdir, lost>>
  BY <1>1 DEF MapInto, page_lookup, EntryIn, pagevars, envvars
<1>3. p \in Page
  <2>1. pt[src][srcva] \in Entry
    BY <1>0 DEF TypeTables
  <2> QED BY <1>1, <1>2, <2>1 DEF Entry
<1>4. PtUses(p) # {}
  <2>1. <<src, srcva>> \in PtUses(p)
    BY <1>1 DEF PtUses
  <2> QED BY <2>1
<1>5. page_free_list = page_free_list \ {p}
  BY <1>0, <1>3, <1>4, PageKinds
<1>6. CASE page_insert(dst, page_free_list, p, dstva, perm)
  <2>1. Insert(dst, page_free_list \ {p}, p, dstva, perm)
    BY <1>5, <1>6 DEF page_insert
  <2> QED BY <1>2, <1>3, <1>4, <2>1, InsertRInv
<1>7. CASE UNCHANGED <<page_free_list, pp_ref, pgdir, pt>>
  BY <1>2, <1>7, SameRInv
<1> QED BY <1>2, <1>6, <1>7

\* Every step keeps the counts exact, as long as none wraps.
LEMMA NextRInv ==
  ASSUME TInv, RInv, NoWrap', [Next]_vars
  PROVE  RInv'
<1>0. /\ TypeTables /\ pp_ref \in [Page -> 0 .. REF_MOD-1] /\ REF_MOD \in Nat /\ REF_MOD > 1
      /\ page_free_list \in SUBSET Page
      /\ \A p \in Choices(page_free_list) : p \in page_free_list /\ p \in Page
  BY AddrSpaceAssumption DEF TInv, TypeTables, RInv
<1>p. ASSUME panic PROVE RInv'
  BY <1>p, SameRInv DEF panic, pagevars, envvars
<1>1. CASE UNCHANGED vars
  BY <1>1, SameRInv DEF vars, pagevars, envvars
<1>2. CASE StartFirst
  BY <1>2, SameRInv DEF StartFirst, pagevars, envvars
<1>3. ASSUME NEW e \in Env, env_create(e) PROVE RInv'
  BY <1>3, EnvAllocRInv DEF env_create
<1>4. ASSUME NEW e \in Env, env_free(e) PROVE RInv'
  BY <1>4, EnvFreeRInv
<1>5. ASSUME NEW e \in Env, NEW v \in VPage, do_tlb_refill(e, v) PROVE RInv'
  <2>1. Live(e)
    BY <1>5 DEF do_tlb_refill, Running
  <2>2. CASE UNCHANGED <<pagevars, envvars, pgdir, pt, lost, phase>>
    BY <2>2, SameRInv DEF pagevars, envvars
  <2>3. CASE /\ page_lookup(e, v).page = NoPage
             /\ passive_alloc(e, v)
             /\ UNCHANGED <<envvars, lost, phase>>
    <3>1. UNCHANGED <<env_pgdir, lost>>
      BY <2>3 DEF envvars
    <3>2. PICK p \in Choices(page_free_list) :
            \/ v \in Va /\ Insert(e, page_free_list \ {p}, p, v, {"D"})
            \/ /\ v \notin Va
               /\ pgdir' = [pgdir EXCEPT ![e][v - NVA] = p]
               /\ pp_ref' = [pp_ref EXCEPT ![p] = Incref(@)]
               /\ page_free_list' = page_free_list \ {p}
               /\ UNCHANGED pt
      BY <2>3 DEF passive_alloc
    <3>3. p \in page_free_list /\ p \in Page /\ {"D"} \in Perm
      BY <1>0, <3>2, Entries
    <3>4. CASE v \in Va /\ Insert(e, page_free_list \ {p}, p, v, {"D"})
      BY <3>1, <3>3, <3>4, InsertRInv
    <3>5. CASE /\ v \notin Va
               /\ pgdir' = [pgdir EXCEPT ![e][v - NVA] = p]
               /\ pp_ref' = [pp_ref EXCEPT ![p] = Incref(@)]
               /\ page_free_list' = page_free_list \ {p}
               /\ UNCHANGED pt
      <4>1. v # Vpt(Self)
        BY <2>1, <2>3, <3>5 DEF page_lookup, EntryIn, Live
      <4>2. v - NVA \in Dir /\ pgdir[e][v - NVA] = NoPage
        BY <2>3, <3>5, <4>1, Window DEF page_lookup, EntryIn
      <4> QED BY <3>1, <3>3, <3>5, <4>2, PassiveTableRInv
    <3> QED BY <3>2, <3>4, <3>5
  <2> QED BY <1>p, <1>5, <2>2, <2>3 DEF do_tlb_refill
<1>6. ASSUME NEW e \in Env, NEW va \in Va, NEW perm \in {{}, {"D"}},
             load_icode_mapper(e, va, perm)
      PROVE  RInv'
  <2>1. perm \in Perm
    BY Entries
  <2>2. ASSUME NEW p \in Choices(page_free_list),
               page_insert(e, page_free_list \ {p}, p, va, perm),
               UNCHANGED <<envvars, lost, phase>>
        PROVE  RInv'
    <3>1. p \in page_free_list /\ p \in Page /\ UNCHANGED <<env_pgdir, lost>>
      BY <1>0, <2>2 DEF envvars
    <3>2. Insert(e, page_free_list \ {p}, p, va, perm)
      BY <2>2 DEF page_insert
    <3> QED BY <2>1, <3>1, <3>2, InsertRInv
  <2> QED BY <1>p, <1>6, <2>2 DEF load_icode_mapper
<1>7. ASSUME NEW c \in Env, NEW e \in Env, sys_exofork(c, e) PROVE RInv'
  <2>1. CASE env_alloc(e, c)
    BY <2>1, EnvAllocRInv
  <2>2. CASE LoseDirectory
    <3>1. PICK p \in Choices(page_free_list) :
            /\ page_free_list' = page_free_list \ {p} /\ lost' = lost \cup {p}
            /\ pp_ref' = [pp_ref EXCEPT ![p] = Incref(@)]
      BY <2>2 DEF LoseDirectory
    <3>2. p \in page_free_list /\ p \in Page
      BY <1>0
    <3>3. pp_ref[p] \in Nat /\ Incref(pp_ref[p]) \in 0 .. REF_MOD-1
      BY <1>0, <3>2 DEF Incref
    <3>4. /\ pp_ref' \in [Page -> 0 .. REF_MOD-1]
          /\ \A q \in Page \ {p} : pp_ref'[q] = pp_ref[q]
      BY <1>0, <3>1, <3>2, <3>3
    <3>5. UNCHANGED <<pgdir, pt, env_pgdir>>
      BY <2>2 DEF LoseDirectory, envvars
    <3> QED BY <3>1, <3>2, <3>4, <3>5, LostRInv
  <2> QED BY <1>7, <2>1, <2>2 DEF sys_exofork
<1>8. ASSUME NEW c \in Env, NEW e \in Env, NEW va \in Va, sys_mem_unmap(c, e, va) PROVE RInv'
  BY <1>8, UnmapRInv DEF sys_mem_unmap, envvars
<1>9. ASSUME NEW c \in Env, NEW e \in Env, NEW va \in Va, NEW perm \in Perms,
             sys_mem_alloc(c, e, va, perm)
      PROVE  RInv'
  <2>1. perm \in Perm /\ UNCHANGED env_pgdir
    BY <1>9, Entries DEF sys_mem_alloc, envvars
  <2>2. PICK p \in Choices(page_free_list) :
          \/ page_insert(e, page_free_list \ {p}, p, va, perm) /\ UNCHANGED lost
          \/ /\ page_free_list' = page_free_list \ {p}
             /\ lost' = lost \cup {p}
             /\ UNCHANGED <<pp_ref, pgdir, pt>>
    BY <1>9 DEF sys_mem_alloc
  <2>3. p \in page_free_list /\ p \in Page
    BY <1>0
  <2>4. CASE page_insert(e, page_free_list \ {p}, p, va, perm) /\ UNCHANGED lost
    <3>1. Insert(e, page_free_list \ {p}, p, va, perm)
      BY <2>4 DEF page_insert
    <3> QED BY <2>1, <2>3, <2>4, <3>1, InsertRInv
  <2>5. CASE /\ page_free_list' = page_free_list \ {p}
             /\ lost' = lost \cup {p}
             /\ UNCHANGED <<pp_ref, pgdir, pt>>
    BY <1>0, <2>1, <2>3, <2>5, LostRInv
  <2> QED BY <2>2, <2>4, <2>5
<1>10. ASSUME NEW c \in Env, NEW e \in Env, NEW srcva \in VPage, NEW dstva \in Va,
              NEW perm \in Perms, sys_ipc_try_send(c, srcva, e, dstva, perm)
       PROVE  RInv'
  BY <1>10, MapIntoRInv, LegalIsUser, Entries DEF sys_ipc_try_send
<1>11. ASSUME NEW c \in Env, NEW e \in Env, NEW srcva \in VPage, NEW dstva \in Va,
              NEW perm \in Perms, NEW dst \in Env, sys_mem_map(c, e, srcva, dst, dstva, perm)
       PROVE  RInv'
  BY <1>11, MapIntoRInv, LegalIsUser, Entries DEF sys_mem_map
<1> QED BY <1>1, <1>2, <1>3, <1>4, <1>5, <1>6, <1>7, <1>8, <1>9, <1>10, <1>11 DEF Next

LEMMA RefsInvariant == Spec /\ []NoWrap => [](TInv /\ RInv)
BY InitTInv, NextTInv, InitRInv, NextRInv, PTL DEF Spec

\* No reference count goes below zero or wraps, and all else keeps its type:
\* page_decref never meets a page whose count is 0 (kern/pmap.c), as long as
\* no page has 2^16 references.
THEOREM TypeCorrect == Spec /\ []NoWrap => []TypeOK
<1>1. TInv /\ RInv => TypeOK
  BY DEF TInv, RInv, TypeTables, TypeOK
<1> QED BY <1>1, RefsInvariant, PTL

\* pp_ref counts exactly the references there are (kern/pmap.c page_insert,
\* page_remove, page_decref, and env_free of kern/env.c), as long as no page
\* has 2^16 references.
THEOREM RefsStayExact == Spec /\ []NoWrap => []RefsExact
<1>1. RInv => RefsExact
  BY DEF RInv
<1> QED BY <1>1, RefsInvariant, PTL

\* A page is on page_free_list iff nobody refers to it and no failed call has
\* lost it: page_alloc never hands out a page in use.
THEOREM FreeStaysExact == Spec /\ []NoWrap => []FreeExact
<1>1. RInv => FreeExact
  BY DEF RInv
<1> QED BY <1>1, RefsInvariant, PTL

\* Directories and page tables are referred to once: no program maps one as a
\* page of its own, whatever sys_mem_map, sys_mem_alloc and IPC are asked for.
THEOREM TablesStayPrivate == Spec /\ []NoWrap => []TablesPrivate
<1>1. TInv /\ RInv => TablesPrivate
  <2> SUFFICES ASSUME TInv, RInv, NEW e \in Env, Live(e)
               PROVE  /\ Uses(env_pgdir[e]) = 1
                      /\ \A d \in Dir : pgdir[e][d] # NoPage => Uses(pgdir[e][d]) = 1
    BY DEF TablesPrivate
  <2>1. \A q \in Page : DirUses(q) # {} \/ EnvUses(q) # {} => Uses(q) = 1
    BY DEF RInv, OneTable
  <2>2. env_pgdir[e] \in Page /\ \A d \in Dir : pgdir[e][d] # NoPage => pgdir[e][d] \in Page
    BY DEF TInv, TypeTables, Live
  <2>3. Uses(env_pgdir[e]) = 1
    <3>1. e \in EnvUses(env_pgdir[e])
      BY DEF EnvUses
    <3> QED BY <2>1, <2>2, <3>1
  <2>4. ASSUME NEW d \in Dir, pgdir[e][d] # NoPage PROVE Uses(pgdir[e][d]) = 1
    <3>1. <<e, d>> \in DirUses(pgdir[e][d])
      BY DEF DirUses
    <3> QED BY <2>1, <2>2, <2>4, <3>1
  <2> QED BY <2>3, <2>4
<1> QED BY <1>1, RefsInvariant, PTL
=============================================================================
