--------------------------- MODULE CowForkProofs ------------------------------
(***************************************************************************)
(* Proofs about CowFork, for any number of environments, pages and         *)
(* contents.                                                               *)
(*                                                                         *)
(* That every program finds its own memory (OwnMemory) is not inductive.   *)
(* A store is harmless to others only if the page is mapped nowhere else:  *)
(* Unique says so, with the two moments at which it is not true, between   *)
(* the last two calls of cow_entry and between the two calls of duppage.   *)
(* A copy is right only if the handler still finds what it started with    *)
(* (CowInv), and a child starts right only if what fork() has visited so   *)
(* far is in it (ChildInv), under the permission fork() read (ForkInv).    *)
(***************************************************************************)
EXTENDS CowFork, TLAPS, WellFoundedInduction

\* A mapped page has one of three permissions, PTE_LIBRARY only the shared
\* page; who does not exist has no memory, who does not run makes no calls.
ShapeOf(e) ==
  /\ \A va \in Va :
       /\ \/ pt[e][va] = Unmapped
          \/ pt[e][va].page \in Page
             /\ pt[e][va].perm \in {{"D"}, {"COW"}, {"D", "LIBRARY"}}
       /\ "LIBRARY" \in pt[e][va].perm => va = LIB
       /\ e \notin live => pt[e][va] = Unmapped
  /\ e \notin runnable => fork[e] = NotForking /\ cow[e] = NoFault

Shape == \A e \in Env : ShapeOf(e)

\* A program in fork() is registered, and the page it is at is as it was when
\* fork() read its permission.
ForkOf(e) ==
  /\ fork[e].at = "none" => fork[e] = NotForking
  /\ fork[e].at # "none" => e \in env_user_tlb_mod_entry
  /\ fork[e].at \in {"child", "self"} =>
       /\ fork[e].va \in Va \ {UCOW}
       /\ Mapped(e, fork[e].va)
       /\ pt[e][fork[e].va].perm = fork[e].perm
       /\ fork[e].va = STACK => "D" \in fork[e].perm
  /\ fork[e].at = "self" => Cowable(fork[e].perm)

ForkInv == \A e \in Env : ForkOf(e)

\* fork() of e has dealt with page va.
Copied(e, va) ==
  \/ va < fork[e].va
  \/ fork[e].at = "self" /\ va = fork[e].va
  \/ fork[e].at \in {"entry", "status"}

\* e finds at va what it wrote there last.
Holds(e, va) ==
  IF Mapped(e, va) THEN content[pt[e][va].page] = view[e][va]
  ELSE view[e][va] = 0

\* The child of a fork() under way does not run, belongs to nobody else, and
\* has the pages that fork() has dealt with, or is marked as failed.
ChildOf(e, c) ==
  /\ fork[e].at # "none"
  /\ c \in live \ runnable
  /\ \A f \in Env : fork[f].child = c => f = e
  /\ \A va \in Va : view[c][va] = view[e][va]
  /\ e \in failed => c \in failed
  /\ fork[e].at = "status" => c \in env_user_tlb_mod_entry
  /\ \A va \in Va : ~Copied(e, va) => pt[c][va] = Unmapped
  /\ c \notin failed /\ Copied(e, LIB) => pt[c][LIB] = pt[e][LIB]
  /\ c \notin failed => \A va \in Private : Copied(e, va) => Holds(c, va)

ChildInv == \A e \in Env : fork[e].child # NoEnv => ChildOf(e, fork[e].child)

\* The handler copies a page that is still copy-on-write, through a page that
\* nobody else has.
CowOf(e) ==
  /\ cow[e].at = "none" => cow[e] = NoFault /\ pt[e][UCOW] = Unmapped
  /\ cow[e].at # "none" =>
       /\ cow[e].va \in Va \ {UCOW}
       /\ fork[e].at # "none" => cow[e].va = STACK
  /\ cow[e].at \in {"alloc", "copy", "map"} =>
       Mapped(e, cow[e].va) /\ pt[e][cow[e].va].perm = {"COW"}
  /\ cow[e].at = "alloc" => pt[e][UCOW] = Unmapped
  /\ cow[e].at \in {"copy", "map"} =>
       pt[e][UCOW] = Unmapped \/ pt[e][UCOW].perm = {"D"}
  /\ cow[e].at = "map" /\ ~panicked =>
       /\ Mapped(e, UCOW)
       /\ content[pt[e][UCOW].page] = content[pt[e][cow[e].va].page]
  /\ cow[e].at = "unmap" =>
       /\ pt[e][UCOW] = pt[e][cow[e].va]
       /\ Mapped(e, UCOW) /\ pt[e][UCOW].perm = {"D"}

CowInv == \A e \in Env : CowOf(e)

\* e may write page va without a fault, and does not share it on purpose.
Owns(e, va) == "D" \in pt[e][va].perm /\ "LIBRARY" \notin pt[e][va].perm

\* Such a page is mapped nowhere else, but under UCOW until the handler ends
\* and in the child until duppage ends.
Unique ==
  \A e, f \in Env, va, w \in Va :
    Owns(e, va) /\ pt[f][w].page = pt[e][va].page =>
      \/ f = e /\ w = va
      \/ f = e /\ cow[e].at = "unmap" /\ {va, w} \subseteq {UCOW, cow[e].va}
      \/ /\ fork[e].at = "self" /\ va = fork[e].va /\ w = va
         /\ fork[e].child # NoEnv /\ f = fork[e].child

\* Every running program that got all its pages still has the shared one.
LibInv == \A e \in runnable \ failed : "LIBRARY" \in pt[e][LIB].perm

\* A program with a copy-on-write page is registered.
Registered ==
  \A e \in runnable, va \in Va :
    "COW" \in pt[e][va].perm => e \in env_user_tlb_mod_entry

\* The inductive invariant.
IInv ==
  /\ TypeOK
  /\ Shape
  /\ ForkInv
  /\ ChildInv
  /\ CowInv
  /\ Unique
  /\ OwnMemory
  /\ LibraryShared
  /\ LibInv
  /\ Registered

-----------------------------------------------------------------------------
\* If a page is free, page_alloc takes one.
LEMMA PageAlloc ==
  ASSUME Free # {}
  PROVE  page_alloc \in Free
<1>1. Free \subseteq Nat
  BY CowForkAssumption DEF Free
<1>2. PICK R : IsWellFoundedOn(R, Nat) /\ \A x, y \in Nat : x < y => <<x, y>> \in R
  <2>1. \A x, y \in Nat : x < y => <<x, y>> \in OpToRel(<, Nat)
    BY Zenon DEF OpToRel
  <2> QED BY <2>1, NatLessThanWellFounded, Zenon
<1>3. PICK p \in Free : \A q \in Free : ~(<<q, p>> \in R)
  <2>1. IsWellFoundedOn(R, Nat)
    BY <1>2, Zenon
  <2> QED BY <1>1, <2>1, WFMin, Zenon
<1>4. ASSUME NEW q \in Free
      PROVE  p <= q
  <2>1. ~(<<q, p>> \in R) /\ q \in Nat /\ p \in Nat
    BY <1>1, <1>3, Zenon
  <2>2. ~(q < p)
    BY <1>2, <2>1, Zenon
  <2> QED BY <2>1, <2>2
<1> QED BY <1>4 DEF page_alloc

\* A free page is mapped by nobody.
LEMMA FreeUnmapped ==
  ASSUME NEW p \in Free
  PROVE  p \in Page /\ p # NoPage /\ \A e \in Env, va \in Va : pt[e][va].page # p
BY CowForkAssumption DEF Free

\* The program that boot loads.
LEMMA InitIInv == Init => IInv
<1> SUFFICES ASSUME Init PROVE IInv
  OBVIOUS
<1>1. PICK e \in Env, p, q \in Page :
    /\ p # q /\ \A r \in Page \ {p} : p < r /\ (r # q => q < r)
    /\ live = {e} /\ runnable = {e}
    /\ pt = [f \in Env |-> [va \in Va |->
         CASE f = e /\ va = STACK -> [page |-> p, perm |-> {"D"}]
           [] f = e /\ va = LIB   -> [page |-> q, perm |-> {"D", "LIBRARY"}]
           [] OTHER               -> Unmapped]]
    /\ content = [r \in Page |-> 0]
    /\ env_user_tlb_mod_entry = {}
    /\ fork = [f \in Env |-> NotForking]
    /\ cow = [f \in Env |-> NoFault]
    /\ view = [f \in Env |-> [va \in Va |-> 0]]
    /\ failed = {}
    /\ panicked = FALSE
  BY DEF Init
<1> USE CowForkAssumption DEF Va, UCOW, LIB, STACK, OUTER, USTACKTOP, Private
<1>2. \A f \in Env, va \in Va :
        pt[f][va] = CASE f = e /\ va = STACK -> [page |-> p, perm |-> {"D"}]
                      [] f = e /\ va = LIB   -> [page |-> q, perm |-> {"D", "LIBRARY"}]
                      [] OTHER               -> Unmapped
  BY <1>1
<1>3. TypeOK
  <2>1. pt \in [Env -> [Va -> Entry]]
    BY <1>1 DEF Entry, Perm, Unmapped
  <2>2. /\ fork \in [Env -> [at : {"none", "scan", "child", "self", "entry", "status"},
                            va : 0 .. USTACKTOP, child : Env \cup {NoEnv}, perm : Perm]]
        /\ cow \in [Env -> [at : {"none", "alloc", "copy", "map", "unmap"}, va : Va]]
    BY <1>1 DEF NotForking, NoFault, Perm
  <2> QED BY <1>1, <2>1, <2>2 DEF TypeOK
<1>4. Shape
  BY <1>1, <1>2 DEF Shape, ShapeOf, Unmapped
<1>5. ForkInv /\ ChildInv
  BY <1>1 DEF ForkInv, ForkOf, ChildInv, NotForking
<1>6. CowInv
  BY <1>1, <1>2 DEF CowInv, CowOf, NoFault
<1>7. Unique
  BY <1>1, <1>2 DEF Unique, Owns, Unmapped
<1>8. OwnMemory
  BY <1>1, <1>2 DEF OwnMemory, Mapped
<1>9. LibraryShared /\ LibInv /\ Registered
  BY <1>1, <1>2 DEF LibraryShared, LibInv, Registered, Unmapped
<1> QED BY <1>3, <1>4, <1>5, <1>6, <1>7, <1>8, <1>9 DEF IInv

-----------------------------------------------------------------------------
(* What a step leaves alone *)

\* The pages of a program are different places.
LEMMA Places ==
  /\ {UCOW, LIB, STACK, OUTER} = Va
  /\ UCOW \notin {LIB, STACK, OUTER} /\ LIB \notin {STACK, OUTER} /\ STACK # OUTER
  /\ Private = {STACK, OUTER}
BY DEF UCOW, LIB, STACK, OUTER, Va, USTACKTOP, Private

\* Who is not concerned by a step keeps its parts of the invariant.
LEMMA Frame ==
  ASSUME NEW f \in Env,
         pt'[f] = pt[f], fork'[f] = fork[f], cow'[f] = cow[f],
         f \in live' <=> f \in live,
         f \in runnable' <=> f \in runnable,
         f \in env_user_tlb_mod_entry => f \in env_user_tlb_mod_entry',
         ~panicked' => ~panicked,
         \A w \in Va : pt[f][w].page \in Page =>
           content'[pt[f][w].page] = content[pt[f][w].page],
         ShapeOf(f), ForkOf(f), CowOf(f)
  PROVE  ShapeOf(f)' /\ ForkOf(f)' /\ CowOf(f)'
<1>1. ShapeOf(f)'
  BY DEF ShapeOf
<1>2. ForkOf(f)'
  BY DEF ForkOf, Mapped
<1>3. CowOf(f)'
  <2>1. cow[f].at = "map" /\ ~panicked' =>
          /\ pt[f][UCOW].page \in Page /\ pt[f][cow[f].va].page \in Page
          /\ UCOW \in Va /\ cow[f].va \in Va
    BY Places DEF CowOf, ShapeOf, Mapped
  <2> QED BY <2>1 DEF CowOf, Mapped
<1> QED BY <1>1, <1>2, <1>3

\* The memory of who is not concerned stays as it is.
LEMMA HoldsFrame ==
  ASSUME NEW f \in Env, NEW w \in Va,
         pt'[f][w] = pt[f][w], view'[f][w] = view[f][w],
         pt[f][w].page \in Page => content'[pt[f][w].page] = content[pt[f][w].page],
         ShapeOf(f), Holds(f, w)
  PROVE  Holds(f, w)'
BY DEF Holds, Mapped, ShapeOf

\* A fork() that is not concerned by a step keeps what holds of its child.
LEMMA ChildFrame ==
  ASSUME NEW g \in Env, NEW c \in Env,
         ChildOf(g, c),
         fork'[g] = fork[g],
         pt'[c] = pt[c], pt'[g][LIB] = pt[g][LIB],
         view'[c] = view[c], view'[g] = view[g],
         c \in live', c \notin runnable',
         c \in env_user_tlb_mod_entry => c \in env_user_tlb_mod_entry',
         g \in failed' => g \in failed, c \in failed => c \in failed',
         \A f \in Env : fork'[f].child = c => fork[f].child = c,
         \A w \in Va : pt[c][w].page \in Page =>
           content'[pt[c][w].page] = content[pt[c][w].page],
         ShapeOf(c)
  PROVE  ChildOf(g, c)'
<1>1. \A va \in Private : Holds(c, va) => Holds(c, va)'
  BY Places, HoldsFrame
<1>2. \A va : Copied(g, va)' <=> Copied(g, va)
  BY DEF Copied
<1> QED BY <1>1, <1>2 DEF ChildOf

\* A step of e that concerns the memory and the calls of e only keeps the
\* invariant if it does so for e.
LEMMA OwnStep ==
  ASSUME IInv, TypeOK', NEW e \in Env, e \in runnable,
         \A f \in Env \ {e} : /\ pt'[f] = pt[f] /\ fork'[f] = fork[f]
                              /\ cow'[f] = cow[f] /\ view'[f] = view[f],
         \A f \in Env \ {e}, w \in Va : pt[f][w].page \in Page =>
           content'[pt[f][w].page] = content[pt[f][w].page],
         UNCHANGED <<live, runnable, failed>>,
         env_user_tlb_mod_entry \subseteq env_user_tlb_mod_entry',
         ~panicked' => ~panicked,
         fork'[e].child \in {fork[e].child, NoEnv},
         ShapeOf(e)', ForkOf(e)', CowOf(e)',
         \A c \in Env : fork'[e].child = c => ChildOf(e, c)',
         e \notin failed => pt'[e][LIB] = pt[e][LIB] /\ \A w \in Private : Holds(e, w)',
         \A w \in Va : "COW" \in pt'[e][w].perm => e \in env_user_tlb_mod_entry',
         Unique'
  PROVE  IInv'
<1>0. /\ TypeOK /\ Shape /\ ForkInv /\ ChildInv /\ CowInv /\ OwnMemory
      /\ LibraryShared /\ LibInv /\ Registered
  BY DEF IInv
<1>1. \A f \in Env : ShapeOf(f)' /\ ForkOf(f)' /\ CowOf(f)'
  <2> SUFFICES ASSUME NEW f \in Env \ {e} PROVE ShapeOf(f)' /\ ForkOf(f)' /\ CowOf(f)'
    OBVIOUS
  <2>1. ShapeOf(f) /\ ForkOf(f) /\ CowOf(f)
    BY <1>0 DEF Shape, ForkInv, CowInv
  <2> QED BY <2>1, Frame
<1>2. Shape' /\ ForkInv' /\ CowInv'
  BY <1>1 DEF Shape, ForkInv, CowInv
<1>3. ChildInv'
  <2> SUFFICES ASSUME NEW g \in Env, fork'[g].child # NoEnv
               PROVE  ChildOf(g, fork[g].child)'
    BY DEF ChildInv
  <2>1. PICK c \in Env : fork'[g].child = c
    BY DEF TypeOK
  <2>2. CASE g = e
    BY <2>1, <2>2
  <2>3. CASE g # e
    <3>1. fork[g].child = c /\ c # NoEnv /\ ChildOf(g, c)
      BY <1>0, <2>1, <2>3 DEF ChildInv
    <3>2. c \in live /\ c \notin runnable /\ c # e /\ ShapeOf(c)
      BY <1>0, <3>1 DEF ChildOf, Shape
    <3>3. \A f \in Env : fork'[f].child = c => fork[f].child = c
      BY <3>1, CowForkAssumption
    <3>4. ChildOf(g, c)'
      BY <2>3, <3>1, <3>2, <3>3, ChildFrame
    <3> QED BY <2>1, <3>4
  <2> QED BY <2>2, <2>3
<1>4. OwnMemory'
  <2> SUFFICES ASSUME NEW f \in runnable \ failed, NEW w \in Private
               PROVE  Holds(f, w)'
    BY DEF OwnMemory, Holds, Mapped
  <2>1. f \in Env /\ w \in Va /\ Holds(f, w) /\ ShapeOf(f)
    BY <1>0, Places DEF OwnMemory, Holds, TypeOK, Shape
  <2>2. CASE f # e
    BY <2>1, <2>2, HoldsFrame
  <2> QED BY <2>2
<1>5. LibraryShared' /\ LibInv'
  <2>1. \A f \in runnable \ failed : pt'[f][LIB] = pt[f][LIB]
    BY <1>0 DEF TypeOK
  <2> QED BY <1>0, <2>1 DEF LibraryShared, LibInv
<1>6. Registered'
  BY <1>0 DEF Registered, TypeOK
<1> QED BY <1>2, <1>3, <1>4, <1>5, <1>6 DEF IInv

-----------------------------------------------------------------------------
(* A program between its calls *)

\* A store changes one page, which nobody else maps.
LEMMA WriteStep ==
  ASSUME IInv, NEW e \in Env, NEW va \in Private, NEW v \in Val, Write(e, va, v)
  PROVE  IInv'
<1>0. /\ TypeOK /\ Shape /\ ForkInv /\ ChildInv /\ CowInv /\ Unique /\ OwnMemory
      /\ ShapeOf(e) /\ ForkOf(e) /\ CowOf(e) /\ va \in Va /\ Registered
  BY Places DEF IInv, Shape, ForkInv, CowInv
<1>1. /\ e \in runnable /\ cow[e].at = "none" /\ fork[e].at = "none"
      /\ "D" \in pt[e][va].perm
      /\ content' = [content EXCEPT ![pt[e][va].page] = v]
      /\ view' = [view EXCEPT ![e][va] = v]
      /\ UNCHANGED <<live, runnable, env_user_tlb_mod_entry, pt, fork, cow, failed, panicked>>
  BY DEF Write, Main, Writable, envvars
<1>2. pt[e][va].page \in Page /\ Owns(e, va)
  BY <1>0, <1>1, Places DEF ShapeOf, Owns, Unmapped
<1>3. \A f \in Env, w \in Va : pt[f][w].page = pt[e][va].page => f = e /\ w = va
  BY <1>0, <1>1, <1>2 DEF Unique
<1>4. \A f \in Env, w \in Va :
        pt[f][w].page \in Page =>
          content'[pt[f][w].page] = IF f = e /\ w = va THEN v ELSE content[pt[f][w].page]
  BY <1>0, <1>1, <1>2, <1>3 DEF TypeOK
<1>5. /\ \A f \in Env \ {e} : view'[f] = view[f]
      /\ \A w \in Va : view'[e][w] = IF w = va THEN v ELSE view[e][w]
  BY <1>0, <1>1 DEF TypeOK
<1>6. TypeOK'
  BY <1>0, <1>1 DEF TypeOK
<1>7. ShapeOf(e)' /\ ForkOf(e)' /\ CowOf(e)'
  BY <1>0, <1>1 DEF ShapeOf, ForkOf, CowOf, Mapped
<1>8. \A c \in Env : fork'[e].child # c
  BY <1>0, <1>1, CowForkAssumption DEF ForkOf, NotForking
<1>9. ASSUME e \notin failed, NEW w \in Private PROVE Holds(e, w)'
  <2>1. Holds(e, w) /\ w \in Va
    BY <1>0, <1>1, <1>9, Places DEF OwnMemory, Holds
  <2> QED BY <1>0, <1>1, <1>2, <1>4, <1>5, <2>1 DEF Holds, Mapped, ShapeOf, Unmapped
<1>10. \A w \in Va : "COW" \in pt'[e][w].perm => e \in env_user_tlb_mod_entry'
  BY <1>0, <1>1 DEF Registered
<1>11. Unique'
  BY <1>0, <1>1 DEF Unique, Owns
<1> QED BY <1>1, <1>4, <1>5, <1>6, <1>7, <1>8, <1>9, <1>10, <1>11, OwnStep

\* A store to a page that e may not write: the handler starts, registered.
LEMMA ModStep ==
  ASSUME IInv, NEW e \in Env, NEW va \in Va \ {UCOW}, do_tlb_mod(e, va)
  PROVE  IInv'
<1>0. /\ TypeOK /\ Shape /\ ForkInv /\ ChildInv /\ CowInv /\ Unique /\ OwnMemory
      /\ ShapeOf(e) /\ ForkOf(e) /\ CowOf(e) /\ Registered
  BY DEF IInv, Shape, ForkInv, CowInv
<1>1. /\ e \in runnable /\ cow[e].at = "none"
      /\ fork[e].at = "none" \/ va = STACK
      /\ pt[e][va] # Unmapped /\ "D" \notin pt[e][va].perm
      /\ UNCHANGED <<live, runnable, env_user_tlb_mod_entry, pt, content, fork, view, failed>>
  BY DEF do_tlb_mod, Main, Mapped, Writable, envvars
<1>2. pt[e][va].perm = {"COW"}
  BY <1>0, <1>1 DEF ShapeOf
<1>3. /\ cow' = [cow EXCEPT ![e] = [at |-> "alloc", va |-> va]]
      /\ UNCHANGED panicked
  BY <1>0, <1>1, <1>2 DEF Registered, do_tlb_mod
<1>4. /\ cow'[e] = [at |-> "alloc", va |-> va]
      /\ \A f \in Env \ {e} : cow'[f] = cow[f]
  BY <1>0, <1>3 DEF TypeOK
<1>5. TypeOK'
  BY <1>0, <1>1, <1>3 DEF TypeOK
<1>6. ShapeOf(e)' /\ ForkOf(e)' /\ CowOf(e)'
  BY <1>0, <1>1, <1>2, <1>4 DEF ShapeOf, ForkOf, CowOf, Mapped
<1>7. \A c \in Env : fork'[e].child = c => ChildOf(e, c)'
  BY <1>0, <1>1, CowForkAssumption DEF ChildInv, ChildOf, Copied, Holds, Mapped
<1>8. e \notin failed => pt'[e][LIB] = pt[e][LIB] /\ \A w \in Private : Holds(e, w)'
  BY <1>0, <1>1 DEF OwnMemory, Holds, Mapped
<1>9. \A w \in Va : "COW" \in pt'[e][w].perm => e \in env_user_tlb_mod_entry'
  BY <1>0, <1>1 DEF Registered
<1>10. Unique'
  BY <1>0, <1>1, <1>4 DEF Unique, Owns
<1> QED BY <1>1, <1>3, <1>4, <1>5, <1>6, <1>7, <1>8, <1>9, <1>10, OwnStep

\* A free page given to e at va, with content v, is nobody else's.
LEMMA MapNewEffect ==
  ASSUME TypeOK, NEW e \in Env, NEW va \in Va, NEW v \in Val,
         Free # {}, MapNew(e, va, v)
  PROVE  /\ page_alloc \in Page
         /\ \A f \in Env, w \in Va : pt[f][w].page # page_alloc
         /\ pt' \in [Env -> [Va -> Entry]]
         /\ pt'[e][va] = [page |-> page_alloc, perm |-> {"D"}]
         /\ \A w \in Va \ {va} : pt'[e][w] = pt[e][w]
         /\ \A f \in Env \ {e} : pt'[f] = pt[f]
         /\ content' \in [Page -> Val]
         /\ content'[page_alloc] = v
         /\ \A f \in Env, w \in Va : pt[f][w].page \in Page =>
              content'[pt[f][w].page] = content[pt[f][w].page]
<1>1. page_alloc \in Page /\ \A f \in Env, w \in Va : pt[f][w].page # page_alloc
  BY PageAlloc, FreeUnmapped
<1>2. /\ pt' = [pt EXCEPT ![e][va] = [page |-> page_alloc, perm |-> {"D"}]]
      /\ content' = [content EXCEPT ![page_alloc] = v]
  BY DEF MapNew
<1>3. [page |-> page_alloc, perm |-> {"D"}] \in Entry
  BY <1>1 DEF Entry, Perm
<1> HIDE DEF page_alloc
<1> QED BY <1>1, <1>2, <1>3 DEF TypeOK

\* The new page of e is unique, and the others stay so.
LEMMA NewIsUnique ==
  ASSUME Unique, NEW e \in Env, NEW va \in Va, NEW p,
         \A f \in Env, w \in Va : pt[f][w].page # p,
         pt'[e][va] = [page |-> p, perm |-> {"D"}],
         \A w \in Va \ {va} : pt'[e][w] = pt[e][w],
         \A f \in Env \ {e} : pt'[f] = pt[f],
         \A f \in Env : cow'[f] = cow[f] \/ cow[f].at # "unmap",
         UNCHANGED fork
  PROVE  Unique'
<1> SUFFICES ASSUME NEW f \in Env, NEW g \in Env, NEW w \in Va, NEW x \in Va,
                    Owns(f, w)', pt'[g][x].page = pt'[f][w].page,
                    ~(f = g /\ w = x)
             PROVE  \/ /\ g = f /\ cow'[f].at = "unmap"
                       /\ {w, x} \subseteq {UCOW, cow'[f].va}
                    \/ /\ fork'[f].at = "self" /\ w = fork'[f].va /\ x = w
                       /\ fork'[f].child # NoEnv /\ g = fork'[f].child
  BY DEF Unique
<1>1. ~(f = e /\ w = va) /\ ~(g = e /\ x = va)
  OBVIOUS
<1>2. pt'[f][w] = pt[f][w] /\ pt'[g][x] = pt[g][x]
  BY <1>1
<1>3. Owns(f, w) /\ pt[g][x].page = pt[f][w].page
  BY <1>2 DEF Owns
<1> QED BY <1>3 DEF Unique

\* The first access to a page: it is new, zeroed and nobody else's.
LEMMA TouchStep ==
  ASSUME IInv, NEW e \in Env, NEW va \in Va \ {UCOW}, Touch(e, va)
  PROVE  IInv'
<1>0. /\ TypeOK /\ Shape /\ ForkInv /\ ChildInv /\ CowInv /\ Unique /\ OwnMemory
      /\ ShapeOf(e) /\ ForkOf(e) /\ CowOf(e) /\ Registered /\ LibInv
  BY DEF IInv, Shape, ForkInv, CowInv
<1>1. /\ e \in runnable /\ cow[e].at = "none" /\ fork[e].at = "none"
      /\ pt[e][va] = Unmapped /\ panicked = FALSE
      /\ UNCHANGED <<live, runnable, env_user_tlb_mod_entry, fork, cow, view, failed>>
  BY <1>0 DEF Touch, Main, Mapped, envvars, TypeOK
<1>2. \A c \in Env : fork'[e].child # c
  BY <1>0, <1>1, CowForkAssumption DEF ForkOf, NotForking
<1>3. CASE panicked' = TRUE /\ UNCHANGED <<pt, content>>
  <2>1. TypeOK'
    BY <1>0, <1>1, <1>3 DEF TypeOK
  <2>2. ShapeOf(e)' /\ ForkOf(e)' /\ CowOf(e)'
    BY <1>0, <1>1, <1>3 DEF ShapeOf, ForkOf, CowOf, Mapped
  <2>3. e \notin failed => pt'[e][LIB] = pt[e][LIB] /\ \A w \in Private : Holds(e, w)'
    BY <1>0, <1>1, <1>3 DEF OwnMemory, Holds, Mapped
  <2>4. \A w \in Va : "COW" \in pt'[e][w].perm => e \in env_user_tlb_mod_entry'
    BY <1>0, <1>1, <1>3 DEF Registered
  <2>5. Unique'
    BY <1>0, <1>1, <1>3 DEF Unique, Owns
  <2> QED BY <1>1, <1>2, <1>3, <2>1, <2>2, <2>3, <2>4, <2>5, OwnStep
<1>4. CASE Free # {} /\ MapNew(e, va, 0) /\ UNCHANGED panicked
  <2> DEFINE p == page_alloc
  <2>0. 0 \in Val
    BY CowForkAssumption
  <2>1. /\ p \in Page
        /\ \A f \in Env, w \in Va : pt[f][w].page # p
        /\ pt' \in [Env -> [Va -> Entry]]
        /\ pt'[e][va] = [page |-> p, perm |-> {"D"}]
        /\ \A w \in Va \ {va} : pt'[e][w] = pt[e][w]
        /\ \A f \in Env \ {e} : pt'[f] = pt[f]
        /\ content' \in [Page -> Val]
        /\ content'[p] = 0
        /\ \A f \in Env, w \in Va : pt[f][w].page \in Page =>
             content'[pt[f][w].page] = content[pt[f][w].page]
    BY <1>0, <1>4, <2>0, MapNewEffect
  <2> HIDE DEF p
  <2>2. TypeOK'
    BY <1>0, <1>1, <1>4, <2>1 DEF TypeOK
  <2>3. ShapeOf(e)'
    <3>1. e \in live'
      BY <1>0, <1>1 DEF TypeOK
    <3>2. "LIBRARY" \notin {"D"}
      OBVIOUS
    <3> QED BY <1>0, <1>1, <2>1, <3>1, <3>2 DEF ShapeOf
  <2>4. ForkOf(e)' /\ CowOf(e)'
    BY <1>0, <1>1, <2>1, Places DEF ForkOf, CowOf, Mapped
  <2>5. ASSUME e \notin failed PROVE pt'[e][LIB] = pt[e][LIB]
    BY <1>0, <1>1, <2>1, <2>5, Places DEF LibInv, Unmapped
  <2>6. ASSUME e \notin failed, NEW w \in Private PROVE Holds(e, w)'
    <3>1. Holds(e, w) /\ w \in Va
      BY <1>0, <1>1, <2>6, Places DEF OwnMemory, Holds
    <3>2. CASE w = va
      BY <1>1, <2>1, <3>1, <3>2, CowForkAssumption DEF Holds, Mapped, Unmapped
    <3>3. CASE w # va
      BY <1>0, <1>1, <2>1, <3>1, <3>3, HoldsFrame
    <3> QED BY <3>2, <3>3
  <2>7. \A w \in Va : "COW" \in pt'[e][w].perm => e \in env_user_tlb_mod_entry'
    BY <1>0, <1>1, <2>1 DEF Registered
  <2>8. Unique'
    BY <1>0, <1>1, <2>1, NewIsUnique
  <2> QED BY <1>1, <1>2, <1>4, <2>1, <2>2, <2>3, <2>4, <2>5, <2>6, <2>7, <2>8, OwnStep
<1> QED BY <1>3, <1>4 DEF Touch

-----------------------------------------------------------------------------
(* cow_entry *)

\* A step of the handler of e keeps what holds of the child e is building.
LEMMA OwnChild ==
  ASSUME IInv, NEW e \in Env, e \in runnable, ShapeOf(e),
         \A f \in Env \ {e} : pt'[f] = pt[f],
         \A f \in Env \ {e}, w \in Va : pt[f][w].page \in Page =>
           content'[pt[f][w].page] = content[pt[f][w].page],
         UNCHANGED <<live, runnable, env_user_tlb_mod_entry, fork, view, failed>>,
         fork[e].at # "none" => pt'[e][LIB] = pt[e][LIB],
         NEW c \in Env, fork'[e].child = c
  PROVE  ChildOf(e, c)'
<1>1. ChildOf(e, c)
  BY CowForkAssumption DEF IInv, ChildInv
<1>2. c \in live /\ c \notin runnable /\ c # e /\ ShapeOf(c) /\ fork[e].at # "none"
  BY <1>1 DEF ChildOf, IInv, Shape
<1> QED BY <1>1, <1>2, ChildFrame

\* What Drop and sys_mem_map do to contents: who maps a page afterwards finds
\* there what was there before.
LEMMA DropEffect ==
  ASSUME TypeOK, Drop
  PROVE  /\ content' \in [Page -> Val]
         /\ \A f \in Env, w \in Va : pt'[f][w].page \in Page =>
              content'[pt'[f][w].page] = content[pt'[f][w].page]
<1>1. content' = [p \in Page |-> IF p \in Free' THEN 0 ELSE content[p]]
  BY DEF Drop
<1>2. \A f \in Env, w \in Va : pt'[f][w].page \notin Free'
  BY DEF Free
<1> QED BY <1>1, <1>2, CowForkAssumption DEF TypeOK

\* cow_entry gets its page at UCOW, or none.
LEMMA CowAllocStep ==
  ASSUME IInv, NEW e \in Env, CowAlloc(e)
  PROVE  IInv'
<1>0. /\ TypeOK /\ Unique /\ OwnMemory
      /\ ShapeOf(e) /\ ForkOf(e) /\ CowOf(e) /\ Registered /\ UCOW \in Va
  BY Places DEF IInv, Shape, ForkInv, CowInv
<1>1. /\ e \in runnable /\ cow[e].at = "alloc"
      /\ cow' = [cow EXCEPT ![e].at = "copy"]
      /\ UNCHANGED <<live, runnable, env_user_tlb_mod_entry, fork, view, failed, panicked>>
  BY DEF CowAlloc, InHandler, envvars
<1>2. /\ pt[e][UCOW] = Unmapped /\ cow[e].va \in Va \ {UCOW}
      /\ pt[e][cow[e].va] # Unmapped /\ pt[e][cow[e].va].perm = {"COW"}
      /\ fork[e].at # "none" => cow[e].va = STACK
  BY <1>0, <1>1 DEF CowOf, Mapped
<1>3. /\ cow'[e] = [at |-> "copy", va |-> cow[e].va]
      /\ \A f \in Env \ {e} : cow'[f] = cow[f]
      /\ cow' \in [Env -> [at : {"none", "alloc", "copy", "map", "unmap"}, va : Va]]
  BY <1>0, <1>1 DEF TypeOK
<1>4. \A f \in Env : cow'[f] = cow[f] \/ cow[f].at # "unmap"
  BY <1>1, <1>3
<1>5. CASE UNCHANGED <<pt, content>>
  <2>1. TypeOK'
    BY <1>0, <1>1, <1>3, <1>5 DEF TypeOK
  <2>2. ShapeOf(e)' /\ ForkOf(e)' /\ CowOf(e)'
    BY <1>0, <1>1, <1>2, <1>3, <1>5 DEF ShapeOf, ForkOf, CowOf, Mapped
  <2>3. \A c \in Env : fork'[e].child = c => ChildOf(e, c)'
    BY <1>0, <1>1, <1>5, OwnChild
  <2>4. e \notin failed => pt'[e][LIB] = pt[e][LIB] /\ \A w \in Private : Holds(e, w)'
    BY <1>0, <1>1, <1>5 DEF OwnMemory, Holds, Mapped
  <2>5. \A w \in Va : "COW" \in pt'[e][w].perm => e \in env_user_tlb_mod_entry'
    BY <1>0, <1>1, <1>5 DEF Registered
  <2>6. Unique'
    BY <1>0, <1>1, <1>4, <1>5 DEF Unique, Owns
  <2> QED BY <1>1, <1>3, <1>5, <2>1, <2>2, <2>3, <2>4, <2>5, <2>6, OwnStep
<1>6. CASE Free # {} /\ MapNew(e, UCOW, 0)
  <2> DEFINE p == page_alloc
  <2>0. 0 \in Val
    BY CowForkAssumption
  <2>1. /\ p \in Page
        /\ \A f \in Env, w \in Va : pt[f][w].page # p
        /\ pt' \in [Env -> [Va -> Entry]]
        /\ pt'[e][UCOW] = [page |-> p, perm |-> {"D"}]
        /\ \A w \in Va \ {UCOW} : pt'[e][w] = pt[e][w]
        /\ \A f \in Env \ {e} : pt'[f] = pt[f]
        /\ content' \in [Page -> Val]
        /\ content'[p] = 0
        /\ \A f \in Env, w \in Va : pt[f][w].page \in Page =>
             content'[pt[f][w].page] = content[pt[f][w].page]
    BY <1>0, <1>6, <2>0, MapNewEffect
  <2> HIDE DEF p
  <2>2. TypeOK'
    BY <1>0, <1>1, <1>3, <2>1 DEF TypeOK
  <2>3. ShapeOf(e)'
    <3>1. e \in live'
      BY <1>0, <1>1 DEF TypeOK
    <3> QED BY <1>0, <1>1, <2>1, <3>1 DEF ShapeOf
  <2>4. ForkOf(e)'
    BY <1>0, <1>1, <2>1, Places DEF ForkOf, Mapped
  <2>5. CowOf(e)'
    BY <1>0, <1>2, <1>3, <1>1, <2>1 DEF CowOf, Mapped
  <2>6. \A c \in Env : fork'[e].child = c => ChildOf(e, c)'
    BY <1>0, <1>1, <2>1, Places, OwnChild
  <2>7. ASSUME e \notin failed, NEW w \in Private PROVE Holds(e, w)'
    <3>1. Holds(e, w) /\ w \in Va \ {UCOW}
      BY <1>0, <1>1, <2>7, Places DEF OwnMemory, Holds
    <3> QED BY <1>0, <1>1, <2>1, <3>1, HoldsFrame
  <2>8. \A w \in Va : "COW" \in pt'[e][w].perm => e \in env_user_tlb_mod_entry'
    BY <1>0, <1>1, <2>1 DEF Registered
  <2>9. Unique'
    BY <1>0, <1>1, <1>4, <2>1, NewIsUnique
  <2>10. pt'[e][LIB] = pt[e][LIB]
    BY <2>1, Places
  <2> QED BY <1>1, <1>3, <2>1, <2>2, <2>3, <2>4, <2>5, <2>6, <2>7, <2>8, <2>9, <2>10, OwnStep
<1> QED BY <1>5, <1>6 DEF CowAlloc

\* memcpy: the page at UCOW, which is in no other place, gets the content of
\* the page being copied.
LEMMA CowCopyStep ==
  ASSUME IInv, NEW e \in Env, CowCopy(e)
  PROVE  IInv'
<1> DEFINE va  == cow[e].va
           old == content[pt[e][va].page]
<1>0. /\ TypeOK /\ Unique /\ OwnMemory
      /\ ShapeOf(e) /\ ForkOf(e) /\ CowOf(e) /\ Registered /\ UCOW \in Va
  BY Places DEF IInv, Shape, ForkInv, CowInv
<1>1. /\ e \in runnable /\ cow[e].at = "copy" /\ panicked = FALSE
      /\ cow' = [cow EXCEPT ![e].at = "map"]
      /\ UNCHANGED <<live, runnable, env_user_tlb_mod_entry, fork, view, failed>>
  BY <1>0 DEF CowCopy, InHandler, envvars, TypeOK
<1>2. /\ va \in Va \ {UCOW}
      /\ pt[e][va] # Unmapped /\ pt[e][va].perm = {"COW"} /\ pt[e][va].page \in Page
      /\ pt[e][UCOW] = Unmapped \/ pt[e][UCOW].perm = {"D"}
      /\ fork[e].at # "none" => va = STACK
      /\ old \in Val
  BY <1>0, <1>1 DEF CowOf, Mapped, ShapeOf, TypeOK
<1>3. /\ cow'[e] = [at |-> "map", va |-> va]
      /\ \A f \in Env \ {e} : cow'[f] = cow[f]
      /\ cow' \in [Env -> [at : {"none", "alloc", "copy", "map", "unmap"}, va : Va]]
  BY <1>0, <1>1 DEF TypeOK
<1>4. \A f \in Env : cow'[f] = cow[f] \/ cow[f].at # "unmap"
  BY <1>1, <1>3
<1>a. \/ Mapped(e, UCOW) /\ content' = [content EXCEPT ![pt[e][UCOW].page] = old]
           /\ UNCHANGED <<pt, panicked>>
      \/ ~Mapped(e, UCOW) /\ Free # {} /\ MapNew(e, UCOW, old) /\ UNCHANGED panicked
      \/ panicked' = TRUE /\ UNCHANGED <<pt, content>>
  BY DEF CowCopy
<1> HIDE DEF va, old
<1>5. CASE panicked' = TRUE /\ UNCHANGED <<pt, content>>
  <2>1. TypeOK'
    BY <1>0, <1>1, <1>3, <1>5 DEF TypeOK
  <2>2. ShapeOf(e)' /\ ForkOf(e)' /\ CowOf(e)'
    BY <1>0, <1>1, <1>2, <1>3, <1>5 DEF ShapeOf, ForkOf, CowOf, Mapped
  <2>3. \A c \in Env : fork'[e].child = c => ChildOf(e, c)'
    BY <1>0, <1>1, <1>5, OwnChild
  <2>4. e \notin failed => pt'[e][LIB] = pt[e][LIB] /\ \A w \in Private : Holds(e, w)'
    BY <1>0, <1>1, <1>5 DEF OwnMemory, Holds, Mapped
  <2>5. \A w \in Va : "COW" \in pt'[e][w].perm => e \in env_user_tlb_mod_entry'
    BY <1>0, <1>1, <1>5 DEF Registered
  <2>6. Unique'
    BY <1>0, <1>1, <1>4, <1>5 DEF Unique, Owns
  <2> QED BY <1>1, <1>3, <1>5, <2>1, <2>2, <2>3, <2>4, <2>5, <2>6, OwnStep
<1>6. CASE ~Mapped(e, UCOW) /\ Free # {} /\ MapNew(e, UCOW, old) /\ UNCHANGED panicked
  <2> DEFINE p == page_alloc
  <2>1. /\ p \in Page
        /\ \A f \in Env, w \in Va : pt[f][w].page # p
        /\ pt' \in [Env -> [Va -> Entry]]
        /\ pt'[e][UCOW] = [page |-> p, perm |-> {"D"}]
        /\ \A w \in Va \ {UCOW} : pt'[e][w] = pt[e][w]
        /\ \A f \in Env \ {e} : pt'[f] = pt[f]
        /\ content' \in [Page -> Val]
        /\ content'[p] = old
        /\ \A f \in Env, w \in Va : pt[f][w].page \in Page =>
             content'[pt[f][w].page] = content[pt[f][w].page]
    BY <1>0, <1>2, <1>6, MapNewEffect
  <2> HIDE DEF p
  <2>2. TypeOK'
    BY <1>0, <1>1, <1>3, <1>6, <2>1 DEF TypeOK
  <2>3. ShapeOf(e)'
    <3>1. e \in live'
      BY <1>0, <1>1 DEF TypeOK
    <3> QED BY <1>0, <1>1, <2>1, <3>1 DEF ShapeOf
  <2>4. ForkOf(e)'
    BY <1>0, <1>1, <2>1, Places DEF ForkOf, Mapped
  <2>5. CowOf(e)'
    <3>1. content'[pt'[e][va].page] = old
      BY <1>2, <2>1 DEF old
    <3> QED BY <1>0, <1>2, <1>3, <1>1, <2>1, <3>1, CowForkAssumption DEF CowOf, Mapped, Unmapped
  <2>6. \A c \in Env : fork'[e].child = c => ChildOf(e, c)'
    BY <1>0, <1>1, <2>1, Places, OwnChild
  <2>7. ASSUME e \notin failed, NEW w \in Private PROVE Holds(e, w)'
    <3>1. Holds(e, w) /\ w \in Va \ {UCOW}
      BY <1>0, <1>1, <2>7, Places DEF OwnMemory, Holds
    <3> QED BY <1>0, <1>1, <2>1, <3>1, HoldsFrame
  <2>8. \A w \in Va : "COW" \in pt'[e][w].perm => e \in env_user_tlb_mod_entry'
    BY <1>0, <1>1, <2>1 DEF Registered
  <2>9. Unique'
    BY <1>0, <1>1, <1>4, <2>1, NewIsUnique
  <2>10. pt'[e][LIB] = pt[e][LIB]
    BY <2>1, Places
  <2> QED BY <1>1, <1>3, <1>6, <2>1, <2>2, <2>3, <2>4, <2>5, <2>6, <2>7, <2>8, <2>9, <2>10, OwnStep
<1>7. CASE /\ Mapped(e, UCOW) /\ content' = [content EXCEPT ![pt[e][UCOW].page] = old]
           /\ UNCHANGED <<pt, panicked>>
  <2> DEFINE p == pt[e][UCOW].page
  <2>1. p \in Page /\ Owns(e, UCOW) /\ pt[e][UCOW] # Unmapped /\ pt[e][UCOW].perm = {"D"}
    BY <1>0, <1>2, <1>7 DEF Mapped, ShapeOf, Owns
  <2>2. \A f \in Env, w \in Va : pt[f][w].page = p => f = e /\ w = UCOW
    BY <1>0, <1>1, <2>1 DEF Unique, ForkOf
  <2>3. /\ content' \in [Page -> Val] /\ content'[p] = old
        /\ \A f \in Env, w \in Va : pt[f][w].page \in Page /\ ~(f = e /\ w = UCOW) =>
             content'[pt[f][w].page] = content[pt[f][w].page]
    BY <1>0, <1>2, <1>7, <2>1, <2>2 DEF TypeOK
  <2>4. TypeOK'
    BY <1>0, <1>1, <1>3, <1>7, <2>3 DEF TypeOK
  <2>5. ShapeOf(e)' /\ ForkOf(e)'
    BY <1>0, <1>1, <1>7 DEF ShapeOf, ForkOf, Mapped
  <2>6. CowOf(e)'
    <3>1. content'[pt'[e][va].page] = old /\ content'[pt'[e][UCOW].page] = old
      BY <1>2, <1>7, <2>3 DEF old
    <3> QED BY <1>0, <1>1, <1>2, <1>3, <1>7, <2>1, <3>1 DEF CowOf, Mapped
  <2>7. \A c \in Env : fork'[e].child = c => ChildOf(e, c)'
    BY <1>0, <1>1, <1>7, <2>3, OwnChild
  <2>8. ASSUME e \notin failed, NEW w \in Private PROVE Holds(e, w)'
    <3>1. Holds(e, w) /\ w \in Va \ {UCOW}
      BY <1>0, <1>1, <2>8, Places DEF OwnMemory, Holds
    <3> QED BY <1>0, <1>1, <1>7, <2>3, <3>1, HoldsFrame
  <2>9. \A w \in Va : "COW" \in pt'[e][w].perm => e \in env_user_tlb_mod_entry'
    BY <1>0, <1>1, <1>7 DEF Registered
  <2>10. Unique'
    BY <1>0, <1>1, <1>4, <1>7 DEF Unique, Owns
  <2> QED BY <1>1, <1>3, <1>7, <2>3, <2>4, <2>5, <2>6, <2>7, <2>8, <2>9, <2>10, OwnStep
<1> QED BY <1>a, <1>5, <1>6, <1>7

\* sys_mem_map of UCOW: the copy takes the place of the page, which e now
\* maps twice.
LEMMA CowMapStep ==
  ASSUME IInv, NEW e \in Env, CowMap(e)
  PROVE  IInv'
<1> DEFINE va == cow[e].va
           q  == pt[e][UCOW].page
<1>0. /\ TypeOK /\ Unique /\ OwnMemory
      /\ ShapeOf(e) /\ ForkOf(e) /\ CowOf(e) /\ Registered /\ LibInv /\ UCOW \in Va
  BY Places DEF IInv, Shape, ForkInv, CowInv
<1>1. /\ e \in runnable /\ cow[e].at = "map" /\ panicked = FALSE
      /\ pt' = [pt EXCEPT ![e][va] = [page |-> q, perm |-> {"D"}]]
      /\ Drop
      /\ cow' = [cow EXCEPT ![e].at = "unmap"]
      /\ UNCHANGED <<live, runnable, env_user_tlb_mod_entry, fork, view, failed, panicked>>
  BY <1>0 DEF CowMap, InHandler, sys_mem_map, OwnedPerm, envvars, TypeOK
<1>2. /\ va \in Va \ {UCOW}
      /\ pt[e][va] # Unmapped /\ pt[e][va].perm = {"COW"} /\ pt[e][va].page \in Page
      /\ pt[e][UCOW] # Unmapped /\ pt[e][UCOW].perm = {"D"} /\ q \in Page
      /\ fork[e].at # "none" => va = STACK
      /\ content[q] = content[pt[e][va].page]
  BY <1>0, <1>1 DEF CowOf, Mapped, ShapeOf, TypeOK
<1>3. /\ cow'[e] = [at |-> "unmap", va |-> va]
      /\ \A f \in Env \ {e} : cow'[f] = cow[f]
      /\ cow' \in [Env -> [at : {"none", "alloc", "copy", "map", "unmap"}, va : Va]]
  BY <1>0, <1>1 DEF TypeOK
<1>4. [page |-> q, perm |-> {"D"}] \in Entry
  BY <1>2 DEF Entry, Perm
<1>u. pt[e][UCOW] = [page |-> q, perm |-> {"D"}]
  <2>1. pt[e][UCOW] \in [page : Page \cup {NoPage}, perm : Perm]
    BY <1>0 DEF TypeOK, Entry
  <2>2. pt[e][UCOW] = [page |-> pt[e][UCOW].page, perm |-> pt[e][UCOW].perm]
    BY <2>1
  <2> QED BY <1>2, <2>2
<1> HIDE DEF va, q
<1>5. /\ pt' \in [Env -> [Va -> Entry]]
      /\ pt'[e][va] = [page |-> q, perm |-> {"D"}]
      /\ pt'[e][UCOW] = [page |-> q, perm |-> {"D"}]
      /\ \A w \in Va \ {va} : pt'[e][w] = pt[e][w]
      /\ \A f \in Env \ {e} : pt'[f] = pt[f]
  BY <1>0, <1>1, <1>2, <1>4, <1>u DEF TypeOK
<1>6. /\ content' \in [Page -> Val]
      /\ \A f \in Env, w \in Va : pt'[f][w].page \in Page =>
           content'[pt'[f][w].page] = content[pt'[f][w].page]
  BY <1>0, <1>1, DropEffect
<1>7. TypeOK'
  BY <1>0, <1>1, <1>3, <1>5, <1>6 DEF TypeOK
<1>8. ShapeOf(e)'
  <2>1. e \in live'
    BY <1>0, <1>1 DEF TypeOK
  <2> QED BY <1>0, <1>1, <1>2, <1>5, <2>1 DEF ShapeOf
<1>9. ForkOf(e)'
  <2>1. fork[e].at \in {"child", "self"} => fork[e].va # va
    BY <1>0, <1>2 DEF ForkOf
  <2> QED BY <1>0, <1>1, <1>5, <2>1 DEF ForkOf, Mapped
<1>10. CowOf(e)'
  BY <1>1, <1>2, <1>3, <1>5, CowForkAssumption DEF CowOf, Mapped, Unmapped
<1>11. \A c \in Env : fork'[e].child = c => ChildOf(e, c)'
  <2>1. \A f \in Env \ {e}, w \in Va : pt[f][w].page \in Page =>
           content'[pt[f][w].page] = content[pt[f][w].page]
    BY <1>5, <1>6
  <2> QED BY <1>0, <1>1, <1>2, <1>5, <2>1, Places, OwnChild
<1>12. e \notin failed => pt'[e][LIB] = pt[e][LIB]
  BY <1>0, <1>1, <1>2, <1>5, Places DEF LibInv
<1>13. ASSUME e \notin failed, NEW w \in Private PROVE Holds(e, w)'
  <2>1. Holds(e, w) /\ w \in Va \ {UCOW}
    BY <1>0, <1>1, <1>13, Places DEF OwnMemory, Holds
  <2>2. CASE w = va
    <3>1. content'[q] = content[q]
      BY <1>2, <1>5, <1>6
    <3> QED BY <1>1, <1>2, <1>5, <2>1, <2>2, <3>1, CowForkAssumption DEF Holds, Mapped, Unmapped
  <2>3. CASE w # va
    BY <1>0, <1>1, <1>5, <1>6, <2>1, <2>3, HoldsFrame
  <2> QED BY <2>2, <2>3
<1>14. \A w \in Va : "COW" \in pt'[e][w].perm => e \in env_user_tlb_mod_entry'
  BY <1>0, <1>1, <1>5 DEF Registered
<1>15. \A f \in Env, w \in Va : pt[f][w].page = q => f = e /\ w = UCOW
  <2>1. Owns(e, UCOW) /\ pt[e][UCOW].page = q
    BY <1>2, <1>u DEF Owns
  <2> QED BY <1>0, <1>1, <2>1 DEF Unique, ForkOf
<1>16. Unique'
  <2> SUFFICES ASSUME NEW f \in Env, NEW g \in Env, NEW w \in Va, NEW x \in Va,
                      Owns(f, w)', pt'[g][x].page = pt'[f][w].page,
                      ~(f = g /\ w = x)
               PROVE  \/ /\ g = f /\ cow'[f].at = "unmap"
                         /\ {w, x} \subseteq {UCOW, cow'[f].va}
                      \/ /\ fork'[f].at = "self" /\ w = fork'[f].va /\ x = w
                         /\ fork'[f].child # NoEnv /\ g = fork'[f].child
    BY DEF Unique
  <2>1. \A h \in Env, y \in Va :
          pt'[h][y].page = q <=> h = e /\ y \in {UCOW, va}
    BY <1>2, <1>5, <1>15
  <2>2. CASE f = e /\ w \in {UCOW, va}
    BY <1>3, <2>1, <2>2
  <2>3. CASE ~(f = e /\ w \in {UCOW, va})
    <3>1. ~(g = e /\ x \in {UCOW, va})
      BY <2>1, <2>3
    <3>2. pt'[f][w] = pt[f][w] /\ pt'[g][x] = pt[g][x]
      BY <1>5, <2>3, <3>1
    <3>3. Owns(f, w) /\ pt[g][x].page = pt[f][w].page
      BY <3>2 DEF Owns
    <3> QED BY <1>0, <1>1, <1>3, <3>3 DEF Unique
  <2> QED BY <2>2, <2>3
<1>17. \A f \in Env \ {e}, w \in Va : pt[f][w].page \in Page =>
         content'[pt[f][w].page] = content[pt[f][w].page]
  BY <1>5, <1>6
<1> QED BY <1>1, <1>3, <1>5, <1>7, <1>8, <1>9, <1>10, <1>11, <1>12, <1>13, <1>14,
           <1>16, <1>17, OwnStep

\* The handler ends: the copy is in one place again.
LEMMA CowUnmapStep ==
  ASSUME IInv, NEW e \in Env, CowUnmap(e)
  PROVE  IInv'
<1> DEFINE va == cow[e].va
<1>0. /\ TypeOK /\ Unique /\ OwnMemory
      /\ ShapeOf(e) /\ ForkOf(e) /\ CowOf(e) /\ Registered /\ UCOW \in Va
  BY Places DEF IInv, Shape, ForkInv, CowInv
<1>1. /\ e \in runnable /\ cow[e].at = "unmap"
      /\ pt' = [pt EXCEPT ![e][UCOW] = Unmapped]
      /\ cow' = [cow EXCEPT ![e] = NoFault]
      /\ UNCHANGED <<live, runnable, env_user_tlb_mod_entry, content, fork, view,
                     failed, panicked>>
  BY DEF CowUnmap, InHandler, envvars
<1>2. /\ va \in Va \ {UCOW}
      /\ pt[e][UCOW] = pt[e][va] /\ pt[e][va] # Unmapped /\ pt[e][va].perm = {"D"}
      /\ pt[e][va].page \in Page
  BY <1>0, <1>1 DEF CowOf, Mapped, ShapeOf
<1>3. /\ cow'[e] = NoFault
      /\ \A f \in Env \ {e} : cow'[f] = cow[f]
      /\ cow' \in [Env -> [at : {"none", "alloc", "copy", "map", "unmap"}, va : Va]]
  BY <1>0, <1>1, Places DEF TypeOK, NoFault, UCOW
<1>4. Unmapped \in Entry
  BY DEF Entry, Perm, Unmapped
<1> HIDE DEF va
<1>5. /\ pt' \in [Env -> [Va -> Entry]]
      /\ pt'[e][UCOW] = Unmapped
      /\ \A w \in Va \ {UCOW} : pt'[e][w] = pt[e][w]
      /\ \A f \in Env \ {e} : pt'[f] = pt[f]
  BY <1>0, <1>1, <1>2, <1>4 DEF TypeOK
<1>7. TypeOK'
  BY <1>0, <1>1, <1>3, <1>5 DEF TypeOK
<1>8. ShapeOf(e)'
  <2>1. "LIBRARY" \notin Unmapped.perm
    BY DEF Unmapped
  <2> QED BY <1>0, <1>1, <1>5, <2>1 DEF ShapeOf
<1>9. ForkOf(e)'
  BY <1>0, <1>1, <1>5 DEF ForkOf, Mapped
<1>10. CowOf(e)'
  BY <1>1, <1>3, <1>5 DEF CowOf, NoFault
<1>11. \A c \in Env : fork'[e].child = c => ChildOf(e, c)'
  BY <1>0, <1>1, <1>5, Places, OwnChild
<1>12. e \notin failed => pt'[e][LIB] = pt[e][LIB]
  BY <1>5, Places
<1>13. ASSUME e \notin failed, NEW w \in Private PROVE Holds(e, w)'
  <2>1. Holds(e, w) /\ w \in Va \ {UCOW}
    BY <1>0, <1>1, <1>13, Places DEF OwnMemory, Holds
  <2> QED BY <1>0, <1>1, <1>5, <2>1, HoldsFrame
<1>14. \A w \in Va : "COW" \in pt'[e][w].perm => e \in env_user_tlb_mod_entry'
  BY <1>0, <1>1, <1>5 DEF Registered, Unmapped
<1>16. Unique'
  <2> SUFFICES ASSUME NEW f \in Env, NEW g \in Env, NEW w \in Va, NEW x \in Va,
                      Owns(f, w)', pt'[g][x].page = pt'[f][w].page,
                      ~(f = g /\ w = x)
               PROVE  \/ /\ g = f /\ cow'[f].at = "unmap"
                         /\ {w, x} \subseteq {UCOW, cow'[f].va}
                      \/ /\ fork'[f].at = "self" /\ w = fork'[f].va /\ x = w
                         /\ fork'[f].child # NoEnv /\ g = fork'[f].child
    BY DEF Unique
  <2>1. ~(f = e /\ w = UCOW)
    BY <1>5 DEF Owns, Unmapped
  <2>2. pt'[f][w] = pt[f][w]
    BY <1>5, <2>1
  <2>3. pt[f][w].page \in Page
    <3>1. ShapeOf(f)
      BY DEF IInv, Shape
    <3> QED BY <2>2, <3>1 DEF ShapeOf, Owns, Unmapped
  <2>4. ~(g = e /\ x = UCOW)
    BY <1>5, <2>2, <2>3, CowForkAssumption DEF Unmapped
  <2>5. Owns(f, w) /\ pt[g][x].page = pt[f][w].page
    BY <1>5, <2>2, <2>4 DEF Owns
  <2>6. CASE f = e /\ g = e /\ {w, x} \subseteq {UCOW, va}
    BY <2>1, <2>4, <2>6
  <2>7. CASE ~(f = e /\ g = e /\ {w, x} \subseteq {UCOW, va})
    BY <1>0, <1>1, <1>3, <2>5, <2>7 DEF Unique, va
  <2> QED BY <2>6, <2>7
<1> QED BY <1>1, <1>3, <1>5, <1>7, <1>8, <1>9, <1>10, <1>11, <1>12, <1>13, <1>14,
           <1>16, OwnStep

-----------------------------------------------------------------------------
(* fork *)

ForkType == [at : {"none", "scan", "child", "self", "entry", "status"},
             va : 0 .. USTACKTOP, child : Env \cup {NoEnv}, perm : Perm]

\* What Advance does to the fork() of e: the next call for the page, or the
\* next page.
LEMMA AdvanceEffect ==
  ASSUME TypeOK, NEW e \in Env, NEW perm \in Perm,
         fork[e].at \in {"scan", "child", "self"}, fork[e].va \in Va,
         Advance(e, perm)
  PROVE  /\ fork' \in [Env -> ForkType]
         /\ \A f \in Env \ {e} : fork'[f] = fork[f]
         /\ fork'[e].child = fork[e].child
         /\ fork'[e].at = Follow(fork[e].at, perm)
         /\ fork'[e].at \in {"scan", "child", "self"}
         /\ fork'[e].at = "scan" => fork'[e].va = fork[e].va + 1
         /\ fork'[e].at # "scan" => fork'[e].va = fork[e].va /\ fork'[e].perm = perm
<1> DEFINE at == Follow(fork[e].at, perm)
<1>1. at \in {"scan", "child", "self"}
  BY DEF Follow
<1>2. fork \in [Env -> ForkType]
  BY DEF TypeOK, ForkType
<1>3. fork' = [fork EXCEPT ![e].at = at,
                           ![e].perm = IF at = "scan" THEN {} ELSE perm,
                           ![e].va = IF at = "scan" THEN @ + 1 ELSE @]
  BY DEF Advance
<1> HIDE DEF at
<1>4. {} \in Perm /\ fork[e].va + 1 \in 0 .. USTACKTOP /\ Va \subseteq 0 .. USTACKTOP
  BY DEF Perm, Va, USTACKTOP
<1>5. fork'[e] = [[[fork[e] EXCEPT !.at = at]
                    EXCEPT !.perm = IF at = "scan" THEN {} ELSE perm]
                    EXCEPT !.va = IF at = "scan" THEN @ + 1 ELSE @]
  BY <1>2, <1>3 DEF ForkType
<1>6. fork[e] \in ForkType
  BY <1>2
<1>7. /\ fork'[e] \in ForkType
      /\ fork'[e].child = fork[e].child /\ fork'[e].at = at
      /\ at = "scan" => fork'[e].va = fork[e].va + 1
      /\ at # "scan" => fork'[e].va = fork[e].va /\ fork'[e].perm = perm
  BY <1>1, <1>4, <1>5, <1>6 DEF ForkType
<1>8. \A f \in Env \ {e} : fork'[f] = fork[f]
  BY <1>2, <1>3
<1>9. fork' \in [Env -> ForkType]
  BY <1>2, <1>3, <1>7, <1>8
<1> QED BY <1>1, <1>7, <1>8, <1>9 DEF at

\* What is Copied only grows until fork() ends, by the page fork() is at.
LEMMA CopiedGrows ==
  ASSUME TypeOK, NEW e \in Env, fork[e].at \in {"scan", "child", "self"},
         fork'[e].at \in {"scan", "child", "self"},
         fork[e].va \in Va,
         fork'[e].va = IF fork'[e].at = "scan" THEN fork[e].va + 1 ELSE fork[e].va,
         fork[e].at = "self" => fork'[e].at # "child"
  PROVE  \A va \in Va : /\ Copied(e, va) => Copied(e, va)'
                        /\ Copied(e, va)' => Copied(e, va) \/ va = fork[e].va
BY DEF Copied, Va, USTACKTOP

\* The loop of fork() looks at a page.
LEMMA ScanStep ==
  ASSUME IInv, NEW e \in Env, Scan(e)
  PROVE  IInv'
<1> DEFINE va == fork[e].va
<1>0. /\ TypeOK /\ Unique /\ OwnMemory /\ ChildInv /\ LibInv
      /\ ShapeOf(e) /\ ForkOf(e) /\ CowOf(e) /\ Registered
  BY DEF IInv, Shape, ForkInv, CowInv
<1>1. /\ e \in runnable /\ cow[e].at = "none" /\ fork[e].at = "scan"
      /\ "D" \in pt[e][STACK].perm
      /\ UNCHANGED <<live, runnable, env_user_tlb_mod_entry, pt, content, cow, view,
                     failed, panicked>>
  BY DEF Scan, AtCall, Main, Writable, envvars
<1>2. /\ fork \in [Env -> ForkType] /\ va \in Va \cup {USTACKTOP}
      /\ pt[e][UCOW] = Unmapped /\ e \in env_user_tlb_mod_entry
  BY <1>0, <1>1 DEF TypeOK, ForkType, Va, USTACKTOP, ForkOf, CowOf
<1>3. /\ fork' \in [Env -> ForkType]
      /\ \A f \in Env \ {e} : fork'[f] = fork[f]
      /\ fork'[e].child = fork[e].child
      /\ \/ va = USTACKTOP /\ fork'[e].at = "entry"
         \/ va \in Va /\ ~Mapped(e, va) /\ fork'[e].at = "scan" /\ fork'[e].va = va + 1
         \/ va \in Va /\ Mapped(e, va) /\ fork'[e].at = "child" /\ fork'[e].va = va
              /\ fork'[e].perm = pt[e][va].perm
  <2>1. CASE va = USTACKTOP /\ fork' = [fork EXCEPT ![e].at = LoopEnd, ![e].va = 0]
    BY <1>2, <2>1 DEF ForkType, USTACKTOP, LoopEnd
  <2>2. CASE va < USTACKTOP /\ ~Mapped(e, va) /\ fork' = [fork EXCEPT ![e].va = va + 1]
    BY <1>1, <1>2, <2>2 DEF ForkType, USTACKTOP, Va
  <2>3. CASE va < USTACKTOP /\ Mapped(e, va) /\ Advance(e, pt[e][va].perm)
    <3>1. va \in Va /\ pt[e][va].perm \in Perm
      BY <1>0, <1>2, <2>3 DEF TypeOK, Entry, USTACKTOP
    <3>2. Follow("scan", pt[e][va].perm) = "child"
      BY DEF Follow
    <3> QED BY <1>0, <1>1, <2>3, <3>1, <3>2, AdvanceEffect
  <2> QED BY <2>1, <2>2, <2>3 DEF Scan
<1> HIDE DEF va
<1>4. TypeOK'
  BY <1>0, <1>1, <1>3 DEF TypeOK, ForkType
<1>5. ShapeOf(e)' /\ CowOf(e)'
  BY <1>0, <1>1, <1>3 DEF ShapeOf, CowOf, Mapped
<1>6. ForkOf(e)'
  BY <1>1, <1>2, <1>3 DEF ForkOf, Mapped
<1>7. ASSUME NEW c \in Env, fork'[e].child = c PROVE ChildOf(e, c)'
  <2>1. ChildOf(e, c) /\ ShapeOf(c)
    BY <1>0, <1>3, <1>7, CowForkAssumption DEF ChildInv, IInv, Shape
  <2>2. c \notin failed => e \notin failed
    BY <2>1 DEF ChildOf
  <2>3. \A w \in Va : Copied(e, w) => Copied(e, w)'
    BY <1>1, <1>3 DEF Copied, Va, USTACKTOP, va
  <2>4. \A w \in Va : Copied(e, w)' => Copied(e, w) \/ (w = va /\ ~Mapped(e, va))
    BY <1>1, <1>3 DEF Copied, Va, USTACKTOP, va
  <2>5. ASSUME c \notin failed, Copied(e, LIB)' PROVE pt[c][LIB] = pt[e][LIB]
    BY <1>0, <1>1, <2>1, <2>2, <2>4, <2>5, Places DEF ChildOf, LibInv, Mapped, Unmapped
  <2>6. ASSUME c \notin failed, NEW w \in Private, Copied(e, w)' PROVE Holds(c, w)
    <3>1. CASE Copied(e, w)
      BY <2>1, <2>6, <3>1 DEF ChildOf
    <3>2. CASE ~Copied(e, w)
      BY <1>0, <1>1, <2>1, <2>2, <2>4, <2>6, <3>2, Places DEF ChildOf, OwnMemory, Holds, Mapped
    <3> QED BY <3>1, <3>2
  <2>7. ASSUME NEW w \in Private, Holds(c, w) PROVE Holds(c, w)'
    BY <1>1, <2>7 DEF Holds, Mapped
  <2>8. \A f \in Env : fork'[f].child = c => f = e
    BY <1>3, <2>1 DEF ChildOf
  <2> QED BY <1>1, <1>3, <2>1, <2>3, <2>5, <2>6, <2>7, <2>8 DEF ChildOf
<1>8. e \notin failed => \A w \in Private : Holds(e, w)'
  BY <1>0, <1>1 DEF OwnMemory, Holds, Mapped
<1>9. \A w \in Va : "COW" \in pt'[e][w].perm => e \in env_user_tlb_mod_entry'
  BY <1>0, <1>1 DEF Registered
<1>10. Unique'
  BY <1>0, <1>1, <1>3 DEF Unique, Owns
<1> QED BY <1>1, <1>3, <1>4, <1>5, <1>6, <1>7, <1>8, <1>9, <1>10, OwnStep

\* duppage maps the page again in the parent: it may not be written there any
\* more.
LEMMA DupSelfStep ==
  ASSUME IInv, NEW e \in Env, DupSelf(e)
  PROVE  IInv'
<1> DEFINE va == fork[e].va
           q  == pt[e][va].page
<1>0. /\ TypeOK /\ Unique /\ OwnMemory /\ ChildInv /\ LibInv
      /\ ShapeOf(e) /\ ForkOf(e) /\ CowOf(e) /\ Registered
  BY DEF IInv, Shape, ForkInv, CowInv
<1>1. /\ e \in runnable /\ cow[e].at = "none" /\ fork[e].at = "self"
      /\ pt' = [pt EXCEPT ![e][va] = [page |-> q, perm |-> DupPerm(fork[e].perm)]]
      /\ Drop
      /\ Advance(e, fork[e].perm)
      /\ UNCHANGED <<live, runnable, env_user_tlb_mod_entry, cow, view, failed, panicked>>
  BY DEF DupSelf, AtCall, Main, sys_mem_map, envvars
<1>2. /\ fork \in [Env -> ForkType] /\ va \in Va \ {UCOW}
      /\ pt[e][va] # Unmapped /\ q \in Page
      /\ pt[e][va].perm = fork[e].perm /\ fork[e].perm \in Perm
      /\ "D" \in pt[e][va].perm /\ "LIBRARY" \notin pt[e][va].perm
      /\ DupPerm(fork[e].perm) = {"COW"}
      /\ e \in env_user_tlb_mod_entry
  BY <1>0, <1>1 DEF TypeOK, ForkType, ForkOf, Mapped, ShapeOf, Cowable, DupPerm
<1>3. /\ fork' \in [Env -> ForkType]
      /\ \A f \in Env \ {e} : fork'[f] = fork[f]
      /\ fork'[e].child = fork[e].child
      /\ fork'[e].at = "scan" /\ fork'[e].va = va + 1
  <2>1. Follow("self", fork[e].perm) = "scan"
    BY DEF Follow
  <2> QED BY <1>0, <1>1, <1>2, <2>1, AdvanceEffect
<1>4. [page |-> q, perm |-> {"COW"}] \in Entry
  BY <1>2 DEF Entry, Perm
<1> HIDE DEF va, q
<1>5. /\ pt' \in [Env -> [Va -> Entry]]
      /\ pt'[e][va] = [page |-> q, perm |-> {"COW"}]
      /\ \A w \in Va \ {va} : pt'[e][w] = pt[e][w]
      /\ \A f \in Env \ {e} : pt'[f] = pt[f]
  BY <1>0, <1>1, <1>2, <1>4 DEF TypeOK
<1>5a. \A f \in Env, w \in Va : pt'[f][w].page = pt[f][w].page
  BY <1>5 DEF q
<1>6. /\ content' \in [Page -> Val]
      /\ \A f \in Env, w \in Va : pt[f][w].page \in Page =>
           content'[pt[f][w].page] = content[pt[f][w].page]
  BY <1>0, <1>1, <1>5a, DropEffect
<1>7. TypeOK'
  BY <1>0, <1>1, <1>3, <1>5, <1>6 DEF TypeOK, ForkType
<1>8. ShapeOf(e)'
  <2>1. e \in live'
    BY <1>0, <1>1 DEF TypeOK
  <2> QED BY <1>0, <1>1, <1>2, <1>5, <2>1 DEF ShapeOf
<1>9. ForkOf(e)'
  BY <1>1, <1>2, <1>3 DEF ForkOf
<1>10. CowOf(e)'
  BY <1>0, <1>1, <1>2, <1>5 DEF CowOf, Mapped
<1>11. e \notin failed => pt'[e][LIB] = pt[e][LIB]
  BY <1>0, <1>1, <1>2, <1>5, Places DEF LibInv
<1>12. ASSUME e \notin failed, NEW w \in Private PROVE Holds(e, w)'
  <2>1. Holds(e, w) /\ w \in Va
    BY <1>0, <1>1, <1>12, Places DEF OwnMemory, Holds
  <2>2. CASE w = va
    BY <1>1, <1>2, <1>5, <1>6, <2>1, <2>2, CowForkAssumption DEF Holds, Mapped, Unmapped, q
  <2>3. CASE w # va
    BY <1>0, <1>1, <1>5, <1>6, <2>1, <2>3, HoldsFrame
  <2> QED BY <2>2, <2>3
<1>13. ASSUME NEW c \in Env, fork'[e].child = c PROVE ChildOf(e, c)'
  <2>1. ChildOf(e, c) /\ ShapeOf(c)
    BY <1>0, <1>3, <1>13, CowForkAssumption DEF ChildInv, IInv, Shape
  <2>2. c # e /\ pt'[c] = pt[c] /\ (c \notin failed => e \notin failed)
    BY <1>1, <1>5, <2>1 DEF ChildOf
  <2>3. \A w \in Va : Copied(e, w)' <=> Copied(e, w)
    BY <1>1, <1>2, <1>3 DEF Copied, Va, USTACKTOP, va
  <2>4. ASSUME NEW w \in Private, Holds(c, w) PROVE Holds(c, w)'
    BY <1>1, <1>6, <2>1, <2>2, <2>4, Places, HoldsFrame
  <2>5. \A f \in Env : fork'[f].child = c => f = e
    BY <1>3, <2>1 DEF ChildOf
  <2> QED BY <1>1, <1>3, <1>11, <2>1, <2>2, <2>3, <2>4, <2>5, Places DEF ChildOf
<1>14. Unique'
  <2> SUFFICES ASSUME NEW f \in Env, NEW g \in Env, NEW w \in Va, NEW x \in Va,
                      Owns(f, w)', pt'[g][x].page = pt'[f][w].page,
                      ~(f = g /\ w = x)
               PROVE  \/ /\ g = f /\ cow'[f].at = "unmap"
                         /\ {w, x} \subseteq {UCOW, cow'[f].va}
                      \/ /\ fork'[f].at = "self" /\ w = fork'[f].va /\ x = w
                         /\ fork'[f].child # NoEnv /\ g = fork'[f].child
    BY DEF Unique
  <2>1. ~(f = e /\ w = va)
    BY <1>5 DEF Owns
  <2>2. Owns(f, w) /\ pt[g][x].page = pt[f][w].page
    BY <1>5, <1>5a, <2>1 DEF Owns
  <2> QED BY <1>0, <1>1, <1>3, <2>1, <2>2 DEF Unique, va
<1>15. \A w \in Va : "COW" \in pt'[e][w].perm => e \in env_user_tlb_mod_entry'
  BY <1>1, <1>2
<1> QED BY <1>1, <1>3, <1>5, <1>6, <1>7, <1>8, <1>9, <1>10, <1>11, <1>12, <1>13, <1>14,
           <1>15, OwnStep

\* A call of fork() that concerns the child c, which does not run yet, keeps
\* the invariant if it does so for e and c.
LEMMA ChildStep ==
  ASSUME IInv, TypeOK', NEW e \in Env, NEW c \in Env, ChildOf(e, c),
         UNCHANGED <<live, runnable, env_user_tlb_mod_entry, cow, view, panicked>>,
         failed \subseteq failed', failed' \subseteq failed \cup {c},
         \A f \in Env \ {e} : fork'[f] = fork[f],
         \A f \in Env \ {c} : pt'[f] = pt[f],
         pt'[c][UCOW] = pt[c][UCOW],
         \A f \in Env, w \in Va : pt[f][w].page \in Page =>
           content'[pt[f][w].page] = content[pt[f][w].page],
         fork'[e].child = c,
         ShapeOf(c)', ShapeOf(e)', ForkOf(e)', CowOf(e)', ChildOf(e, c)', Unique'
  PROVE  IInv'
<1>0. /\ TypeOK /\ Shape /\ ForkInv /\ ChildInv /\ CowInv /\ OwnMemory
      /\ LibraryShared /\ LibInv /\ Registered
  BY DEF IInv
<1>1. /\ c \in live /\ c \notin runnable /\ fork[e].at # "none"
      /\ \A f \in Env : fork[f].child = c => f = e
  BY DEF ChildOf
<1>2. fork[c] = NotForking /\ cow[c] = NoFault /\ c # e
  BY <1>0, <1>1 DEF Shape, ShapeOf, NotForking
<1>3. \A f \in Env : ShapeOf(f)' /\ ForkOf(f)' /\ CowOf(f)'
  <2> SUFFICES ASSUME NEW f \in Env \ {e} PROVE ShapeOf(f)' /\ ForkOf(f)' /\ CowOf(f)'
    OBVIOUS
  <2>1. ShapeOf(f) /\ ForkOf(f) /\ CowOf(f)
    BY <1>0 DEF Shape, ForkInv, CowInv
  <2>2. CASE f # c
    BY <2>1, <2>2, Frame
  <2>3. CASE f = c
    <3>1. ForkOf(f)'
      BY <1>2, <2>3 DEF ForkOf, NotForking
    <3>2. CowOf(f)'
      BY <1>2, <2>1, <2>3 DEF CowOf, NoFault
    <3> QED BY <2>3, <3>1, <3>2
  <2> QED BY <2>2, <2>3
<1>4. Shape' /\ ForkInv' /\ CowInv'
  BY <1>3 DEF Shape, ForkInv, CowInv
<1>5. ChildInv'
  <2> SUFFICES ASSUME NEW g \in Env, fork'[g].child # NoEnv
               PROVE  ChildOf(g, fork[g].child)'
    BY DEF ChildInv
  <2>1. PICK d \in Env : fork'[g].child = d
    BY DEF TypeOK
  <2>2. CASE g = e
    BY <2>2
  <2>3. CASE g # e
    <3>1. fork[g].child = d /\ d # NoEnv /\ ChildOf(g, d) /\ d # c /\ g # c
      BY <1>0, <1>1, <1>2, <2>1, <2>3 DEF ChildInv, NotForking
    <3>2. d \in live /\ d \notin runnable /\ ShapeOf(d)
      BY <1>0, <3>1 DEF ChildOf, Shape
    <3>3. \A f \in Env : fork'[f].child = d => fork[f].child = d
      BY <3>1
    <3>4. ChildOf(g, d)'
      BY <2>3, <3>1, <3>2, <3>3, ChildFrame, Places
    <3> QED BY <2>1, <3>4
  <2> QED BY <2>2, <2>3
<1>6. \A f \in runnable : f \in Env /\ f # c /\ pt'[f] = pt[f] /\ (f \in failed' <=> f \in failed)
  BY <1>0, <1>1 DEF TypeOK
<1>7. OwnMemory'
  <2> SUFFICES ASSUME NEW f \in runnable \ failed', NEW w \in Private
               PROVE  Holds(f, w)'
    BY DEF OwnMemory, Holds, Mapped
  <2>1. f \in Env /\ w \in Va /\ Holds(f, w) /\ ShapeOf(f)
    BY <1>0, <1>6, Places DEF OwnMemory, Holds, TypeOK, Shape
  <2> QED BY <1>6, <2>1, HoldsFrame
<1>8. LibraryShared' /\ LibInv' /\ Registered'
  BY <1>0, <1>6 DEF LibraryShared, LibInv, Registered
<1> QED BY <1>4, <1>5, <1>7, <1>8 DEF IInv

\* duppage maps the page in the child, where it may not be written, or marks
\* the child as failed.
LEMMA DupChildStep ==
  ASSUME IInv, NEW e \in Env, DupChild(e)
  PROVE  IInv'
<1>a. PICK va, c, q, perm : /\ va = fork[e].va /\ c = fork[e].child
                            /\ q = pt[e][va].page /\ perm = fork[e].perm
  OBVIOUS
<1>0. /\ TypeOK /\ Unique /\ OwnMemory /\ ChildInv /\ LibInv
      /\ ShapeOf(e) /\ ForkOf(e) /\ CowOf(e) /\ Registered
  BY DEF IInv, Shape, ForkInv, CowInv
<1>1. /\ e \in runnable /\ cow[e].at = "none" /\ fork[e].at = "child"
      /\ Advance(e, perm)
      /\ UNCHANGED <<live, runnable, env_user_tlb_mod_entry, cow, view, panicked>>
  BY <1>a DEF DupChild, AtCall, Main, envvars
<1>2. /\ fork \in [Env -> ForkType] /\ va \in Va \ {UCOW}
      /\ pt[e][va] # Unmapped /\ q \in Page
      /\ pt[e][va].perm = perm /\ perm \in {{"D"}, {"COW"}, {"D", "LIBRARY"}}
      /\ "LIBRARY" \in perm => va = LIB
      /\ va = STACK => "D" \in perm
      /\ e \in env_user_tlb_mod_entry /\ perm \in Perm
  BY <1>a, <1>0, <1>1 DEF TypeOK, ForkType, ForkOf, Mapped, ShapeOf
<1>3. /\ fork' \in [Env -> ForkType]
      /\ \A f \in Env \ {e} : fork'[f] = fork[f]
      /\ fork'[e].child = c
      /\ \/ Cowable(perm) /\ fork'[e].at = "self" /\ fork'[e].va = va /\ fork'[e].perm = perm
         \/ ~Cowable(perm) /\ fork'[e].at = "scan" /\ fork'[e].va = va + 1
  <2>1. Follow("child", perm) = IF Cowable(perm) THEN "self" ELSE "scan"
    BY DEF Follow
  <2> QED BY <1>a, <1>0, <1>1, <1>2, <2>1, AdvanceEffect
<1>4. \/ c # NoEnv /\ sys_mem_map(e, va, c, va, DupPerm(perm)) /\ UNCHANGED failed
      \/ c = NoEnv /\ UNCHANGED <<pt, content, failed>>
      \/ c # NoEnv /\ failed' = failed \cup {c} /\ UNCHANGED <<pt, content>>
  BY <1>a DEF DupChild
<1>5. c # NoEnv => c \in Env /\ ChildOf(e, c)
  BY <1>a, <1>0, <1>2 DEF ForkType, ChildInv
<1>6. \A w \in Va : /\ Copied(e, w) => Copied(e, w)'
                    /\ Copied(e, w)' => Copied(e, w) \/ w = va
                    /\ w = va => ~Copied(e, w)
  BY <1>a, <1>1, <1>2, <1>3 DEF Copied, Va, USTACKTOP
<1>7. pt'[e] = pt[e] => ForkOf(e)'
  BY <1>a, <1>1, <1>2, <1>3 DEF ForkOf, Mapped
<1>8. pt'[e] = pt[e] => CowOf(e)'
  BY <1>0, <1>1 DEF CowOf, Mapped
<1>9. pt'[e] = pt[e] => ShapeOf(e)'
  BY <1>0, <1>1 DEF ShapeOf
<1>10. UNCHANGED pt => Unique'
  BY <1>0, <1>1, <1>3 DEF Unique, Owns
<1>11. CASE c = NoEnv /\ UNCHANGED <<pt, content, failed>>
  <2>1. TypeOK'
    BY <1>0, <1>1, <1>3, <1>11 DEF TypeOK, ForkType
  <2>2. e \notin failed => \A w \in Private : Holds(e, w)'
    BY <1>0, <1>1, <1>11 DEF OwnMemory, Holds, Mapped
  <2>3. \A d \in Env : fork'[e].child # d
    BY <1>3, <1>11, CowForkAssumption
  <2> QED BY <1>a, <1>1, <1>2, <1>3, <1>7, <1>8, <1>9, <1>10, <1>11, <2>1, <2>2, <2>3, OwnStep
<1>12. CASE c # NoEnv /\ failed' = failed \cup {c} /\ UNCHANGED <<pt, content>>
  <2>0. c \in Env /\ ChildOf(e, c) /\ ShapeOf(c) /\ c \in live
    BY <1>5, <1>12 DEF IInv, Shape, ChildOf
  <2>1. TypeOK'
    BY <1>0, <1>1, <1>3, <1>12, <2>0 DEF TypeOK, ForkType
  <2>2. ShapeOf(c)'
    <3>1. c # e /\ fork'[c] = fork[c]
      BY <1>1, <1>3, <2>0 DEF ChildOf
    <3> QED BY <1>1, <1>12, <2>0, <3>1 DEF ShapeOf
  <2>3. \A f \in Env : fork'[f].child = c => f = e
    BY <1>3, <2>0 DEF ChildOf
  <2>4. ChildOf(e, c)'
    BY <1>1, <1>3, <1>6, <1>12, <2>0, <2>3 DEF ChildOf
  <2> QED BY <1>1, <1>2, <1>3, <1>7, <1>8, <1>9, <1>10, <1>12, <2>0, <2>1, <2>2, <2>4, ChildStep
<1>13. CASE c # NoEnv /\ sys_mem_map(e, va, c, va, DupPerm(perm)) /\ UNCHANGED failed
  <2> DEFINE dup == DupPerm(perm)
  <2>0. /\ c \in Env /\ ChildOf(e, c) /\ ShapeOf(c) /\ c \in live /\ c \notin runnable /\ c # e
        /\ pt[c][va] = Unmapped
    BY <1>1, <1>2, <1>5, <1>6, <1>13 DEF IInv, Shape, ChildOf
  <2>1. /\ pt' = [pt EXCEPT ![c][va] = [page |-> q, perm |-> dup]]
        /\ Drop
    BY <1>a, <1>13 DEF sys_mem_map
  <2>2. /\ dup \in {{"COW"}, {"D", "LIBRARY"}}
        /\ Cowable(perm) => dup = {"COW"}
        /\ ~Cowable(perm) => dup = perm
        /\ "LIBRARY" \in dup => va = LIB
    BY <1>2 DEF DupPerm, Cowable
  <2> HIDE DEF dup
  <2>3. [page |-> q, perm |-> dup] \in Entry
    BY <1>2, <2>2 DEF Entry, Perm
  <2>4. /\ pt' \in [Env -> [Va -> Entry]]
        /\ pt'[c][va] = [page |-> q, perm |-> dup]
        /\ \A w \in Va \ {va} : pt'[c][w] = pt[c][w]
        /\ \A f \in Env \ {c} : pt'[f] = pt[f]
    BY <1>0, <1>2, <2>0, <2>1, <2>3 DEF TypeOK
  <2>5. /\ content' \in [Page -> Val]
        /\ \A f \in Env, w \in Va : pt'[f][w].page \in Page =>
             content'[pt'[f][w].page] = content[pt'[f][w].page]
    BY <1>0, <2>1, DropEffect
  <2>6. \A f \in Env, w \in Va : pt[f][w].page \in Page =>
             content'[pt[f][w].page] = content[pt[f][w].page]
    <3>1. pt[c][va].page \notin Page
      BY <2>0, CowForkAssumption DEF Unmapped
    <3> QED BY <2>4, <2>5, <3>1
  <2>7. TypeOK'
    BY <1>0, <1>1, <1>3, <1>13, <2>4, <2>5 DEF TypeOK, ForkType
  <2>8. ShapeOf(c)'
    <3>1. fork'[c] = fork[c] /\ pt'[c][va].page \in Page
      BY <1>2, <1>3, <2>0, <2>4
    <3> QED BY <1>1, <1>2, <2>0, <2>2, <2>4, <3>1 DEF ShapeOf
  <2>9. ChildOf(e, c)'
    <3>1. c \notin failed => e \notin failed
      BY <2>0 DEF ChildOf
    <3>2. \A f \in Env : fork'[f].child = c => f = e
      BY <1>3, <2>0 DEF ChildOf
    <3>3. \A w \in Va : ~Copied(e, w)' => pt'[c][w] = Unmapped
      <4>1. Copied(e, va)'
        BY <1>a, <1>2, <1>3 DEF Copied, Va, USTACKTOP
      <4> QED BY <1>6, <2>0, <2>4, <4>1 DEF ChildOf
    <3>4. ASSUME c \notin failed, Copied(e, LIB)' PROVE pt'[c][LIB] = pt'[e][LIB]
      <4>1. CASE LIB = va
        <5>1. "LIBRARY" \in pt[e][LIB].perm
          BY <1>0, <1>1, <3>1, <3>4 DEF LibInv
        <5>2. dup = perm /\ pt'[e][LIB].perm = perm /\ pt'[e][LIB].page = q
          BY <1>a, <1>2, <2>0, <2>2, <2>4, <4>1, <5>1, Places DEF Cowable
        <5>3. pt'[e][LIB] \in [page : Page \cup {NoPage}, perm : Perm]
          BY <2>4, Places DEF Entry
        <5>4. pt'[e][LIB] = [page |-> q, perm |-> perm]
          BY <5>2, <5>3
        <5> QED BY <2>4, <4>1, <5>2, <5>4
      <4>2. CASE LIB # va
        BY <1>6, <2>0, <2>4, <3>4, <4>2, Places DEF ChildOf
      <4> QED BY <4>1, <4>2
    <3>5. ASSUME c \notin failed, NEW w \in Private, Copied(e, w)' PROVE Holds(c, w)'
      <4>0. w \in Va
        BY Places
      <4>1. CASE w = va
        <5>1. Holds(e, w) /\ view[c][w] = view[e][w]
          BY <1>0, <1>1, <2>0, <3>1, <3>5, <4>0 DEF OwnMemory, Holds, ChildOf
        <5>2. content[q] = view[c][w]
          BY <1>a, <1>2, <4>1, <5>1 DEF Holds, Mapped
        <5>3. content'[q] = content[q]
          BY <1>2, <2>0, <2>4, <2>5
        <5> QED BY <1>1, <1>2, <2>4, <4>1, <5>2, <5>3, CowForkAssumption DEF Holds, Mapped, Unmapped
      <4>2. CASE w # va
        <5>1. Holds(c, w)
          BY <1>6, <2>0, <3>5, <4>0, <4>2 DEF ChildOf
        <5> QED BY <1>1, <2>0, <2>4, <2>6, <4>0, <4>2, <5>1, HoldsFrame
      <4> QED BY <4>1, <4>2
    <3> QED BY <1>1, <1>3, <1>13, <2>0, <3>1, <3>2, <3>3, <3>4, <3>5 DEF ChildOf
  <2>10. Unique'
    <3> SUFFICES ASSUME NEW f \in Env, NEW g \in Env, NEW w \in Va, NEW x \in Va,
                        Owns(f, w)', pt'[g][x].page = pt'[f][w].page,
                        ~(f = g /\ w = x)
                 PROVE  \/ /\ g = f /\ cow'[f].at = "unmap"
                           /\ {w, x} \subseteq {UCOW, cow'[f].va}
                        \/ /\ fork'[f].at = "self" /\ w = fork'[f].va /\ x = w
                           /\ fork'[f].child # NoEnv /\ g = fork'[f].child
      BY DEF Unique
    <3>1. ~(f = c /\ w = va)
      BY <2>2, <2>4 DEF Owns
    <3>2. Owns(f, w) /\ pt'[f][w] = pt[f][w]
      BY <2>4, <3>1 DEF Owns
    <3>3. CASE g = c /\ x = va
      <4>1. pt[e][va].page = pt[f][w].page
        BY <1>a, <2>4, <3>2, <3>3
      <4>2. fork[f].child # NoEnv => fork[f].child # e
        BY <1>0, <1>1, <1>2 DEF ChildInv, ChildOf, ForkType
      <4>3. f = e /\ w = va
        BY <1>0, <1>1, <1>2, <3>2, <4>1, <4>2 DEF Unique
      <4>4. Cowable(perm)
        BY <1>2, <3>2, <4>3 DEF Owns, Cowable
      <4> QED BY <1>3, <1>13, <3>3, <4>3, <4>4
    <3>4. CASE ~(g = c /\ x = va)
      <4>1. pt[g][x].page = pt[f][w].page
        BY <2>4, <3>2, <3>4
      <4> QED BY <1>0, <1>1, <1>3, <3>2, <4>1 DEF Unique
    <3> QED BY <3>3, <3>4
  <2>11. pt'[e] = pt[e] /\ pt'[c][UCOW] = pt[c][UCOW]
    BY <1>2, <2>0, <2>4, Places
  <2> QED BY <1>1, <1>3, <1>7, <1>8, <1>9, <1>13, <2>0, <2>4, <2>6, <2>7, <2>8, <2>9,
             <2>10, <2>11, ChildStep
<1> QED BY <1>4, <1>11, <1>12, <1>13

\* syscall_exofork: a child without memory, or none.
LEMMA ForkStartStep ==
  ASSUME IInv, NEW e \in Env, ForkStart(e)
  PROVE  IInv'
<1>0. /\ TypeOK /\ Shape /\ ForkInv /\ ChildInv /\ CowInv /\ Unique /\ OwnMemory
      /\ LibraryShared /\ LibInv /\ Registered /\ ShapeOf(e) /\ ForkOf(e) /\ CowOf(e)
  BY DEF IInv, Shape, ForkInv, CowInv
<1>1. /\ e \in runnable /\ cow[e].at = "none" /\ fork[e].at = "none"
      /\ env_user_tlb_mod_entry' = env_user_tlb_mod_entry \cup {e}
      /\ UNCHANGED <<runnable, pt, content, cow, panicked>>
  BY DEF ForkStart, AtCall, Main
<1>2. /\ fork \in [Env -> ForkType] /\ e \in live
      /\ fork[e] = [at |-> "none", va |-> 0, child |-> NoEnv, perm |-> {}]
      /\ cow[e] = NoFault
  BY <1>0, <1>1 DEF TypeOK, ForkType, ForkOf, NotForking, CowOf
<1>3. CASE fork' = [fork EXCEPT ![e].at = "scan"] /\ UNCHANGED <<live, view, failed>>
  <2>1. /\ fork' \in [Env -> ForkType]
        /\ fork'[e].at = "scan" /\ fork'[e].child = NoEnv
        /\ \A f \in Env \ {e} : fork'[f] = fork[f]
    <3>1. fork \in [Env -> ForkType] /\ fork[e].child = NoEnv
      BY <1>2
    <3> QED BY <1>3, <3>1 DEF ForkType
  <2>2. TypeOK'
    BY <1>0, <1>1, <1>2, <1>3, <2>1 DEF TypeOK, ForkType
  <2>3. ShapeOf(e)' /\ ForkOf(e)' /\ CowOf(e)'
    BY <1>0, <1>1, <1>2, <1>3, <2>1 DEF ShapeOf, ForkOf, CowOf, Mapped
  <2>4. e \notin failed => \A w \in Private : Holds(e, w)'
    BY <1>0, <1>1, <1>3 DEF OwnMemory, Holds, Mapped
  <2>5. \A c \in Env : fork'[e].child # c
    BY <2>1, CowForkAssumption
  <2>6. Unique'
    BY <1>0, <1>1, <2>1 DEF Unique, Owns
  <2> QED BY <1>1, <1>2, <1>3, <2>1, <2>2, <2>3, <2>4, <2>5, <2>6, OwnStep
<1>4. ASSUME NEW c \in Env \ live,
             live' = live \cup {c},
             view' = [view EXCEPT ![c] = view[e]],
             failed' = IF e \in failed THEN failed \cup {c} ELSE failed,
             fork' = [fork EXCEPT ![e].at = "scan", ![e].child = c]
      PROVE  IInv'
  <2>1. /\ fork' \in [Env -> ForkType]
        /\ fork'[e].at = "scan" /\ fork'[e].child = c /\ fork'[e].va = 0
        /\ \A f \in Env \ {e} : fork'[f] = fork[f]
    <3>1. fork \in [Env -> ForkType] /\ fork[e].va = 0
      BY <1>2
    <3> QED BY <1>4, <3>1 DEF ForkType
  <2>2. /\ view' \in [Env -> [Va -> Val]]
        /\ view'[c] = view[e] /\ \A f \in Env \ {c} : view'[f] = view[f]
    BY <1>0, <1>4 DEF TypeOK
  <2>3. TypeOK'
    <3>1. failed' \subseteq live'
      BY <1>0, <1>4 DEF TypeOK
    <3> QED BY <1>0, <1>1, <1>2, <1>4, <2>1, <2>2, <3>1 DEF TypeOK, ForkType
  <2>4. c # e /\ c \notin runnable /\ \A f \in runnable : f \in Env /\ f # c
    BY <1>0, <1>1, <1>2 DEF TypeOK
  <2>5. \A f \in Env : ShapeOf(f)'
    BY <1>0, <1>1, <1>4, <2>1 DEF Shape, ShapeOf
  <2>6. \A f \in Env : ForkOf(f)'
    BY <1>0, <1>1, <2>1 DEF ForkInv, ForkOf, Mapped
  <2>7. \A f \in Env : CowOf(f)'
    BY <1>0, <1>1, <2>1 DEF CowInv, CowOf, Mapped
  <2>8. \A f \in Env : fork[f].child # c
    <3>1. ASSUME NEW f \in Env, fork[f].child = c PROVE FALSE
      <4>1. ChildOf(f, c)
        BY <1>0, <3>1, CowForkAssumption DEF ChildInv
      <4> QED BY <4>1 DEF ChildOf
    <3> QED BY <3>1
  <2>9. ChildOf(e, c)'
    <3>1. \A w \in Va : pt[c][w] = Unmapped
      BY <1>0 DEF Shape, ShapeOf
    <3>2. \A w \in Va : ~Copied(e, w)'
      BY <2>1 DEF Copied, Va, USTACKTOP
    <3>3. \A f \in Env : fork'[f].child = c => f = e
      BY <2>1, <2>8
    <3>4. \A w \in Va : view'[c][w] = view'[e][w]
      BY <2>2, <2>4
    <3> QED BY <1>1, <1>4, <2>1, <2>4, <3>1, <3>2, <3>3, <3>4, Places DEF ChildOf
  <2>10. ASSUME NEW g \in Env, NEW d \in Env, g # e, fork'[g].child = d
         PROVE  ChildOf(g, d)'
    <3>1. fork'[g] = fork[g] /\ fork[g].child = d /\ d # c
      BY <2>1, <2>8, <2>10
    <3>2. ChildOf(g, d) /\ ShapeOf(d)
      BY <1>0, <3>1, CowForkAssumption DEF ChildInv, Shape
    <3>3. d \in live' /\ d \notin runnable' /\ g # c
      <4>1. g \in runnable
        BY <1>0, <3>1, <3>2 DEF ChildOf, Shape, ShapeOf, NotForking
      <4> QED BY <1>1, <1>4, <2>4, <3>2, <4>1 DEF ChildOf
    <3>4. \A f \in Env : fork'[f].child = d => fork[f].child = d
      BY <2>1, <3>1
    <3> QED BY <1>1, <1>4, <2>2, <2>10, <3>1, <3>2, <3>3, <3>4, ChildFrame
  <2>11. ChildInv'
    <3> SUFFICES ASSUME NEW g \in Env, fork'[g].child # NoEnv
                 PROVE  ChildOf(g, fork[g].child)'
      BY DEF ChildInv
    <3>1. PICK d \in Env : fork'[g].child = d
      BY <2>1 DEF ForkType
    <3>2. CASE g = e
      BY <2>1, <2>9, <3>2
    <3>3. CASE g # e
      BY <2>10, <3>1, <3>3
    <3> QED BY <3>2, <3>3
  <2>12. Unique'
    BY <1>0, <1>1, <2>1 DEF Unique, Owns
  <2>13. \A f \in runnable : f \in failed' <=> f \in failed
    BY <1>4, <2>4
  <2>14. OwnMemory'
    BY <1>0, <1>1, <2>2, <2>4, <2>13 DEF OwnMemory, Mapped
  <2>15. LibraryShared' /\ LibInv' /\ Registered'
    BY <1>0, <1>1, <2>13 DEF LibraryShared, LibInv, Registered
  <2>16. Shape' /\ ForkInv' /\ CowInv'
    BY <2>5, <2>6, <2>7 DEF Shape, ForkInv, CowInv
  <2> QED BY <2>3, <2>11, <2>12, <2>14, <2>15, <2>16 DEF IInv
<1> QED BY <1>3, <1>4 DEF ForkStart

\* The child gets its handler.
LEMMA SetEntryStep ==
  ASSUME IInv, NEW e \in Env, SetEntry(e)
  PROVE  IInv'
<1>0. /\ TypeOK /\ Unique /\ OwnMemory /\ ChildInv
      /\ ShapeOf(e) /\ ForkOf(e) /\ CowOf(e) /\ Registered
  BY DEF IInv, Shape, ForkInv, CowInv
<1>1. /\ e \in runnable /\ cow[e].at = "none" /\ fork[e].at = "entry"
      /\ env_user_tlb_mod_entry' = env_user_tlb_mod_entry \cup ({fork[e].child} \ {NoEnv})
      /\ fork' = [fork EXCEPT ![e].at = "status"]
      /\ UNCHANGED <<live, runnable, pt, content, cow, view, failed, panicked>>
  BY DEF SetEntry, AtCall, Main
<1>2. fork \in [Env -> ForkType] /\ e \in env_user_tlb_mod_entry
  BY <1>0, <1>1 DEF TypeOK, ForkType, ForkOf
<1>3. /\ fork' \in [Env -> ForkType]
      /\ fork'[e].at = "status" /\ fork'[e].child = fork[e].child /\ fork'[e].va = fork[e].va
      /\ \A f \in Env \ {e} : fork'[f] = fork[f]
  BY <1>1, <1>2 DEF ForkType
<1>4. \A c \in Env : fork[e].child = c => ChildOf(e, c)
  BY <1>0, CowForkAssumption DEF ChildInv
<1>5. TypeOK'
  <2>1. fork[e].child \in Env \cup {NoEnv}
    BY <1>2 DEF ForkType
  <2>2. {fork[e].child} \ {NoEnv} \subseteq live
    BY <1>4, <2>1 DEF ChildOf
  <2> QED BY <1>0, <1>1, <1>3, <2>2 DEF TypeOK, ForkType
<1>6. ShapeOf(e)' /\ ForkOf(e)' /\ CowOf(e)'
  BY <1>0, <1>1, <1>2, <1>3 DEF ShapeOf, ForkOf, CowOf, Mapped
<1>7. ASSUME NEW c \in Env, fork'[e].child = c PROVE ChildOf(e, c)'
  <2>1. ChildOf(e, c) /\ c \in env_user_tlb_mod_entry'
    BY <1>1, <1>3, <1>4, <1>7, CowForkAssumption
  <2>2. \A w \in Va : Copied(e, w)' /\ Copied(e, w)
    BY <1>1, <1>3 DEF Copied
  <2>3. \A f \in Env : fork'[f].child = c => f = e
    BY <1>3, <2>1 DEF ChildOf
  <2> QED BY <1>1, <1>3, <2>1, <2>2, <2>3, Places DEF ChildOf, Holds, Mapped
<1>8. e \notin failed => \A w \in Private : Holds(e, w)'
  BY <1>0, <1>1 DEF OwnMemory, Holds, Mapped
<1>9. Unique'
  BY <1>0, <1>1, <1>3 DEF Unique, Owns
<1> QED BY <1>1, <1>2, <1>3, <1>5, <1>6, <1>7, <1>8, <1>9, OwnStep

\* The child runs: it has all its pages, or is marked as failed.
LEMMA SetStatusStep ==
  ASSUME IInv, NEW e \in Env, SetStatus(e)
  PROVE  IInv'
<1>0. /\ TypeOK /\ Shape /\ ForkInv /\ ChildInv /\ CowInv /\ Unique /\ OwnMemory
      /\ LibraryShared /\ LibInv /\ Registered /\ ShapeOf(e) /\ ForkOf(e) /\ CowOf(e)
  BY DEF IInv, Shape, ForkInv, CowInv
<1>1. /\ e \in runnable /\ cow[e].at = "none" /\ fork[e].at = "status"
      /\ runnable' = runnable \cup ({fork[e].child} \ {NoEnv})
      /\ fork' = [fork EXCEPT ![e] = NotForking]
      /\ UNCHANGED <<live, env_user_tlb_mod_entry, pt, content, cow, view, failed, panicked>>
  BY DEF SetStatus, AtCall, Main
<1>2. fork \in [Env -> ForkType] /\ NotForking \in ForkType
  <2>1. fork \in [Env -> ForkType]
    BY <1>0 DEF TypeOK, ForkType
  <2>2. NotForking \in ForkType
    BY DEF ForkType, NotForking, USTACKTOP, Perm
  <2> QED BY <2>1, <2>2
<1>3. /\ fork' \in [Env -> ForkType]
      /\ fork'[e] = NotForking /\ NotForking.child = NoEnv /\ NotForking.at = "none"
      /\ \A f \in Env \ {e} : fork'[f] = fork[f]
  BY <1>1, <1>2 DEF NotForking
<1>4. CASE fork[e].child = NoEnv
  <2>1. runnable' = runnable
    BY <1>1, <1>4
  <2>2. TypeOK'
    BY <1>0, <1>1, <1>3, <2>1 DEF TypeOK, ForkType
  <2>3. ShapeOf(e)' /\ ForkOf(e)' /\ CowOf(e)'
    BY <1>0, <1>1, <1>3, <2>1 DEF ShapeOf, ForkOf, CowOf, Mapped
  <2>4. e \notin failed => \A w \in Private : Holds(e, w)'
    BY <1>0, <1>1 DEF OwnMemory, Holds, Mapped
  <2>5. \A c \in Env : fork'[e].child # c
    BY <1>3, CowForkAssumption
  <2>6. Unique'
    BY <1>0, <1>1, <1>3 DEF Unique, Owns
  <2>7. \A w \in Va : "COW" \in pt'[e][w].perm => e \in env_user_tlb_mod_entry'
    BY <1>0, <1>1 DEF Registered
  <2> QED BY <1>1, <1>3, <1>4, <2>1, <2>2, <2>3, <2>4, <2>5, <2>6, <2>7, OwnStep
<1>5. ASSUME NEW c \in Env, fork[e].child = c PROVE IInv'
  <2>1. ChildOf(e, c) /\ runnable' = runnable \cup {c}
    BY <1>0, <1>1, <1>5, CowForkAssumption DEF ChildInv
  <2>2. /\ c \in live /\ c \notin runnable /\ c # e
        /\ \A f \in Env : fork[f].child = c => f = e
        /\ e \in failed => c \in failed
        /\ c \in env_user_tlb_mod_entry
        /\ c \notin failed => pt[c][LIB] = pt[e][LIB] /\ \A w \in Private : Holds(c, w)
    BY <1>1, <2>1, Places DEF ChildOf, Copied
  <2>3. TypeOK'
    BY <1>0, <1>1, <1>3, <2>1, <2>2 DEF TypeOK, ForkType
  <2>4. Shape'
    BY <1>0, <1>1, <1>3, <2>1 DEF Shape, ShapeOf
  <2>5. ForkInv'
    BY <1>0, <1>1, <1>3 DEF ForkInv, ForkOf, Mapped
  <2>6. CowInv'
    BY <1>0, <1>1, <1>3 DEF CowInv, CowOf, Mapped
  <2>7. ChildInv'
    <3> SUFFICES ASSUME NEW g \in Env, fork'[g].child # NoEnv
                 PROVE  ChildOf(g, fork[g].child)'
      BY DEF ChildInv
    <3>1. PICK d \in Env : fork'[g].child = d
      BY <1>3 DEF ForkType
    <3>2. g # e /\ fork'[g] = fork[g] /\ fork[g].child = d /\ d # c /\ d # NoEnv
      BY <1>3, <2>2, <3>1
    <3>3. ChildOf(g, d) /\ ShapeOf(d)
      BY <1>0, <3>2 DEF ChildInv, Shape
    <3>4. d \in live' /\ d \notin runnable'
      BY <1>1, <2>1, <3>2, <3>3 DEF ChildOf
    <3>5. \A f \in Env : fork'[f].child = d => fork[f].child = d
      BY <1>3, <3>2
    <3>6. ChildOf(g, d)'
      BY <1>1, <3>2, <3>3, <3>4, <3>5, ChildFrame
    <3> QED BY <3>1, <3>6
  <2>8. Unique'
    BY <1>0, <1>1, <1>3 DEF Unique, Owns
  <2>9. OwnMemory'
    BY <1>0, <1>1, <2>1, <2>2 DEF OwnMemory, Holds, Mapped
  <2>10. LibraryShared' /\ LibInv'
    BY <1>0, <1>1, <2>1, <2>2 DEF LibraryShared, LibInv
  <2>11. Registered'
    BY <1>0, <1>1, <2>1, <2>2 DEF Registered
  <2> QED BY <2>3, <2>4, <2>5, <2>6, <2>7, <2>8, <2>9, <2>10, <2>11 DEF IInv
<1>6. fork[e].child \in Env \cup {NoEnv}
  BY <1>2 DEF ForkType
<1> QED BY <1>4, <1>5, <1>6

-----------------------------------------------------------------------------
\* A program that ends takes only its own mappings with it.
LEMMA DestroyStep ==
  ASSUME IInv, NEW e \in Env, env_destroy(e)
  PROVE  IInv'
<1>0. /\ TypeOK /\ Shape /\ ForkInv /\ ChildInv /\ CowInv /\ Unique /\ OwnMemory
      /\ LibraryShared /\ LibInv /\ Registered
  BY DEF IInv
<1>1. /\ e \in runnable
      /\ live' = live \ {e}
      /\ runnable' = runnable \ {e}
      /\ env_user_tlb_mod_entry' = env_user_tlb_mod_entry \ {e}
      /\ pt' = [pt EXCEPT ![e] = [va \in Va |-> Unmapped]]
      /\ fork' = [fork EXCEPT ![e] = NotForking]
      /\ cow' = [cow EXCEPT ![e] = NoFault]
      /\ view' = [view EXCEPT ![e] = [va \in Va |-> 0]]
      /\ failed' = failed \ {e}
      /\ Drop
      /\ UNCHANGED panicked
  BY DEF env_destroy
<1>2. /\ NotForking \in ForkType /\ Unmapped \in Entry /\ 0 \in Val
      /\ NoFault \in [at : {"none", "alloc", "copy", "map", "unmap"}, va : Va]
  BY CowForkAssumption DEF ForkType, NotForking, USTACKTOP, Perm, Entry, Unmapped, NoFault, Va
<1>3. /\ pt' \in [Env -> [Va -> Entry]]
      /\ \A w \in Va : pt'[e][w] = Unmapped
      /\ fork' \in [Env -> ForkType] /\ fork'[e] = NotForking
      /\ cow' \in [Env -> [at : {"none", "alloc", "copy", "map", "unmap"}, va : Va]]
      /\ cow'[e] = NoFault
      /\ view' \in [Env -> [Va -> Val]]
  BY <1>0, <1>1, <1>2 DEF TypeOK, ForkType
<1>4. \A f \in Env \ {e} : /\ pt'[f] = pt[f] /\ fork'[f] = fork[f]
                           /\ cow'[f] = cow[f] /\ view'[f] = view[f]
  BY <1>0, <1>1 DEF TypeOK
<1>5. /\ content' \in [Page -> Val]
      /\ \A f \in Env \ {e}, w \in Va : pt[f][w].page \in Page =>
           content'[pt[f][w].page] = content[pt[f][w].page]
  BY <1>0, <1>1, <1>4, DropEffect
<1>6. TypeOK'
  BY <1>0, <1>1, <1>3, <1>5 DEF TypeOK, ForkType
<1>7. \A f \in Env : ShapeOf(f)' /\ ForkOf(f)' /\ CowOf(f)'
  <2> TAKE f \in Env
  <2>1. CASE f # e
    <3>1. ShapeOf(f) /\ ForkOf(f) /\ CowOf(f)
      BY <1>0 DEF Shape, ForkInv, CowInv
    <3> QED BY <1>1, <1>4, <1>5, <2>1, <3>1, Frame
  <2>2. CASE f = e
    <3>1. UCOW \in Va
      BY Places
    <3> QED BY <1>1, <1>3, <2>2, <3>1
            DEF ShapeOf, ForkOf, CowOf, NotForking, NoFault, Unmapped
  <2> QED BY <2>1, <2>2
<1>8. ChildInv'
  <2> SUFFICES ASSUME NEW g \in Env, fork'[g].child # NoEnv
               PROVE  ChildOf(g, fork[g].child)'
    BY DEF ChildInv
  <2>1. PICK d \in Env : fork'[g].child = d
    BY <1>3 DEF ForkType
  <2>2. g # e /\ fork'[g] = fork[g] /\ fork[g].child = d /\ d # NoEnv
    BY <1>3, <1>4, <2>1 DEF NotForking
  <2>3. ChildOf(g, d) /\ ShapeOf(d)
    BY <1>0, <2>2 DEF ChildInv, Shape
  <2>4. d # e /\ d \in live' /\ d \notin runnable'
    BY <1>1, <2>3 DEF ChildOf
  <2>5. \A f \in Env : fork'[f].child = d => fork[f].child = d
    BY <1>3, <1>4, <2>2 DEF NotForking
  <2>6. ChildOf(g, d)'
    BY <1>1, <1>4, <1>5, <2>2, <2>3, <2>4, <2>5, ChildFrame
  <2> QED BY <2>1, <2>6
<1>9. Unique'
  <2> SUFFICES ASSUME NEW f \in Env, NEW g \in Env, NEW w \in Va, NEW x \in Va,
                      Owns(f, w)', pt'[g][x].page = pt'[f][w].page,
                      ~(f = g /\ w = x)
               PROVE  \/ /\ g = f /\ cow'[f].at = "unmap"
                         /\ {w, x} \subseteq {UCOW, cow'[f].va}
                      \/ /\ fork'[f].at = "self" /\ w = fork'[f].va /\ x = w
                         /\ fork'[f].child # NoEnv /\ g = fork'[f].child
    BY DEF Unique
  <2>1. f # e
    BY <1>3 DEF Owns, Unmapped
  <2>2. Owns(f, w) /\ pt'[f][w] = pt[f][w] /\ ShapeOf(f)
    BY <1>0, <1>4, <2>1 DEF Owns, Shape
  <2>3. pt[f][w].page # NoPage
    BY <2>2, CowForkAssumption DEF ShapeOf, Owns, Unmapped
  <2>4. g # e
    BY <1>3, <2>2, <2>3 DEF Unmapped
  <2>5. pt[g][x].page = pt[f][w].page
    BY <1>4, <2>2, <2>4
  <2> QED BY <1>0, <1>4, <2>1, <2>2, <2>5 DEF Unique
<1>10. OwnMemory'
  <2> SUFFICES ASSUME NEW f \in runnable' \ failed', NEW w \in Private
               PROVE  Holds(f, w)'
    BY DEF OwnMemory, Holds, Mapped
  <2>1. f \in Env \ {e} /\ w \in Va /\ Holds(f, w) /\ ShapeOf(f)
    BY <1>0, <1>1, Places DEF OwnMemory, Holds, TypeOK, Shape
  <2> QED BY <1>4, <1>5, <2>1, HoldsFrame
<1>11. LibraryShared' /\ LibInv' /\ Registered'
  <2>1. \A f \in runnable' : f \in Env \ {e} /\ pt'[f] = pt[f]
    BY <1>0, <1>1, <1>4 DEF TypeOK
  <2> QED BY <1>0, <1>1, <2>1 DEF LibraryShared, LibInv, Registered
<1>12. Shape' /\ ForkInv' /\ CowInv'
  BY <1>7 DEF Shape, ForkInv, CowInv
<1> QED BY <1>6, <1>8, <1>9, <1>10, <1>11, <1>12 DEF IInv

-----------------------------------------------------------------------------
(* The theorems *)

\* Every step keeps the invariant.
LEMMA NextIInv ==
  ASSUME IInv, [Next]_vars
  PROVE  IInv'
<1>1. CASE UNCHANGED vars
  <2>1. UNCHANGED <<live, runnable, env_user_tlb_mod_entry, pt, content, fork, cow, view,
                    failed, panicked>>
    BY <1>1 DEF vars, envvars
  <2>2. TypeOK' /\ Shape' /\ ForkInv'
    <3>1. TypeOK'
      BY <2>1 DEF IInv, TypeOK
    <3>2. Shape'
      BY <2>1 DEF IInv, Shape, ShapeOf
    <3>3. ForkInv'
      BY <2>1 DEF IInv, ForkInv, ForkOf, Mapped
    <3> QED BY <3>1, <3>2, <3>3
  <2>3. ChildInv'
    <3>1. ChildInv
      BY DEF IInv
    <3> QED BY <2>1, <3>1 DEF ChildInv, ChildOf, Copied, Holds, Mapped
  <2>4. CowInv'
    <3>1. CowInv
      BY DEF IInv
    <3> QED BY <2>1, <3>1 DEF CowInv, CowOf, Mapped
  <2>5. Unique' /\ OwnMemory'
    BY <2>1 DEF IInv, Unique, Owns, OwnMemory, Mapped
  <2>6. LibraryShared' /\ LibInv' /\ Registered'
    BY <2>1 DEF IInv, LibraryShared, LibInv, Registered
  <2> QED BY <2>2, <2>3, <2>4, <2>5, <2>6 DEF IInv
<1>2. CASE Next
  <2> PICK e \in Env :
        \/ Continue(e)
        \/ ForkStart(e)
        \/ env_destroy(e)
        \/ \E va \in Va \ {UCOW} : Touch(e, va) \/ do_tlb_mod(e, va)
        \/ \E va \in Private, v \in Val : Write(e, va, v)
    BY <1>2 DEF Next
  <2>1. CASE \E va \in Va \ {UCOW} : Touch(e, va) \/ do_tlb_mod(e, va)
    BY <2>1, TouchStep, ModStep
  <2>2. CASE \E va \in Private, v \in Val : Write(e, va, v)
    BY <2>2, WriteStep
  <2>3. CASE ForkStart(e)
    BY <2>3, ForkStartStep
  <2>4. CASE env_destroy(e)
    BY <2>4, DestroyStep
  <2>5. CASE Continue(e)
    <3>1. CASE do_tlb_mod(e, STACK)
      BY <3>1, ModStep, Places
    <3>2. CASE Scan(e)
      BY <3>2, ScanStep
    <3>3. CASE DupChild(e)
      BY <3>3, DupChildStep
    <3>4. CASE DupSelf(e)
      BY <3>4, DupSelfStep
    <3>5. CASE SetEntry(e)
      BY <3>5, SetEntryStep
    <3>6. CASE SetStatus(e)
      BY <3>6, SetStatusStep
    <3>7. CASE CowAlloc(e)
      BY <3>7, CowAllocStep
    <3>8. CASE CowCopy(e)
      BY <3>8, CowCopyStep
    <3>9. CASE CowMap(e)
      BY <3>9, CowMapStep
    <3>10. CASE CowUnmap(e)
      BY <3>10, CowUnmapStep
    <3> QED BY <2>5, <3>1, <3>2, <3>3, <3>4, <3>5, <3>6, <3>7, <3>8, <3>9, <3>10 DEF Continue
  <2> QED BY <2>1, <2>2, <2>3, <2>4, <2>5
<1> QED BY <1>1, <1>2

\* Memory isolation, for any number of programs and pages: whatever parents,
\* children and copy handlers do in between, and whichever call fails for lack
\* of a page, each variable keeps its type and each running program that
\* fork() gave all its pages finds its own memory.
THEOREM Isolation == Spec => [](TypeOK /\ OwnMemory)
<1>1. IInv => TypeOK /\ OwnMemory
  BY DEF IInv
<1> QED BY <1>1, InitIInv, NextIInv, PTL DEF Spec

\* A page that one program can write without a fault is in no other running
\* program, unless it is shared on purpose.
THEOREM WritesArePrivate == Spec => []WritableIsPrivate
<1>1. ASSUME IInv PROVE WritableIsPrivate
  <2> SUFFICES ASSUME NEW e \in live, NEW va \in Va, Owns(e, va),
                      NEW f \in runnable \ {e}, NEW w \in Va,
                      pt[f][w].page = pt[e][va].page
               PROVE  FALSE
    BY DEF WritableIsPrivate, Writable, Owns
  <2>1. e \in Env /\ f \in Env /\ Unique /\ ChildInv
    BY <1>1 DEF IInv, TypeOK
  <2>2. fork[e].child # NoEnv /\ f = fork[e].child
    BY <2>1 DEF Unique
  <2>3. ChildOf(e, f)
    BY <2>1, <2>2 DEF ChildInv
  <2> QED BY <2>3 DEF ChildOf
<1> QED BY <1>1, InitIInv, NextIInv, PTL DEF Spec

\* The page of file descriptors and pipes is the same page in all programs
\* that fork() gave all their pages.
THEOREM LibraryStaysShared == Spec => []LibraryShared
<1>1. IInv => LibraryShared
  BY DEF IInv
<1> QED BY <1>1, InitIInv, NextIInv, PTL DEF Spec

\* do_tlb_mod never finds a program without its handler, and the handler
\* starts on a page that is copy-on-write.
THEOREM HandlersReady == Spec => []HandlerReady
<1>1. ASSUME IInv PROVE HandlerReady
  <2>1. TypeOK /\ Registered /\ CowInv
    BY <1>1 DEF IInv
  <2>2. \A e \in runnable : cow[e].at = "alloc" => pt[e][cow[e].va].perm = {"COW"}
    BY <2>1 DEF CowInv, CowOf, TypeOK
  <2> QED BY <2>1, <2>2 DEF HandlerReady, Registered
<1> QED BY <1>1, InitIInv, NextIInv, PTL DEF Spec
=============================================================================
