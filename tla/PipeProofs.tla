----------------------------- MODULE PipeProofs -------------------------------
(***************************************************************************)
(* Proofs about Pipe, for any number of processes, descriptors and bytes   *)
(* and any size of the ring.                                               *)
(*                                                                         *)
(* Two inductive invariants.  CloseInv is about the reference counts: that *)
(* a pipe looks closed only if it is, or while a fork is half done, needs  *)
(* that a process that runs never has fewer mappings of the Pipe page than *)
(* of the Fd pages, and that a count read in one time slice is still the   *)
(* count.  RingInv is about the bytes while no end has been shared: the    *)
(* positions are the numbers of bytes written and taken, what lies between *)
(* them in the ring is what was written, unless its writer was stopped     *)
(* between its two stores, and each side holds the position it is at while *)
(* the other moves its own.  It covers both orders of the two accesses of  *)
(* an increment.                                                           *)
(***************************************************************************)
EXTENDS Pipe, FiniteSetTheorems, TLAPS

PC == {"none", "child", "idle", "close", "dup", "fork", "check", "checkfd", "checkpipe",
       "closed", "read", "get", "get2", "write", "put", "put2"}

\* Where a process is inside pipe_read or pipe_write.
InUse == {"read", "get", "get2", "write", "put", "put2",
          "check", "checkfd", "checkpipe", "closed"}

Locals ==
  [end : End, n : Nat, i : Nat, pos : Nat, first : BOOLEAN, byte : Nat, fd : Nat, kid : Proc]

RingTypes ==
  /\ p_rpos \in Nat /\ p_wpos \in Nat /\ written \in Nat
  /\ p_buf \in [0 .. PIPE_SIZE-1 -> Nat]
  /\ shared \in BOOLEAN

Types ==
  /\ fdref \in [Proc -> [End -> Nat]]
  /\ dataref \in [Proc -> [End -> Nat]]
  /\ pc \in [Proc -> PC]
  /\ loc \in [Proc -> Locals]
  /\ RingTypes

\* 1 if p is between the two system calls of a close or a dup of end e.
Between(p, e) == IF pc[p] \in {"close", "dup"} /\ loc[p].end = e THEN 1 ELSE 0

\* pipe_read works on the read end, pipe_write on the write end.
RightEnd(c, l) ==
  /\ c \in {"read", "get", "get2"} => l.end = "r"
  /\ c \in {"write", "put", "put2"} => l.end = "w"

Ends == \A p \in Proc : RightEnd(pc[p], loc[p])

\* Every descriptor has its Pipe page mapped before and unmapped after its Fd
\* page, but for a child in the making.
RefsCover ==
  \A p \in Proc, e \in End :
    pc[p] # "child" => fdref[p][e] + Between(p, e) <= dataref[p][e]

\* A process that forks has a child of its own in the making.
Forks ==
  \A p \in Proc : pc[p] = "fork" =>
    /\ pc[loc[p].kid] = "child"
    /\ \A q \in Proc : pc[q] = "fork" /\ loc[q].kid = loc[p].kid => q = p

\* The count that _pipe_is_closed has read is right as long as env_runs is.
Fresh ==
  \A p \in Proc : pc[p] = "checkpipe" /\ p \notin stale => loc[p].fd = FdRef(loc[p].end)

CloseInv ==
  /\ Types
  /\ Ends
  /\ RefsCover
  /\ Forks
  /\ Fresh

-----------------------------------------------------------------------------
(* Counting mappings *)

LEMMA MappingsFinite ==
  ASSUME NEW ref, NEW e, \A p \in Proc : ref[p][e] \in Nat
  PROVE  /\ IsFiniteSet(Mappings(ref, e))
         /\ Cardinality(Mappings(ref, e)) \in Nat
         /\ Cardinality(Mappings(ref, e)) = 0 <=> \A p \in Proc : ref[p][e] = 0
<1>1. IsFiniteSet(Proc)
  BY PipeAssumption
<1> DEFINE M(p) == {p} \X (1 .. ref[p][e])
           F == {M(p) : p \in Proc}
<1>2. IsFiniteSet(F)
  <2> DEFINE f == [p \in Proc |-> M(p)]
  <2>1. f \in Surjection(Proc, F)
    BY DEF Surjection
  <2> HIDE DEF f, F
  <2> QED BY <1>1, <2>1, FS_Surjection
<1>3. \A m \in F : IsFiniteSet(m)
  <2> SUFFICES ASSUME NEW p \in Proc PROVE IsFiniteSet(M(p))
    OBVIOUS
  <2>1. 1 \in Int /\ ref[p][e] \in Int
    OBVIOUS
  <2>2. IsFiniteSet({p}) /\ IsFiniteSet(1 .. ref[p][e])
    BY <2>1, FS_Singleton, FS_Interval
  <2> QED BY <2>2, FS_Product
<1>4. IsFiniteSet(UNION F)
  <2> HIDE DEF F
  <2> QED BY <1>2, <1>3, FS_UNION
<1>5. IsFiniteSet(Mappings(ref, e))
  BY <1>4 DEF Mappings
<1>6. Mappings(ref, e) = {} <=> \A p \in Proc : ref[p][e] = 0
  <2>1. ASSUME NEW p \in Proc, ref[p][e] # 0 PROVE <<p, 1>> \in Mappings(ref, e)
    BY <2>1 DEF Mappings
  <2>2. ASSUME \A p \in Proc : ref[p][e] = 0 PROVE Mappings(ref, e) = {}
    BY <2>2 DEF Mappings
  <2> QED BY <2>1, <2>2
<1> QED BY <1>5, <1>6, FS_CardinalityType, FS_EmptySet

\* Who has no more mappings anywhere has no more in all.
LEMMA FewerMappings ==
  ASSUME NEW ref, NEW more, NEW e, \A p \in Proc : ref[p][e] \in Nat /\ more[p][e] \in Nat,
         \A p \in Proc : ref[p][e] <= more[p][e]
  PROVE  Cardinality(Mappings(ref, e)) <= Cardinality(Mappings(more, e))
<1>1. Mappings(ref, e) \subseteq Mappings(more, e)
  BY DEF Mappings
<1>2. IsFiniteSet(Mappings(more, e))
  BY MappingsFinite
<1> QED BY <1>1, <1>2, FS_Subset

\* The counts that _pipe_is_closed compares.
LEMMA Refs ==
  ASSUME Types, NEW e \in End
  PROVE  /\ FdRef(e) \in Nat /\ DataRef(e) \in Nat /\ Other(e) \in End
         /\ DataRef(e) = 0 <=> \A p \in Proc : dataref[p][e] = 0
         /\ (\A p \in Proc : fdref[p][e] <= dataref[p][e]) => FdRef(e) <= DataRef(e)
<1>1. \A p \in Proc : fdref[p][e] \in Nat /\ dataref[p][e] \in Nat
  BY DEF Types
<1>2. Other(e) \in End
  BY DEF Other, End
<1>3. /\ Cardinality(Mappings(fdref, e)) \in Nat /\ Cardinality(Mappings(dataref, e)) \in Nat
      /\ Cardinality(Mappings(dataref, e)) = 0 <=> \A p \in Proc : dataref[p][e] = 0
  BY <1>1, MappingsFinite
<1>4. (\A p \in Proc : fdref[p][e] <= dataref[p][e]) =>
         Cardinality(Mappings(fdref, e)) <= Cardinality(Mappings(dataref, e))
  BY <1>1, FewerMappings
<1> QED BY <1>2, <1>3, <1>4 DEF FdRef, DataRef

-----------------------------------------------------------------------------
(* Steps *)

LEMMA NoLocalsType == NoLocals \in Locals
BY PipeAssumption DEF NoLocals, Locals, End

\* Whoever else is inside _pipe_is_closed has been interrupted.
LEMMA AtStale ==
  ASSUME NEW p \in Proc, NEW c, At(p, c)
  PROVE  /\ pc[p] = c
         /\ \A q \in Proc \ {p} : pc[q] = "checkpipe" => q \in stale'
BY DEF At

\* What a step of p may do to its own references: it keeps the Pipe page mapped
\* under every Fd page.
OwnRefs(p, c, l) ==
  /\ fdref' \in [Proc -> [End -> Nat]] /\ dataref' \in [Proc -> [End -> Nat]]
  /\ \A q \in Proc \ {p} : fdref'[q] = fdref[q] /\ dataref'[q] = dataref[q]
  /\ \A e \in End :
       fdref'[p][e] + (IF c \in {"close", "dup"} /\ l.end = e THEN 1 ELSE 0) <= dataref'[p][e]

\* A step of p alone, to c with locals l.
LEMMA OwnStep ==
  ASSUME CloseInv, NEW p \in Proc, NEW c \in PC \ {"child", "fork"}, NEW l \in Locals,
         pc[p] # "child",
         Goto(p, c, l), RightEnd(c, l), OwnRefs(p, c, l), RingTypes',
         \A q \in Proc \ {p} : pc[q] = "checkpipe" => q \in stale',
         c = "checkpipe" => l.fd = Cardinality(Mappings(fdref', l.end))
  PROVE  CloseInv'
<1>0. Types /\ Ends /\ RefsCover /\ Forks /\ Fresh
  BY DEF CloseInv
<1>1. /\ pc' \in [Proc -> PC] /\ pc'[p] = c /\ \A q \in Proc \ {p} : pc'[q] = pc[q]
      /\ loc' \in [Proc -> Locals] /\ loc'[p] = l /\ \A q \in Proc \ {p} : loc'[q] = loc[q]
  BY <1>0 DEF Goto, Types
<1>2. Types'
  BY <1>1 DEF Types, OwnRefs
<1>3. \A q \in Proc \ {p} : fdref'[q] = fdref[q] /\ dataref'[q] = dataref[q]
  BY DEF OwnRefs
<1>4. RefsCover'
  <2> SUFFICES ASSUME NEW q \in Proc, NEW e \in End, pc'[q] # "child"
               PROVE  fdref'[q][e] + Between(q, e)' <= dataref'[q][e]
    BY DEF RefsCover
  <2>1. CASE q = p
    <3>1. Between(q, e)' = IF c \in {"close", "dup"} /\ l.end = e THEN 1 ELSE 0
      BY <1>1, <2>1 DEF Between
    <3> QED BY <2>1, <3>1 DEF OwnRefs
  <2>2. CASE q # p
    <3>1. Between(q, e)' = Between(q, e)
      BY <1>1, <2>2 DEF Between
    <3> QED BY <1>0, <1>1, <1>3, <2>2, <3>1 DEF RefsCover
  <2> QED BY <2>1, <2>2
<1>5. \A q \in Proc : pc'[q] = "fork" => q # p /\ pc[q] = "fork" /\ loc'[q] = loc[q]
  BY <1>1
<1>6. Forks'
  <2> SUFFICES ASSUME NEW q \in Proc, pc'[q] = "fork"
               PROVE  /\ pc'[loc'[q].kid] = "child"
                      /\ \A r \in Proc : pc'[r] = "fork" /\ loc'[r].kid = loc'[q].kid => r = q
    BY DEF Forks
  <2>1. q # p /\ pc[q] = "fork" /\ loc'[q] = loc[q]
    BY <1>5
  <2>2. loc[q].kid \in Proc
    BY <1>0 DEF Types, Locals
  <2>3. /\ pc[loc[q].kid] = "child" /\ loc[q].kid # p
        /\ \A r \in Proc : pc[r] = "fork" /\ loc[r].kid = loc[q].kid => r = q
    BY <1>0, <2>1 DEF Forks
  <2> QED BY <1>1, <1>5, <2>1, <2>2, <2>3
<1>7. Fresh'
  <2> SUFFICES ASSUME NEW q \in Proc, pc'[q] = "checkpipe", q \notin stale'
               PROVE  loc'[q].fd = Cardinality(Mappings(fdref', loc'[q].end))
    BY DEF Fresh, FdRef, Mappings
  <2>1. q = p
    BY <1>1
  <2> QED BY <1>1, <2>1
<1>8. Ends'
  BY <1>0, <1>1 DEF Ends
<1> QED BY <1>2, <1>4, <1>6, <1>7, <1>8 DEF CloseInv

\* A step that leaves the references alone.
LEMMA SameRefs ==
  ASSUME CloseInv, NEW p \in Proc, NEW c \in PC \ {"child", "fork", "none", "close", "dup"}, NEW l,
         pc[p] # "child", UNCHANGED refs
  PROVE  OwnRefs(p, c, l) /\ \A e : Mappings(fdref', e) = Mappings(fdref, e)
<1>1. UNCHANGED fdref /\ UNCHANGED dataref
  BY DEF refs
<1>2. \A e \in End : fdref[p][e] + Between(p, e) <= dataref[p][e]
  BY DEF CloseInv, RefsCover
<1>3. \A e \in End : fdref[p][e] \in Nat /\ dataref[p][e] \in Nat /\ Between(p, e) \in {0, 1}
  BY DEF CloseInv, Types, Between
<1>4. \A e \in End : fdref[p][e] + (IF c \in {"close", "dup"} /\ l.end = e THEN 1 ELSE 0) <= dataref[p][e]
  BY <1>2, <1>3
<1>5. /\ fdref \in [Proc -> [End -> Nat]] /\ dataref \in [Proc -> [End -> Nat]]
  BY DEF CloseInv, Types
<1> QED BY <1>1, <1>4, <1>5 DEF OwnRefs

LEMMA CloseFdInv ==
  ASSUME CloseInv, NEW p \in Proc, NEW e \in End, CloseFd(p, e)
  PROVE  CloseInv'
<1>0. Types /\ RefsCover
  BY DEF CloseInv
<1>1. /\ At(p, "idle") /\ fdref[p][e] > 0
      /\ fdref' = [fdref EXCEPT ![p][e] = @ - 1] /\ UNCHANGED dataref
      /\ Goto(p, "close", [NoLocals EXCEPT !.end = e]) /\ UNCHANGED ring
  BY DEF CloseFd
<1>2. pc[p] = "idle" /\ \A q \in Proc \ {p} : pc[q] = "checkpipe" => q \in stale'
  BY <1>1, AtStale
<1>3. PICK l : l = [NoLocals EXCEPT !.end = e]
  OBVIOUS
<1>4. l \in Locals /\ l.end = e
  BY <1>3, NoLocalsType DEF Locals
<1>5. \A f \in End : /\ fdref[p][f] \in Nat /\ dataref[p][f] \in Nat
                     /\ fdref[p][f] <= dataref[p][f]
  BY <1>0, <1>2 DEF Types, RefsCover, Between
<1>6. OwnRefs(p, "close", l)
  <2>1. /\ fdref' \in [Proc -> [End -> Nat]] /\ dataref' \in [Proc -> [End -> Nat]]
        /\ \A q \in Proc \ {p} : fdref'[q] = fdref[q] /\ dataref'[q] = dataref[q]
        /\ \A f \in End : fdref'[p][f] = IF f = e THEN fdref[p][f] - 1 ELSE fdref[p][f]
    BY <1>0, <1>1, <1>5 DEF Types
  <2> QED BY <1>1, <1>4, <1>5, <2>1 DEF OwnRefs
<1>7. RingTypes'
  BY <1>0, <1>1 DEF Types, RingTypes, ring
<1> QED BY <1>1, <1>2, <1>3, <1>4, <1>6, <1>7, OwnStep DEF PC, InUse, RightEnd

LEMMA CloseDataInv ==
  ASSUME CloseInv, NEW p \in Proc, CloseData(p)
  PROVE  CloseInv'
<1>0. Types /\ RefsCover
  BY DEF CloseInv
<1>1. /\ At(p, "close") /\ UNCHANGED fdref
      /\ dataref' = [dataref EXCEPT ![p][loc[p].end] = @ - 1]
      /\ Goto(p, "idle", NoLocals) /\ UNCHANGED ring
  BY DEF CloseData, Return
<1>2. pc[p] = "close" /\ \A q \in Proc \ {p} : pc[q] = "checkpipe" => q \in stale'
  BY <1>1, AtStale
<1>3. PICK e : e = loc[p].end
  OBVIOUS
<1>4. e \in End
  BY <1>0, <1>3 DEF Types, Locals
<1>5. \A f \in End : /\ fdref[p][f] \in Nat /\ dataref[p][f] \in Nat
                     /\ fdref[p][f] + (IF f = e THEN 1 ELSE 0) <= dataref[p][f]
  BY <1>0, <1>2, <1>3 DEF Types, RefsCover, Between
<1>6. OwnRefs(p, "idle", NoLocals)
  <2>1. /\ fdref' \in [Proc -> [End -> Nat]] /\ dataref' \in [Proc -> [End -> Nat]]
        /\ \A q \in Proc \ {p} : fdref'[q] = fdref[q] /\ dataref'[q] = dataref[q]
        /\ \A f \in End : dataref'[p][f] = IF f = e THEN dataref[p][f] - 1 ELSE dataref[p][f]
    BY <1>0, <1>1, <1>3, <1>4, <1>5 DEF Types
  <2>2. fdref'[p] = fdref[p]
    BY <1>1
  <2> QED BY <1>5, <2>1, <2>2 DEF OwnRefs
<1>7. RingTypes'
  BY <1>0, <1>1 DEF Types, RingTypes, ring
<1> QED BY <1>1, <1>2, <1>6, <1>7, NoLocalsType, OwnStep DEF PC, InUse, RightEnd

LEMMA DupDataInv ==
  ASSUME CloseInv, NEW p \in Proc, NEW e \in End, DupData(p, e)
  PROVE  CloseInv'
<1>0. Types /\ RefsCover
  BY DEF CloseInv
<1>1. /\ At(p, "idle") /\ fdref[p][e] > 0
      /\ dataref' = [dataref EXCEPT ![p][e] = @ + 1] /\ UNCHANGED fdref
      /\ Goto(p, "dup", [NoLocals EXCEPT !.end = e]) /\ UNCHANGED ring
  BY DEF DupData
<1>2. pc[p] = "idle" /\ \A q \in Proc \ {p} : pc[q] = "checkpipe" => q \in stale'
  BY <1>1, AtStale
<1>3. PICK l : l = [NoLocals EXCEPT !.end = e]
  OBVIOUS
<1>4. l \in Locals /\ l.end = e
  BY <1>3, NoLocalsType DEF Locals
<1>5. \A f \in End : /\ fdref[p][f] \in Nat /\ dataref[p][f] \in Nat
                     /\ fdref[p][f] <= dataref[p][f]
  BY <1>0, <1>2 DEF Types, RefsCover, Between
<1>6. OwnRefs(p, "dup", l)
  <2>1. /\ fdref' \in [Proc -> [End -> Nat]] /\ dataref' \in [Proc -> [End -> Nat]]
        /\ \A q \in Proc \ {p} : fdref'[q] = fdref[q] /\ dataref'[q] = dataref[q]
        /\ \A f \in End : dataref'[p][f] = IF f = e THEN dataref[p][f] + 1 ELSE dataref[p][f]
    BY <1>0, <1>1, <1>5 DEF Types
  <2>2. fdref'[p] = fdref[p] /\ dataref[p][e] # 0
    BY <1>1, <1>5
  <2> QED BY <1>4, <1>5, <2>1, <2>2 DEF OwnRefs
<1>7. RingTypes'
  BY <1>0, <1>1 DEF Types, RingTypes, ring
<1> QED BY <1>1, <1>2, <1>3, <1>4, <1>6, <1>7, OwnStep DEF PC, InUse, RightEnd

LEMMA DupFdInv ==
  ASSUME CloseInv, NEW p \in Proc, DupFd(p)
  PROVE  CloseInv'
<1>0. Types /\ RefsCover
  BY DEF CloseInv
<1>1. /\ At(p, "dup") /\ UNCHANGED dataref
      /\ fdref' = [fdref EXCEPT ![p][loc[p].end] = @ + 1]
      /\ Goto(p, "idle", NoLocals) /\ UNCHANGED ring
  BY DEF DupFd, Return
<1>2. pc[p] = "dup" /\ \A q \in Proc \ {p} : pc[q] = "checkpipe" => q \in stale'
  BY <1>1, AtStale
<1>3. PICK e : e = loc[p].end
  OBVIOUS
<1>4. e \in End
  BY <1>0, <1>3 DEF Types, Locals
<1>5. \A f \in End : /\ fdref[p][f] \in Nat /\ dataref[p][f] \in Nat
                     /\ fdref[p][f] + (IF f = e THEN 1 ELSE 0) <= dataref[p][f]
  BY <1>0, <1>2, <1>3 DEF Types, RefsCover, Between
<1>6. OwnRefs(p, "idle", NoLocals)
  <2>1. /\ fdref' \in [Proc -> [End -> Nat]] /\ dataref' \in [Proc -> [End -> Nat]]
        /\ \A q \in Proc \ {p} : fdref'[q] = fdref[q] /\ dataref'[q] = dataref[q]
        /\ \A f \in End : fdref'[p][f] = IF f = e THEN fdref[p][f] + 1 ELSE fdref[p][f]
    BY <1>0, <1>1, <1>3, <1>4, <1>5 DEF Types
  <2>2. dataref'[p] = dataref[p]
    BY <1>1
  <2> QED BY <1>5, <2>1, <2>2 DEF OwnRefs
<1>7. RingTypes'
  BY <1>0, <1>1 DEF Types, RingTypes, ring
<1> QED BY <1>1, <1>2, <1>6, <1>7, NoLocalsType, OwnStep DEF PC, InUse, RightEnd

LEMMA DestroyInv ==
  ASSUME CloseInv, NEW p \in Proc, Destroy(p)
  PROVE  CloseInv'
<1>0. Types
  BY DEF CloseInv
<1>1. /\ pc[p] # "child" /\ At(p, pc[p])
      /\ fdref' = [fdref EXCEPT ![p] = [e \in End |-> 0]]
      /\ dataref' = [dataref EXCEPT ![p] = [e \in End |-> 0]]
      /\ Goto(p, "none", NoLocals) /\ UNCHANGED ring
  BY DEF Destroy
<1>2. \A q \in Proc \ {p} : pc[q] = "checkpipe" => q \in stale'
  BY <1>1, AtStale
<1>3. OwnRefs(p, "none", NoLocals)
  BY <1>0, <1>1 DEF OwnRefs, Types
<1>4. RingTypes'
  BY <1>0, <1>1 DEF Types, RingTypes, ring
<1> QED BY <1>1, <1>2, <1>3, <1>4, NoLocalsType, OwnStep DEF PC, InUse, RightEnd

\* A step of p inside pipe_read or pipe_write, into it or out of it.
LEMMA UseStep ==
  ASSUME CloseInv, NEW p \in Proc, NEW c \in InUse \cup {"idle"}, NEW l \in Locals,
         NEW b, At(p, b), b \in InUse \cup {"idle"},
         Goto(p, c, l), RightEnd(c, l), UNCHANGED refs, RingTypes',
         c = "checkpipe" => l.fd = FdRef(l.end)
  PROVE  CloseInv'
<1>1. pc[p] = b /\ \A q \in Proc \ {p} : pc[q] = "checkpipe" => q \in stale'
  BY AtStale
<1>2. /\ c \in PC \ {"child", "fork", "none", "close", "dup"}
      /\ pc[p] # "child"
  BY <1>1 DEF PC, InUse
<1>3. OwnRefs(p, c, l) /\ \A e : Mappings(fdref', e) = Mappings(fdref, e)
  BY <1>2, SameRefs
<1>4. c = "checkpipe" => l.fd = Cardinality(Mappings(fdref', l.end))
  BY <1>3 DEF FdRef
<1> QED BY <1>1, <1>2, <1>3, <1>4, OwnStep

LEMMA CheckInv ==
  ASSUME CloseInv, NEW p \in Proc, CheckRuns(p) \/ CheckFd(p) \/ ReturnClosed(p)
  PROVE  CloseInv'
<1>0. Types /\ Ends /\ loc[p] \in Locals
  BY DEF CloseInv, Types
<1>1. UNCHANGED refs /\ RingTypes'
  BY <1>0 DEF CheckRuns, CheckFd, ReturnClosed, Types, RingTypes, ring
<1>2. CASE CheckRuns(p)
  <2>1. At(p, "check") /\ Goto(p, "checkfd", loc[p])
    BY <1>2 DEF CheckRuns
  <2> QED BY <1>0, <1>1, <2>1, UseStep DEF InUse, RightEnd
<1>3. CASE CheckFd(p)
  <2>1. At(p, "checkfd") /\ Goto(p, "checkpipe", [loc[p] EXCEPT !.fd = FdRef(loc[p].end)])
    BY <1>3 DEF CheckFd
  <2>2. PICK l : l = [loc[p] EXCEPT !.fd = FdRef(loc[p].end)]
    OBVIOUS
  <2>3. loc[p].end \in End
    BY <1>0 DEF Locals
  <2>4. FdRef(loc[p].end) \in Nat
    BY <1>0, <2>3, Refs
  <2>5. l \in Locals /\ l.end = loc[p].end /\ l.fd = FdRef(loc[p].end)
    BY <1>0, <2>2, <2>4 DEF Locals
  <2>6. l.fd = FdRef(l.end)
    BY <2>5
  <2> QED BY <1>1, <2>1, <2>2, <2>5, <2>6, UseStep DEF InUse, RightEnd
<1>4. CASE ReturnClosed(p)
  <2>1. At(p, "closed") /\ Goto(p, "idle", NoLocals)
    BY <1>4 DEF ReturnClosed, Return
  <2> QED BY <1>1, <2>1, NoLocalsType, UseStep DEF InUse, RightEnd
<1> QED BY <1>2, <1>3, <1>4

LEMMA CheckPipeInv ==
  ASSUME CloseInv, NEW p \in Proc, CheckPipe(p)
  PROVE  CloseInv'
<1>0. Types /\ loc[p] \in Locals
  BY DEF CloseInv, Types
<1>1. UNCHANGED refs /\ RingTypes' /\ At(p, "checkpipe") /\ pc[p] = "checkpipe"
  BY <1>0 DEF CheckPipe, At, Types, RingTypes, ring
<1>2. PICK c, l : /\ c = IF p \in stale THEN "check"
                        ELSE IF loc[p].fd = PipeRef THEN "closed"
                        ELSE IF loc[p].end = "r" THEN "read" ELSE "write"
                  /\ l = [loc[p] EXCEPT !.fd = 0]
  OBVIOUS
<1>3. Goto(p, c, l)
  BY <1>2 DEF CheckPipe
<1>4. l \in Locals /\ l.end = loc[p].end /\ l.end \in End
  BY <1>0, <1>2 DEF Locals
<1>5. c \in InUse /\ c # "checkpipe" /\ RightEnd(c, l)
  BY <1>2, <1>4 DEF InUse, End, RightEnd
<1> QED BY <1>1, <1>3, <1>4, <1>5, UseStep DEF InUse

LEMMA BeginInv ==
  ASSUME CloseInv, NEW p \in Proc, NEW e \in End, NEW n \in 1 .. MaxLen, Begin(p, e, n)
  PROVE  CloseInv'
<1>0. Types
  BY DEF CloseInv
<1>1. UNCHANGED refs /\ RingTypes' /\ At(p, "idle")
  BY <1>0 DEF Begin, Types, RingTypes
<1>2. PICK c, l : /\ c = IF e = "r" THEN "read" ELSE "write"
                  /\ l = [NoLocals EXCEPT !.end = e, !.n = n]
  OBVIOUS
<1>3. Goto(p, c, l)
  BY <1>2 DEF Begin
<1>4. l \in Locals /\ l.end = e
  <2>1. n \in Nat
    BY PipeAssumption
  <2> QED BY <1>2, <2>1, NoLocalsType DEF Locals
<1>5. c \in {"read", "write"} /\ c \in InUse /\ RightEnd(c, l)
  BY <1>2, <1>4 DEF InUse, End, RightEnd
<1> QED BY <1>1, <1>3, <1>4, <1>5, UseStep

\* The tests of the two loops.
LEMMA TestInv ==
  ASSUME CloseInv, NEW p \in Proc, ReadTest(p) \/ WriteTest(p)
  PROVE  CloseInv'
<1>0. Types /\ loc[p] \in Locals /\ RightEnd(pc[p], loc[p])
  BY DEF CloseInv, Types, Ends
<1>1. UNCHANGED refs /\ RingTypes'
  BY <1>0 DEF ReadTest, WriteTest, Types, RingTypes, ring
<1>2. PICK b \in {"read", "write"} : At(p, b)
  BY DEF ReadTest, WriteTest
<1>3. CASE Goto(p, "idle", NoLocals)
  BY <1>1, <1>2, <1>3, NoLocalsType, UseStep DEF InUse, RightEnd
<1>4. CASE Goto(p, "check", loc[p])
  BY <1>0, <1>1, <1>2, <1>4, UseStep DEF InUse, RightEnd
<1>5. ASSUME NEW l \in Locals, l.end = loc[p].end, NEW c,
             \/ c = "get" /\ pc[p] = "read"
             \/ c = "put" /\ pc[p] = "write",
             Goto(p, c, l)
      PROVE  CloseInv'
  <2>1. c \in InUse /\ c # "checkpipe" /\ RightEnd(c, l) /\ b \in InUse
    BY <1>0, <1>5 DEF InUse, RightEnd
  <2> QED BY <1>1, <1>2, <1>5, <2>1, UseStep
<1>6. p_rpos \in Nat /\ p_wpos \in Nat /\ written + 1 \in Nat
  BY <1>0 DEF Types, RingTypes
<1>7. CASE ReadTest(p)
  <2>1. pc[p] = "read"
    BY <1>7 DEF ReadTest, At
  <2>2. ASSUME NEW f \in BOOLEAN, Goto(p, "get", [loc[p] EXCEPT !.pos = p_rpos, !.first = f])
        PROVE  CloseInv'
    <3>1. PICK l : l = [loc[p] EXCEPT !.pos = p_rpos, !.first = f]
      OBVIOUS
    <3>2. l \in Locals /\ l.end = loc[p].end
      BY <1>0, <1>6, <3>1 DEF Locals
    <3> QED BY <1>5, <2>1, <2>2, <3>1, <3>2
  <2> QED BY <1>3, <1>4, <1>7, <2>2 DEF ReadTest, Return
<1>8. CASE WriteTest(p)
  <2>1. pc[p] = "write"
    BY <1>8 DEF WriteTest, At
  <2>2. ASSUME NEW f \in BOOLEAN,
               Goto(p, "put", [loc[p] EXCEPT !.pos = p_wpos, !.first = f, !.byte = written + 1])
        PROVE  CloseInv'
    <3>1. PICK l : l = [loc[p] EXCEPT !.pos = p_wpos, !.first = f, !.byte = written + 1]
      OBVIOUS
    <3>2. l \in Locals /\ l.end = loc[p].end
      BY <1>0, <1>6, <3>1 DEF Locals
    <3> QED BY <1>5, <2>1, <2>2, <3>1, <3>2
  <2> QED BY <1>3, <1>4, <1>8, <2>2 DEF WriteTest, Return
<1> QED BY <1>7, <1>8

\* Places in the ring, and positions.
LEMMA Modulo == \A x \in Nat : x % PIPE_SIZE \in 0 .. PIPE_SIZE-1 /\ x % WORD \in Nat
BY PipeAssumption

LEMMA GetInv ==
  ASSUME CloseInv, NEW p \in Proc, Get(p)
  PROVE  CloseInv'
<1>0. Types /\ loc[p] \in Locals /\ RightEnd(pc[p], loc[p])
  BY DEF CloseInv, Types, Ends
<1>1. PICK l : l = loc[p]
  OBVIOUS
<1>2. /\ l.pos \in Nat /\ l.n \in Nat /\ l.i \in Nat /\ l.byte \in Nat
      /\ p_rpos \in Nat
  BY <1>0, <1>1 DEF Locals, Types, RingTypes
<1>3. Byte(l) \in Nat /\ (l.pos + 1) % WORD \in Nat
  <2>1. l.pos % PIPE_SIZE \in 0 .. PIPE_SIZE-1
    BY <1>2, Modulo, Zenon
  <2>2. l.pos + 1 \in Nat
    BY <1>2
  <2>3. (l.pos + 1) % WORD \in Nat
    BY <2>2, Modulo, Zenon
  <2> QED BY <1>0, <2>1, <2>3 DEF Byte, Types, RingTypes
<1>4. UNCHANGED refs /\ UNCHANGED <<p_wpos, p_buf, written, shared>>
  BY DEF Get
<1>5. ASSUME At(p, "get"), p_rpos' \in {(l.pos + 1) % WORD, p_rpos},
             Goto(p, "get2", IF l.first THEN l ELSE [l EXCEPT !.byte = Byte(l)])
      PROVE  CloseInv'
  <2>1. PICK m : m = IF l.first THEN l ELSE [l EXCEPT !.byte = Byte(l)]
    OBVIOUS
  <2>2. m \in Locals /\ m.end = loc[p].end
    BY <1>0, <1>1, <1>3, <2>1 DEF Locals
  <2>3. RingTypes'
    BY <1>0, <1>2, <1>3, <1>4, <1>5 DEF Types, RingTypes
  <2>4. RightEnd("get2", m)
    BY <1>0, <1>5, <2>2 DEF At, RightEnd
  <2>5. Goto(p, "get2", m) /\ "get" \in InUse /\ "get2" \in InUse
    BY <1>5, <2>1 DEF InUse
  <2> QED BY <1>4, <1>5, <2>2, <2>3, <2>4, <2>5, UseStep
<1>6. ASSUME At(p, "get2"), p_rpos' \in {(l.pos + 1) % WORD, p_rpos},
             Goto(p, "read", [NoLocals EXCEPT !.end = "r", !.n = l.n, !.i = l.i + 1])
      PROVE  CloseInv'
  <2>1. PICK m : m = [NoLocals EXCEPT !.end = "r", !.n = l.n, !.i = l.i + 1]
    OBVIOUS
  <2>2. l.i + 1 \in Nat /\ "r" \in End
    BY <1>2 DEF End
  <2>3. m \in Locals /\ m.end = "r"
    BY <1>2, <2>1, <2>2, NoLocalsType DEF Locals
  <2>4. RingTypes'
    BY <1>0, <1>2, <1>3, <1>4, <1>6 DEF Types, RingTypes
  <2>5. pc[p] = "get2" /\ RightEnd("read", m) /\ loc[p].end = "r"
    BY <1>0, <1>6, <2>3 DEF At, RightEnd
  <2> QED BY <1>4, <1>6, <2>1, <2>3, <2>4, <2>5, UseStep DEF InUse
<1> QED BY <1>1, <1>5, <1>6 DEF Get

LEMMA PutInv ==
  ASSUME CloseInv, NEW p \in Proc, Put(p)
  PROVE  CloseInv'
<1>0. Types /\ loc[p] \in Locals /\ RightEnd(pc[p], loc[p])
  BY DEF CloseInv, Types, Ends
<1>1. PICK l : l = loc[p]
  OBVIOUS
<1>2. l.pos \in Nat /\ l.n \in Nat /\ l.i \in Nat /\ l.pos + 1 \in Nat /\ l.i + 1 \in Nat
  BY <1>0, <1>1 DEF Locals
<1>3. UNCHANGED refs /\ UNCHANGED <<p_rpos, shared>>
  BY DEF Put
<1>4. RingTypes'
  <2>1. PutByte(l) \/ PutIndex(l)
    BY <1>1 DEF Put
  <2>2. CASE PutByte(l)
    <3>1. p_buf' \in [0 .. PIPE_SIZE-1 -> Nat]
      <4>1. l.byte \in Nat /\ p_buf \in [0 .. PIPE_SIZE-1 -> Nat]
        BY <1>0, <1>1 DEF Types, RingTypes, Locals
      <4> QED BY <2>2, <4>1 DEF PutByte
    <3> QED BY <1>0, <1>3, <2>2, <3>1 DEF PutByte, Types, RingTypes
  <2>3. CASE PutIndex(l)
    <3>1. (l.pos + 1) % WORD \in Nat
      BY <1>2, Modulo, Zenon
    <3> QED BY <1>0, <1>3, <2>3, <3>1 DEF PutIndex, Types, RingTypes
  <2> QED BY <2>1, <2>2, <2>3
<1>5. ASSUME At(p, "put"), Goto(p, "put2", l) PROVE CloseInv'
  <2>1. pc[p] = "put" /\ RightEnd("put2", l)
    BY <1>0, <1>1, <1>5 DEF At, RightEnd
  <2> QED BY <1>0, <1>1, <1>3, <1>4, <1>5, <2>1, UseStep DEF InUse
<1>6. ASSUME At(p, "put2"),
             Goto(p, "write", [NoLocals EXCEPT !.end = "w", !.n = l.n, !.i = l.i + 1])
      PROVE  CloseInv'
  <2>1. PICK m : m = [NoLocals EXCEPT !.end = "w", !.n = l.n, !.i = l.i + 1]
    OBVIOUS
  <2>2. m \in Locals /\ m.end = "w"
    <3>1. "w" \in End
      BY DEF End
    <3> QED BY <1>2, <2>1, <3>1, NoLocalsType DEF Locals
  <2>3. pc[p] = "put2" /\ RightEnd("write", m) /\ loc[p].end = "w"
    BY <1>0, <1>6, <2>2 DEF At, RightEnd
  <2>4. Goto(p, "write", m) /\ "put2" \in InUse /\ "write" \in InUse
    BY <1>6, <2>1 DEF InUse
  <2> QED BY <1>3, <1>4, <1>6, <2>2, <2>3, <2>4, UseStep
<1> QED BY <1>1, <1>5, <1>6 DEF Put

-----------------------------------------------------------------------------
(* fork and spawn *)

\* Who takes part in a fork.
LEMMA ForkFrame ==
  ASSUME CloseInv, NEW p \in Proc, pc[p] = "fork", NEW c, c = loc[p].kid
  PROVE  /\ c \in Proc /\ c # p /\ pc[c] = "child"
         /\ \A q \in Proc : pc[q] = "fork" /\ loc[q].kid = c => q = p
         /\ \A e \in End : fdref[p][e] <= dataref[p][e]
<1>1. c \in Proc
  BY DEF CloseInv, Types, Locals
<1>2. /\ pc[c] = "child" /\ c # p
      /\ \A q \in Proc : pc[q] = "fork" /\ loc[q].kid = c => q = p
  BY DEF CloseInv, Forks
<1>3. \A e \in End : fdref[p][e] <= dataref[p][e]
  BY DEF CloseInv, Types, RefsCover, Between
<1> QED BY <1>1, <1>2, <1>3

\* A step in which the child c of p gets a mapping.
LEMMA ChildGets ==
  ASSUME CloseInv, NEW p \in Proc, NEW c, c = loc[p].kid, At(p, "fork"),
         fdref' \in [Proc -> [End -> Nat]], dataref' \in [Proc -> [End -> Nat]],
         \A q \in Proc \ {c} : fdref'[q] = fdref[q] /\ dataref'[q] = dataref[q],
         UNCHANGED <<pc, loc, ring>>
  PROVE  CloseInv'
<1>0. Types /\ Ends /\ RefsCover /\ Forks
  BY DEF CloseInv
<1>1. pc[p] = "fork" /\ \A q \in Proc \ {p} : pc[q] = "checkpipe" => q \in stale'
  BY AtStale
<1>2. c \in Proc /\ pc[c] = "child"
  BY <1>1, ForkFrame
<1>3. Types' /\ Ends' /\ Forks'
  BY <1>0 DEF Types, RingTypes, ring, Ends, Forks
<1>4. \A q \in Proc, e \in End : Between(q, e)' = Between(q, e)
  BY DEF Between
<1>5. RefsCover'
  BY <1>0, <1>2, <1>4 DEF RefsCover
<1>6. Fresh'
  <2> SUFFICES ASSUME NEW q \in Proc, pc[q] = "checkpipe", q \notin stale' PROVE FALSE
    BY DEF Fresh
  <2> QED BY <1>1
<1> QED BY <1>3, <1>5, <1>6 DEF CloseInv

LEMMA ForkPagesInv ==
  ASSUME CloseInv, NEW p \in Proc, NEW e \in End, ForkFd(p, e) \/ ForkData(p, e)
  PROVE  CloseInv'
<1>0. Types
  BY DEF CloseInv
<1>1. PICK c : c = loc[p].kid
  OBVIOUS
<1>2. At(p, "fork") /\ pc[p] = "fork"
  BY DEF ForkFd, ForkData, At
<1>3. c \in Proc
  BY <1>1, <1>2, ForkFrame
<1>4. fdref[c][e] \in Nat /\ dataref[c][e] \in Nat
  BY <1>0, <1>3 DEF Types
<1>5. CASE ForkFd(p, e)
  <2>1. fdref' = [fdref EXCEPT ![c][e] = @ + 1] /\ UNCHANGED <<dataref, pc, loc, ring>>
    BY <1>1, <1>5 DEF ForkFd
  <2>2. /\ fdref' \in [Proc -> [End -> Nat]]
        /\ \A q \in Proc \ {c} : fdref'[q] = fdref[q]
    BY <1>0, <1>3, <1>4, <2>1 DEF Types
  <2> QED BY <1>0, <1>1, <1>2, <2>1, <2>2, ChildGets DEF Types
<1>6. CASE ForkData(p, e)
  <2>1. dataref' = [dataref EXCEPT ![c][e] = @ + 1] /\ UNCHANGED <<fdref, pc, loc, ring>>
    BY <1>1, <1>6 DEF ForkData
  <2>2. /\ dataref' \in [Proc -> [End -> Nat]]
        /\ \A q \in Proc \ {c} : dataref'[q] = dataref[q]
    BY <1>0, <1>3, <1>4, <2>1 DEF Types
  <2> QED BY <1>0, <1>1, <1>2, <2>1, <2>2, ChildGets DEF Types
<1> QED BY <1>5, <1>6

LEMMA ForkInv ==
  ASSUME CloseInv, NEW p \in Proc, NEW c \in Proc, Fork(p, c)
  PROVE  CloseInv'
<1>0. Types /\ Ends /\ RefsCover /\ Forks
  BY DEF CloseInv
<1>1. /\ At(p, "idle") /\ pc[c] = "none" /\ UNCHANGED refs /\ UNCHANGED ring
      /\ pc' = [pc EXCEPT ![p] = "fork", ![c] = "child"]
      /\ loc' = [loc EXCEPT ![p].kid = c]
  BY DEF Fork
<1>2. pc[p] = "idle" /\ c # p /\ \A q \in Proc \ {p} : pc[q] = "checkpipe" => q \in stale'
  BY <1>1, AtStale
<1>3. /\ pc' \in [Proc -> PC] /\ pc'[p] = "fork" /\ pc'[c] = "child"
      /\ \A q \in Proc \ {p, c} : pc'[q] = pc[q]
  BY <1>0, <1>1, <1>2 DEF Types, PC
<1>4. /\ loc' \in [Proc -> Locals] /\ loc'[p].kid = c
      /\ \A q \in Proc \ {p} : loc'[q] = loc[q]
  <2>1. loc[p] \in Locals
    BY <1>0 DEF Types
  <2>2. [loc[p] EXCEPT !.kid = c] \in Locals /\ [loc[p] EXCEPT !.kid = c].kid = c
    BY <2>1 DEF Locals
  <2>3. loc' = [loc EXCEPT ![p] = [loc[p] EXCEPT !.kid = c]]
    BY <1>1
  <2> QED BY <1>0, <2>2, <2>3 DEF Types
<1>5. UNCHANGED fdref /\ UNCHANGED dataref
  BY <1>1 DEF refs
<1>6. Types'
  BY <1>0, <1>1, <1>3, <1>4, <1>5 DEF Types, RingTypes, ring
<1>7. Ends'
  <2> SUFFICES ASSUME NEW q \in Proc PROVE RightEnd(pc'[q], loc'[q])
    BY DEF Ends
  <2>1. CASE q \in {p, c}
    BY <1>3, <2>1 DEF RightEnd
  <2>2. CASE q \notin {p, c}
    BY <1>0, <1>3, <1>4, <2>2 DEF Ends
  <2> QED BY <2>1, <2>2
<1>8. RefsCover'
  <2> SUFFICES ASSUME NEW q \in Proc, NEW e \in End, pc'[q] # "child"
               PROVE  fdref[q][e] + Between(q, e)' <= dataref[q][e]
    BY <1>5 DEF RefsCover
  <2>1. q # c
    BY <1>3
  <2>2. CASE q = p
    <3>1. Between(q, e) = 0 /\ Between(q, e)' = 0
      BY <1>2, <1>3, <2>2 DEF Between
    <3> QED BY <1>0, <1>2, <2>2, <3>1 DEF RefsCover
  <2>3. CASE q # p
    <3>1. Between(q, e)' = Between(q, e)
      BY <1>3, <1>4, <2>1, <2>3 DEF Between
    <3> QED BY <1>0, <1>3, <2>1, <2>3, <3>1 DEF RefsCover
  <2> QED BY <2>2, <2>3
<1>9. Forks'
  <2>1. \A q \in Proc : pc[q] = "fork" => loc[q].kid # c /\ loc[q].kid # p /\ loc[q].kid \in Proc
    BY <1>0, <1>1, <1>2 DEF Forks, Types, Locals
  <2>2. \A r \in Proc : pc'[r] = "fork" /\ r # p => pc[r] = "fork" /\ loc'[r].kid = loc[r].kid
    BY <1>3, <1>4
  <2> SUFFICES ASSUME NEW q \in Proc, pc'[q] = "fork"
               PROVE  /\ pc'[loc'[q].kid] = "child"
                      /\ \A r \in Proc : pc'[r] = "fork" /\ loc'[r].kid = loc'[q].kid => r = q
    BY DEF Forks
  <2>3. CASE q = p
    BY <1>3, <1>4, <2>1, <2>2, <2>3
  <2>4. CASE q # p
    <3>1. /\ pc[loc[q].kid] = "child"
          /\ \A r \in Proc : pc[r] = "fork" /\ loc[r].kid = loc[q].kid => r = q
      BY <1>0, <2>2, <2>4 DEF Forks
    <3> QED BY <1>3, <1>4, <2>1, <2>2, <2>4, <3>1
  <2> QED BY <2>3, <2>4
<1>10. Fresh'
  <2> SUFFICES ASSUME NEW q \in Proc, pc'[q] = "checkpipe", q \notin stale' PROVE FALSE
    BY DEF Fresh
  <2> QED BY <1>2, <1>3
<1> QED BY <1>6, <1>7, <1>8, <1>9, <1>10 DEF CloseInv

\* The child starts with what its parent has.
LEMMA StartChildInv ==
  ASSUME CloseInv, NEW p \in Proc, StartChild(p)
  PROVE  CloseInv'
<1>0. Types /\ Ends /\ RefsCover /\ Forks
  BY DEF CloseInv
<1>1. PICK c : c = loc[p].kid
  OBVIOUS
<1>2. /\ At(p, "fork") /\ fdref[c] = fdref[p] /\ dataref[c] = dataref[p]
      /\ pc' = [pc EXCEPT ![p] = "idle", ![c] = "idle"]
      /\ loc' = [loc EXCEPT ![p] = NoLocals]
      /\ UNCHANGED refs /\ UNCHANGED ring
  BY <1>1 DEF StartChild
<1>3. pc[p] = "fork" /\ \A q \in Proc \ {p} : pc[q] = "checkpipe" => q \in stale'
  BY <1>2, AtStale
<1>4. /\ c \in Proc /\ c # p
      /\ \A q \in Proc : pc[q] = "fork" /\ loc[q].kid = c => q = p
      /\ \A e \in End : fdref[p][e] <= dataref[p][e]
  BY <1>1, <1>3, ForkFrame
<1>5. /\ pc' \in [Proc -> PC] /\ pc'[p] = "idle" /\ pc'[c] = "idle"
      /\ \A q \in Proc \ {p, c} : pc'[q] = pc[q]
      /\ loc' \in [Proc -> Locals] /\ \A q \in Proc \ {p} : loc'[q] = loc[q]
  BY <1>0, <1>2, <1>4, NoLocalsType DEF Types, PC
<1>6. UNCHANGED fdref /\ UNCHANGED dataref
  BY <1>2 DEF refs
<1>7. Types'
  BY <1>0, <1>2, <1>5, <1>6 DEF Types, RingTypes, ring
<1>8. Ends'
  <2> SUFFICES ASSUME NEW q \in Proc PROVE RightEnd(pc'[q], loc'[q])
    BY DEF Ends
  <2>1. CASE q \in {p, c}
    BY <1>5, <2>1 DEF RightEnd
  <2>2. CASE q \notin {p, c}
    BY <1>0, <1>5, <2>2 DEF Ends
  <2> QED BY <2>1, <2>2
<1>9. RefsCover'
  <2> SUFFICES ASSUME NEW q \in Proc, NEW e \in End, pc'[q] # "child"
               PROVE  fdref[q][e] + Between(q, e)' <= dataref[q][e]
    BY <1>6 DEF RefsCover
  <2>1. CASE q \in {p, c}
    <3>1. Between(q, e)' = 0
      BY <1>5, <2>1 DEF Between
    <3>2. fdref[q][e] \in Nat /\ fdref[q][e] <= dataref[q][e]
      BY <1>0, <1>2, <1>4, <2>1 DEF Types
    <3> QED BY <3>1, <3>2
  <2>2. CASE q \notin {p, c}
    <3>1. Between(q, e)' = Between(q, e)
      BY <1>5, <2>2 DEF Between
    <3> QED BY <1>0, <1>5, <2>2, <3>1 DEF RefsCover
  <2> QED BY <2>1, <2>2
<1>10. Forks'
  <2> SUFFICES ASSUME NEW q \in Proc, pc'[q] = "fork"
               PROVE  /\ pc'[loc'[q].kid] = "child"
                      /\ \A r \in Proc : pc'[r] = "fork" /\ loc'[r].kid = loc'[q].kid => r = q
    BY DEF Forks
  <2>1. \A r \in Proc : pc'[r] = "fork" => r # p /\ r # c /\ pc[r] = "fork" /\ loc'[r] = loc[r]
    BY <1>5
  <2>2. /\ pc[loc[q].kid] = "child" /\ loc[q].kid \in Proc
        /\ \A r \in Proc : pc[r] = "fork" /\ loc[r].kid = loc[q].kid => r = q
    BY <1>0, <2>1 DEF Forks, Types, Locals
  <2>3. loc[q].kid # c /\ loc[q].kid # p
    BY <1>3, <1>4, <2>1, <2>2
  <2> QED BY <1>5, <2>1, <2>2, <2>3
<1>11. Fresh'
  <2> SUFFICES ASSUME NEW q \in Proc, pc'[q] = "checkpipe", q \notin stale' PROVE FALSE
    BY DEF Fresh
  <2> QED BY <1>3, <1>5
<1> QED BY <1>7, <1>8, <1>9, <1>10, <1>11 DEF CloseInv

-----------------------------------------------------------------------------
(* A pipe that appears closed is, or a fork is under way *)

LEMMA InitCloseInv == Init => CloseInv
<1> SUFFICES ASSUME Init PROVE CloseInv
  OBVIOUS
<1>1. pc = [p \in Proc |-> IF p = Creator THEN "idle" ELSE "none"]
  BY DEF Init
<1>2. Types
  <2>1. /\ pc \in [Proc -> PC] /\ loc \in [Proc -> Locals]
        /\ fdref \in [Proc -> [End -> Nat]] /\ dataref \in [Proc -> [End -> Nat]]
    BY <1>1, NoLocalsType DEF Init, PC
  <2>2. RingTypes
    BY DEF Init, RingTypes
  <2> QED BY <2>1, <2>2 DEF Types
<1>3. \A p \in Proc : pc[p] \in {"idle", "none"} /\ pc[p] \notin InUse
  BY <1>1 DEF InUse
<1>4. Ends /\ Forks /\ Fresh
  BY <1>3 DEF Ends, RightEnd, Forks, Fresh
<1>5. RefsCover
  <2>1. \A p \in Proc, e \in End : Between(p, e) = 0
    BY <1>3 DEF Between
  <2>2. \A p \in Proc, e \in End : /\ fdref[p][e] = IF p = Creator THEN 1 ELSE 0
                                   /\ dataref[p][e] = fdref[p][e]
    BY DEF Init
  <2> QED BY <1>1, <2>1, <2>2 DEF RefsCover
<1> QED BY <1>2, <1>4, <1>5 DEF CloseInv

LEMMA NextCloseInv ==
  ASSUME CloseInv, [Next]_vars
  PROVE  CloseInv'
<1>1. CASE UNCHANGED vars
  <2>1. UNCHANGED <<fdref, dataref, pc, loc, stale, p_rpos, p_wpos, p_buf, written, shared>>
    BY <1>1 DEF vars, refs, ring
  <2>2. Fresh'
    BY <2>1 DEF CloseInv, Fresh, FdRef, Mappings
  <2> QED BY <2>1, <2>2 DEF CloseInv, Types, RingTypes, Ends, RefsCover, Between, Forks
<1>2. CASE Next
  <2>1. PICK p \in Proc :
          \/ Progress(p)
          \/ \E e \in End :
               CloseFd(p, e) \/ DupData(p, e) \/ \E n \in 1 .. MaxLen : Begin(p, e, n)
          \/ \E c \in Proc : Fork(p, c)
          \/ Destroy(p)
    BY <1>2 DEF Next
  <2>2. CASE Progress(p)
    BY <2>2, CloseDataInv, DupFdInv, StartChildInv, ForkPagesInv, CheckInv, CheckPipeInv,
       TestInv, GetInv, PutInv DEF Progress
  <2> QED BY <2>1, <2>2, CloseFdInv, DupDataInv, BeginInv, ForkInv, DestroyInv
<1> QED BY <1>1, <1>2

\* Only the comparison at the end of _pipe_is_closed finds a pipe closed, and
\* only in the time slice in which both counts were read.
LEMMA ClosedByCheck ==
  ASSUME CloseInv, [Next]_vars, NEW p \in Proc, pc[p] = "checkpipe", pc'[p] = "closed"
  PROVE  p \notin stale /\ loc[p].fd = PipeRef
<1>0. Types /\ Forks
  BY DEF CloseInv
<1>1. Next
  BY DEF vars
<1>2. PICK q \in Proc :
        \/ Progress(q)
        \/ \E e \in End :
             CloseFd(q, e) \/ DupData(q, e) \/ \E n \in 1 .. MaxLen : Begin(q, e, n)
        \/ \E c \in Proc : Fork(q, c)
        \/ Destroy(q)
  BY <1>1 DEF Next
<1>3. ASSUME NEW c, NEW l, Goto(q, c, l), c # "closed" PROVE FALSE
  BY <1>0, <1>3 DEF Goto, Types
<1>4. CASE Fork(q, p) \/ \E c \in Proc : Fork(q, c)
  BY <1>0, <1>4 DEF Fork, Types
<1>5. CASE StartChild(q)
  BY <1>0, <1>5 DEF StartChild, Types
<1>6. CASE \E e \in End : ForkFd(q, e) \/ ForkData(q, e)
  BY <1>6 DEF ForkFd, ForkData
<1>7. CASE \/ CloseData(q) \/ DupFd(q) \/ CheckRuns(q) \/ CheckFd(q) \/ ReturnClosed(q)
           \/ \E e \in End : CloseFd(q, e) \/ DupData(q, e)
           \/ Destroy(q)
  BY <1>3, <1>7 DEF CloseData, DupFd, CheckRuns, CheckFd, ReturnClosed, CloseFd, DupData, Destroy,
                    Return
<1>8. CASE \E e \in End, n \in 1 .. MaxLen : Begin(q, e, n)
  <2>1. PICK c, l : Goto(q, c, l) /\ c \in {"read", "write"}
    BY <1>8 DEF Begin
  <2> QED BY <1>3, <2>1
<1>9. CASE ReadTest(q) \/ Get(q) \/ WriteTest(q) \/ Put(q)
  <2>1. PICK c, l : Goto(q, c, l) /\ c \in {"idle", "check", "get", "get2", "read", "put", "put2", "write"}
    <3>1. CASE ReadTest(q)
      BY <3>1 DEF ReadTest, Return
    <3>2. CASE WriteTest(q)
      BY <3>2 DEF WriteTest, Return
    <3>3. CASE Get(q) \/ Put(q)
      BY <3>3 DEF Get, Put
    <3> QED BY <1>9, <3>1, <3>2, <3>3
  <2> QED BY <1>3, <2>1
<1>10. CASE CheckPipe(q)
  <2>1. PICK c, l : /\ c = IF q \in stale THEN "check"
                          ELSE IF loc[q].fd = PipeRef THEN "closed"
                          ELSE IF loc[q].end = "r" THEN "read" ELSE "write"
                    /\ Goto(q, c, l)
    BY <1>10 DEF CheckPipe
  <2>2. c = "closed"
    BY <1>3, <2>1
  <2>3. q = p
    BY <1>0, <2>1 DEF Goto, Types
  <2> QED BY <2>1, <2>2, <2>3
<1> QED BY <1>2, <1>4, <1>5, <1>6, <1>7, <1>8, <1>9, <1>10 DEF Progress

\* No time slice has ended, so the Fd count is that of now; without a child in
\* the making it is at most the number of Pipe pages mapped under descriptors
\* of the same end, so that no Pipe page is left for the other end.
LEMMA ClosedMeans ==
  ASSUME CloseInv, NEW p \in Proc, pc[p] = "checkpipe", p \notin stale, loc[p].fd = PipeRef,
         \A c \in Proc : ~HalfInherited(c, loc[p].end)
  PROVE  DataRef(Other(loc[p].end)) = 0
<1>0. Types /\ RefsCover /\ Fresh
  BY DEF CloseInv
<1>1. PICK e \in End : e = loc[p].end
  BY <1>0 DEF Types, Locals
<1>2. FdRef(e) = PipeRef
  BY <1>0, <1>1 DEF Fresh
<1>3. PipeRef = DataRef(e) + DataRef(Other(e))
  <2>1. DataRef("r") \in Nat /\ DataRef("w") \in Nat
    BY <1>0, Refs DEF End
  <2> QED BY <2>1 DEF PipeRef, Other, End
<1>4. \A q \in Proc : fdref[q][e] <= dataref[q][e]
  <2> TAKE q \in Proc
  <2>1. fdref[q][e] \in Nat /\ dataref[q][e] \in Nat
    BY <1>0 DEF Types
  <2>2. CASE pc[q] # "child"
    <3>1. Between(q, e) \in {0, 1}
      BY DEF Between
    <3>2. fdref[q][e] + Between(q, e) <= dataref[q][e]
      BY <1>0, <2>2 DEF RefsCover
    <3> QED BY <2>1, <3>1, <3>2
  <2>3. CASE pc[q] = "child"
    BY <1>1, <2>1, <2>3 DEF HalfInherited
  <2> QED BY <2>2, <2>3
<1>5. FdRef(e) <= DataRef(e) /\ FdRef(e) \in Nat /\ DataRef(e) \in Nat
  BY <1>0, <1>4, Refs
<1>6. Other(e) \in End /\ DataRef(Other(e)) \in Nat
  BY <1>0, Refs
<1> QED BY <1>1, <1>2, <1>3, <1>5, <1>6

\* _pipe_is_closed (user/lib/pipe.c:95) finds a pipe closed only when no
\* descriptor of the other end is left, or at an instant when fork or spawn has
\* given a child the Fd page and not yet the Pipe page: for any number of
\* processes that close, duplicate, fork, read, write and die in any order.
THEOREM FalseCloseOnlyInFork == Spec => ClosedOrForking
<1>1. ASSUME CloseInv, [Next]_vars
      PROVE  \A p \in Proc :
               pc[p] = "checkpipe" /\ pc'[p] = "closed" =>
                 \/ DataRef(Other(loc[p].end)) = 0
                 \/ \E c \in Proc : HalfInherited(c, loc[p].end)
  BY <1>1, ClosedByCheck, ClosedMeans
<1> QED BY <1>1, InitCloseInv, NextCloseInv, PTL DEF Spec, ClosedOrForking

-----------------------------------------------------------------------------
(* The bytes *)

\* At most one process reads and one writes.
OneEach ==
  \A p, q \in Proc : pc[p] \in InUse /\ pc[q] \in InUse /\ loc[p].end = loc[q].end => p = q

\* The positions are the numbers of bytes taken and written, as words.  When
\* p_wpos has wrapped the reader finds the ring empty for ever, so p_rpos does
\* not wrap, and p_wpos not again.
Positions ==
  /\ p_rpos < WORD
  /\ p_wpos = IF written < WORD THEN written ELSE written - WORD
  /\ p_rpos <= written /\ written <= p_rpos + PIPE_SIZE

\* What has been written and not taken is in the ring.
Contents ==
  \A k \in Nat : p_rpos <= k /\ k < written => p_buf[k % PIPE_SIZE] = k + 1 \/ k + 1 \in missing

\* A reader that has found the ring not empty and has not stored p_rpos.
Readers ==
  \A p \in Proc : pc[p] = "get" \/ (pc[p] = "get2" /\ ~loc[p].first) =>
    loc[p].pos = p_rpos /\ p_rpos < written /\ p_rpos + 1 < WORD

\* A writer that has found the ring not full and has not stored p_wpos: if it
\* has stored the byte, it is there.  One that has stored p_wpos first has the
\* last byte to store.
Writers ==
  \A p \in Proc :
    /\ pc[p] = "put" \/ (pc[p] = "put2" /\ ~loc[p].first) =>
         /\ loc[p].pos = p_wpos /\ loc[p].byte = written + 1
         /\ written < p_rpos + PIPE_SIZE
         /\ pc[p] = "put2" => p_buf[written % PIPE_SIZE] = written + 1
    /\ pc[p] = "put2" /\ loc[p].first =>
         /\ written > 0 /\ loc[p].byte = written
         /\ loc[p].pos % PIPE_SIZE = (written - 1) % PIPE_SIZE

RingFacts ==
  /\ OneEach
  /\ Positions
  /\ Contents
  /\ Readers
  /\ Writers

RingInv == ~shared => RingFacts

\* Numbers less than a ring apart have different places in it.
LEMMA SameSlot ==
  ASSUME NEW a \in Nat, NEW b \in Nat, a <= b, b < a + PIPE_SIZE,
         a % PIPE_SIZE = b % PIPE_SIZE
  PROVE  a = b
<1>1. PICK n : n = PIPE_SIZE
  OBVIOUS
<1>2. n \in Nat /\ n > 0
  BY <1>1, PipeAssumption
<1>3. PICK x, y, r : x = a \div n /\ y = b \div n /\ r = a % n
  OBVIOUS
<1>4. x \in Int /\ y \in Int /\ r \in Int /\ a = n * x + r /\ b = n * y + r
  BY <1>1, <1>2, <1>3
<1>5. CASE y <= x
  <2>1. n * y <= n * x
    BY <1>2, <1>4, <1>5
  <2>2. n * x \in Int /\ n * y \in Int
    BY <1>2, <1>4
  <2> QED BY <1>4, <2>1, <2>2
<1>6. CASE y >= x + 1
  <2>1. n * y >= n * x + n
    BY <1>2, <1>4, <1>6
  <2>2. n * x \in Int /\ n * y \in Int
    BY <1>2, <1>4
  <2> QED BY <1>1, <1>2, <1>4, <2>1, <2>2
<1> QED BY <1>4, <1>5, <1>6

\* A position that has wrapped has the place in the ring of one that has not.
LEMMA WrappedSlot ==
  ASSUME NEW a \in Nat, a >= WORD
  PROVE  (a - WORD) % PIPE_SIZE = a % PIPE_SIZE
<1>1. PICK n, w : n = PIPE_SIZE /\ w = WORD
  OBVIOUS
<1>2. n \in Nat /\ n > 0 /\ w \in Nat /\ w % n = 0
  BY <1>1, PipeAssumption
<1>3. PICK x, y : x = a \div n /\ y = w \div n
  OBVIOUS
<1>4. PICK r : r = a % n
  OBVIOUS
<1>5. x \in Int /\ y \in Int /\ r \in 0 .. n-1 /\ a = n * x + r /\ w = n * y
  BY <1>2, <1>3, <1>4
<1>6. a - w = n * (x - y) + r
  BY <1>2, <1>5
<1>7. (n * (x - y) + r) % n = r
  BY <1>2, <1>5
<1> QED BY <1>1, <1>4, <1>6, <1>7

Busy == {"get", "get2", "put", "put2"}

\* Nobody starts to read or write, and nobody starts to move a byte.
Bystanders ==
  \A q \in Proc :
    /\ pc'[q] \in InUse => pc[q] \in InUse /\ loc'[q].end = loc[q].end
    /\ pc'[q] \in Busy => pc'[q] = pc[q] /\ loc'[q] = loc[q]

\* All that is known of the ring when it does not change.
LEMMA SameRing ==
  ASSUME RingFacts, UNCHANGED ring
  PROVE  Positions' /\ Contents'
<1>1. UNCHANGED <<p_rpos, p_wpos, p_buf, written, missing>>
  BY DEF ring
<1> QED BY <1>1 DEF RingFacts, Positions, Contents

LEMMA BystandersInv ==
  ASSUME RingFacts, UNCHANGED ring, Bystanders
  PROVE  RingFacts'
<1>1. UNCHANGED <<p_rpos, p_wpos, p_buf, written, missing>>
  BY DEF ring
<1>2. OneEach'
  BY DEF RingFacts, OneEach, Bystanders
<1>3. Readers'
  BY <1>1 DEF RingFacts, Readers, Bystanders, Busy
<1>4. Writers'
  BY <1>1 DEF RingFacts, Writers, Bystanders, Busy
<1> QED BY <1>2, <1>3, <1>4, SameRing DEF RingFacts

\* A step of p alone: to where, and who stays.
LEMMA GotoStep ==
  ASSUME Types, NEW p \in Proc, NEW c, NEW l, Goto(p, c, l)
  PROVE  /\ pc'[p] = c /\ loc'[p] = l
         /\ \A q \in Proc \ {p} : pc'[q] = pc[q] /\ loc'[q] = loc[q]
BY DEF Goto, Types

\* Steps that move no byte.
LEMMA IdleSteps ==
  ASSUME CloseInv, NEW p \in Proc, NEW c, NEW l, Goto(p, c, l), c \notin Busy,
         c \in InUse => pc[p] \in InUse /\ l.end = loc[p].end
  PROVE  Bystanders
BY GotoStep DEF CloseInv, Bystanders

LEMMA OtherSteps ==
  ASSUME CloseInv, NEW p \in Proc,
         \/ CloseData(p) \/ DupFd(p) \/ StartChild(p)
         \/ \E e \in End : ForkFd(p, e) \/ ForkData(p, e) \/ CloseFd(p, e) \/ DupData(p, e)
         \/ CheckRuns(p) \/ CheckFd(p) \/ CheckPipe(p) \/ ReturnClosed(p)
         \/ \E c \in Proc : Fork(p, c)
         \/ Destroy(p)
  PROVE  UNCHANGED ring /\ Bystanders
<1>0. Types /\ loc[p] \in Locals
  BY DEF CloseInv, Types
<1>1. UNCHANGED ring
  BY DEF CloseData, DupFd, StartChild, ForkFd, ForkData, CloseFd, DupData, CheckRuns, CheckFd,
         CheckPipe, ReturnClosed, Fork, Destroy, ring
<1>2. ASSUME NEW c \in {"close", "dup", "idle", "none"}, NEW l, Goto(p, c, l) PROVE Bystanders
  BY <1>2, IdleSteps DEF Busy, InUse
<1>3. CASE \/ CloseData(p) \/ DupFd(p) \/ ReturnClosed(p) \/ Destroy(p)
           \/ \E e \in End : CloseFd(p, e) \/ DupData(p, e)
  BY <1>2, <1>3 DEF CloseData, DupFd, ReturnClosed, Destroy, CloseFd, DupData, Return
<1>4. CASE \E e \in End : ForkFd(p, e) \/ ForkData(p, e)
  BY <1>4 DEF ForkFd, ForkData, Bystanders
<1>5. CASE StartChild(p)
  <2>1. \A q \in Proc : \/ pc'[q] = "idle"
                        \/ pc'[q] = pc[q] /\ loc'[q] = loc[q]
    BY <1>0, <1>5 DEF StartChild, Types
  <2> QED BY <1>1, <2>1 DEF Bystanders, InUse, Busy
<1>6. CASE \E c \in Proc : Fork(p, c)
  <2>1. \A q \in Proc : \/ pc'[q] \in {"fork", "child"}
                        \/ pc'[q] = pc[q] /\ loc'[q] = loc[q]
    BY <1>0, <1>6 DEF Fork, Types
  <2> QED BY <1>1, <2>1 DEF Bystanders, InUse, Busy
<1>7. CASE CheckRuns(p) \/ CheckFd(p) \/ CheckPipe(p)
  <2>1. pc[p] \in InUse
    BY <1>7 DEF CheckRuns, CheckFd, CheckPipe, At, InUse
  <2>2. PICK c \in {"checkfd", "checkpipe", "check", "closed", "read", "write"} : \E x :
          \/ Goto(p, c, loc[p])
          \/ Goto(p, c, [loc[p] EXCEPT !.fd = x])
    BY <1>7 DEF CheckRuns, CheckFd, CheckPipe
  <2>3. PICK l : Goto(p, c, l) /\ l.end = loc[p].end
    <3>1. \A x : [loc[p] EXCEPT !.fd = x].end = loc[p].end
      BY <1>0 DEF Locals
    <3> QED BY <2>2, <3>1
  <2>4. c \notin Busy
    BY DEF Busy
  <2> QED BY <1>1, <2>1, <2>3, <2>4, IdleSteps
<1> QED BY <1>1, <1>3, <1>4, <1>5, <1>6, <1>7

\* A read or write that begins when nobody has the end in use.
LEMMA BeginRing ==
  ASSUME CloseInv, RingFacts, NEW p \in Proc, NEW e \in End, NEW n \in 1 .. MaxLen,
         Begin(p, e, n), ~shared'
  PROVE  RingFacts'
<1>0. Types
  BY DEF CloseInv
<1>1. UNCHANGED <<p_rpos, p_wpos, p_buf, written, missing>> /\ \A q \in Proc : ~Using(q, e)
  BY DEF Begin
<1>2. PICK c, l : /\ c = IF e = "r" THEN "read" ELSE "write"
                  /\ l = [NoLocals EXCEPT !.end = e, !.n = n]
  OBVIOUS
<1>3. Goto(p, c, l)
  BY <1>2 DEF Begin
<1>4. l.end = e /\ c \notin Busy
  BY <1>2 DEF NoLocals, Busy
<1>5. /\ pc'[p] = c /\ loc'[p] = l
      /\ \A q \in Proc \ {p} : pc'[q] = pc[q] /\ loc'[q] = loc[q]
  BY <1>0, <1>3, GotoStep
<1>6. OneEach'
  <2>1. \A q \in Proc : pc[q] \in InUse => loc[q].end # e
    BY <1>1 DEF Using, InUse
  <2> QED BY <1>4, <1>5, <2>1 DEF RingFacts, OneEach
<1>7. Positions' /\ Contents'
  BY <1>1 DEF RingFacts, Positions, Contents
<1>8. Readers'
  BY <1>1, <1>4, <1>5 DEF RingFacts, Readers, Busy
<1>9. Writers'
  BY <1>1, <1>4, <1>5 DEF RingFacts, Writers, Busy
<1> QED BY <1>6, <1>7, <1>8, <1>9 DEF RingFacts

\* The numbers that the ring is about.
LEMMA RingNumbers ==
  ASSUME CloseInv, RingFacts
  PROVE  /\ PIPE_SIZE \in Nat /\ PIPE_SIZE > 0 /\ WORD \in Nat /\ WORD > PIPE_SIZE
         /\ written \in Nat /\ p_rpos \in Nat /\ p_rpos < WORD
         /\ p_wpos = IF written < WORD THEN written ELSE written - WORD
         /\ p_rpos <= written /\ written <= p_rpos + PIPE_SIZE
         /\ p_wpos \in Nat
<1>1. p_rpos \in Nat /\ written \in Nat /\ p_wpos \in Nat
  BY DEF CloseInv, Types, RingTypes
<1> QED BY <1>1, PipeAssumption DEF RingFacts, Positions

\* The test of pipe_read: p_wpos beyond p_rpos means that it has not wrapped.
LEMMA ReadTestRing ==
  ASSUME CloseInv, RingFacts, NEW p \in Proc, ReadTest(p)
  PROVE  RingFacts'
<1>0. Types /\ loc[p] \in Locals
  BY DEF CloseInv, Types
<1>1. pc[p] = "read" /\ UNCHANGED ring /\ pc[p] \in InUse
  BY DEF ReadTest, At, InUse
<1>2. CASE Goto(p, "idle", NoLocals) \/ Goto(p, "check", loc[p])
  <2>1. Bystanders
    BY <1>1, <1>2, IdleSteps DEF Busy, InUse
  <2> QED BY <1>1, <2>1, BystandersInv
<1>3. ASSUME NEW f \in BOOLEAN, ~Empty,
             Goto(p, "get", [loc[p] EXCEPT !.pos = p_rpos, !.first = f])
      PROVE  RingFacts'
  <2>1. PICK l : l = [loc[p] EXCEPT !.pos = p_rpos, !.first = f]
    OBVIOUS
  <2>2. l.end = loc[p].end /\ l.pos = p_rpos
    BY <1>0, <2>1 DEF Locals
  <2>3. /\ pc'[p] = "get" /\ loc'[p] = l
        /\ \A q \in Proc \ {p} : pc'[q] = pc[q] /\ loc'[q] = loc[q]
    BY <1>0, <1>3, <2>1, GotoStep
  <2>4. OneEach'
    BY <1>1, <2>2, <2>3 DEF RingFacts, OneEach
  <2>5. UNCHANGED <<p_rpos, p_wpos, p_buf, written, missing>>
    BY <1>1 DEF ring
  <2>6. p_rpos < p_wpos
    BY <1>3, RingNumbers DEF Empty
  <2>7. p_rpos < written /\ p_rpos + 1 < WORD
    BY <2>6, RingNumbers
  <2>8. Readers'
    BY <2>2, <2>3, <2>5, <2>7 DEF RingFacts, Readers
  <2>9. Writers'
    BY <2>3, <2>5 DEF RingFacts, Writers
  <2> QED BY <1>1, <2>4, <2>8, <2>9, SameRing DEF RingFacts
<1> QED BY <1>2, <1>3 DEF ReadTest, Return

LEMMA SmallModulo ==
  ASSUME NEW n \in Nat, n > 0, NEW d \in 0 .. n-1
  PROVE  d % n = d /\ (d - n) % n = d
<1>1. d % n = d
  OBVIOUS
<1>2. PICK x, r : x = (d - n) \div n /\ r = (d - n) % n
  OBVIOUS
<1>3. x \in Int /\ r \in 0 .. n-1 /\ d - n = n * x + r
  BY <1>2
<1>4. x = -1
  <2>1. CASE x >= 0
    <3>1. n * x >= 0 /\ n * x \in Int
      BY <1>3, <2>1
    <3> QED BY <1>3, <3>1
  <2>2. CASE x <= -2
    <3>1. n * x <= n * (-2) /\ n * x \in Int
      BY <1>3, <2>2
    <3> QED BY <1>3, <3>1
  <2> QED BY <1>3, <2>1, <2>2
<1>5. n * (-1) = -n
  OBVIOUS
<1> QED BY <1>1, <1>2, <1>3, <1>4, <1>5

\* p_wpos - p_rpos, in the arithmetic of a word, is what there is to read.
LEMMA UnreadIs ==
  ASSUME CloseInv, RingFacts
  PROVE  Unread = written - p_rpos
<1>1. PICK d : d = written - p_rpos
  OBVIOUS
<1>2. d \in 0 .. WORD-1
  BY <1>1, RingNumbers
<1>3. WORD \in Nat /\ WORD > 0
  BY RingNumbers
<1>4. CASE written < WORD
  <2>1. p_wpos - p_rpos = d
    BY <1>1, <1>4, RingNumbers
  <2>2. d % WORD = d
    BY <1>2, <1>3, SmallModulo, Zenon
  <2> QED BY <1>1, <2>1, <2>2 DEF Unread
<1>5. CASE written >= WORD
  <2>1. p_wpos - p_rpos = d - WORD
    BY <1>1, <1>5, RingNumbers
  <2>2. (d - WORD) % WORD = d
    BY <1>2, <1>3, SmallModulo, Zenon
  <2> QED BY <1>1, <2>1, <2>2 DEF Unread
<1> QED BY <1>4, <1>5, RingNumbers

LEMMA WriteTestRing ==
  ASSUME CloseInv, RingFacts, NEW p \in Proc, WriteTest(p)
  PROVE  RingFacts'
<1>0. Types /\ loc[p] \in Locals
  BY DEF CloseInv, Types
<1>1. pc[p] = "write" /\ UNCHANGED ring /\ pc[p] \in InUse
  BY DEF WriteTest, At, InUse
<1>2. CASE Goto(p, "idle", NoLocals) \/ Goto(p, "check", loc[p])
  <2>1. Bystanders
    BY <1>1, <1>2, IdleSteps DEF Busy, InUse
  <2> QED BY <1>1, <2>1, BystandersInv
<1>3. ASSUME NEW f \in BOOLEAN, ~Full,
             Goto(p, "put", [loc[p] EXCEPT !.pos = p_wpos, !.first = f, !.byte = written + 1])
      PROVE  RingFacts'
  <2>1. PICK l : l = [loc[p] EXCEPT !.pos = p_wpos, !.first = f, !.byte = written + 1]
    OBVIOUS
  <2>2. l.end = loc[p].end /\ l.pos = p_wpos /\ l.byte = written + 1
    BY <1>0, <2>1 DEF Locals
  <2>3. /\ pc'[p] = "put" /\ loc'[p] = l
        /\ \A q \in Proc \ {p} : pc'[q] = pc[q] /\ loc'[q] = loc[q]
    BY <1>0, <1>3, <2>1, GotoStep
  <2>4. OneEach'
    BY <1>1, <2>2, <2>3 DEF RingFacts, OneEach
  <2>5. UNCHANGED <<p_rpos, p_wpos, p_buf, written, missing>>
    BY <1>1 DEF ring
  <2>6. written < p_rpos + PIPE_SIZE
    BY <1>3, UnreadIs, RingNumbers DEF Full
  <2>7. Readers'
    BY <2>3, <2>5 DEF RingFacts, Readers
  <2>8. Writers'
    BY <2>2, <2>3, <2>5, <2>6 DEF RingFacts, Writers
  <2> QED BY <1>1, <2>4, <2>7, <2>8, SameRing DEF RingFacts
<1> QED BY <1>2, <1>3 DEF WriteTest, Return

\* The one who reads is the only one who reads.
LEMMA OnlyReader ==
  ASSUME CloseInv, RingFacts, NEW p \in Proc, pc[p] \in {"get", "get2"},
         NEW q \in Proc, pc[q] \in {"get", "get2"}
  PROVE  q = p
BY DEF CloseInv, Ends, RightEnd, RingFacts, OneEach, InUse

LEMMA OnlyWriter ==
  ASSUME CloseInv, RingFacts, NEW p \in Proc, pc[p] \in {"put", "put2"},
         NEW q \in Proc, pc[q] \in {"put", "put2"}
  PROVE  q = p
BY DEF CloseInv, Ends, RightEnd, RingFacts, OneEach, InUse

\* pipe_read counts p_rpos up in one of its two steps.
LEMMA GetRing ==
  ASSUME CloseInv, RingFacts, NEW p \in Proc, Get(p)
  PROVE  RingFacts'
<1>0. Types /\ loc[p] \in Locals /\ RightEnd(pc[p], loc[p])
  BY DEF CloseInv, Types, Ends
<1>1. PICK l : l = loc[p]
  OBVIOUS
<1>2. /\ UNCHANGED <<p_wpos, p_buf, written, missing>> /\ pc[p] \in {"get", "get2"}
      /\ pc[p] \in InUse /\ loc[p].end = "r"
  BY <1>0 DEF Get, At, InUse, RightEnd
<1>3. \A q \in Proc : pc[q] \in {"get", "get2"} => q = p
  BY <1>2, OnlyReader
<1>4. PICK c, m : /\ Goto(p, c, m) /\ m.end = "r"
                  /\ \/ c = "get2" /\ m.first = l.first /\ m.pos = l.pos
                     \/ c = "read"
  <2>1. CASE Goto(p, "get2", IF l.first THEN l ELSE [l EXCEPT !.byte = Byte(l)])
    <3>1. PICK m : m = IF l.first THEN l ELSE [l EXCEPT !.byte = Byte(l)]
      OBVIOUS
    <3>2. m.end = "r" /\ m.first = l.first /\ m.pos = l.pos
      BY <1>0, <1>1, <1>2, <3>1 DEF Locals
    <3> QED BY <2>1, <3>1, <3>2
  <2>2. CASE Goto(p, "read", [NoLocals EXCEPT !.end = "r", !.n = l.n, !.i = l.i + 1])
    <3>1. [NoLocals EXCEPT !.end = "r", !.n = l.n, !.i = l.i + 1].end = "r"
      BY DEF NoLocals
    <3> QED BY <2>2, <3>1
  <2> QED BY <1>1, <2>1, <2>2 DEF Get
<1>5. /\ pc'[p] = c /\ loc'[p] = m
      /\ \A q \in Proc \ {p} : pc'[q] = pc[q] /\ loc'[q] = loc[q]
  BY <1>0, <1>4, GotoStep
<1>6. OneEach'
  BY <1>2, <1>4, <1>5 DEF RingFacts, OneEach
<1>7. CASE UNCHANGED p_rpos
  <2>1. Positions' /\ Contents'
    BY <1>2, <1>7 DEF RingFacts, Positions, Contents
  <2>2. Readers'
    <3>1. ASSUME c = "get2", ~m.first PROVE m.pos = p_rpos /\ p_rpos < written /\ p_rpos + 1 < WORD
      <4>1. ~l.first
        BY <1>4, <3>1
      <4>2. pc[p] = "get" \/ (pc[p] = "get2" /\ ~loc[p].first)
        BY <1>1, <1>2, <4>1
      <4> QED BY <1>1, <1>4, <3>1, <4>2 DEF RingFacts, Readers
    <3> QED BY <1>2, <1>3, <1>4, <1>5, <1>7, <3>1 DEF Readers
  <2>3. Writers'
    BY <1>2, <1>4, <1>5, <1>7 DEF RingFacts, Writers
  <2> QED BY <1>6, <2>1, <2>2, <2>3 DEF RingFacts
<1>8. CASE /\ p_rpos' = (l.pos + 1) % WORD
           /\ \/ pc[p] = "get" /\ l.first /\ c = "get2"
              \/ pc[p] = "get2" /\ ~l.first /\ c = "read"
  <2>1. l.pos = p_rpos /\ p_rpos < written /\ p_rpos + 1 < WORD
    BY <1>1, <1>8 DEF RingFacts, Readers
  <2>2. p_rpos' = p_rpos + 1
    <3>1. p_rpos + 1 \in 0 .. WORD-1 /\ WORD \in Nat /\ WORD > 0
      BY <2>1, RingNumbers
    <3>2. (p_rpos + 1) % WORD = p_rpos + 1
      BY <3>1, SmallModulo, Zenon
    <3> QED BY <1>8, <2>1, <3>2
  <2>3. Positions'
    BY <1>2, <2>1, <2>2, RingNumbers DEF Positions
  <2>4. Contents'
    BY <1>2, <2>2, RingNumbers DEF RingFacts, Contents
  <2>5. Readers'
    BY <1>3, <1>4, <1>5, <1>8 DEF Readers
  <2>6. Writers'
    <3> SUFFICES ASSUME NEW q \in Proc, pc'[q] \in {"put", "put2"}
                 PROVE  /\ pc[q] = pc'[q] /\ loc[q] = loc'[q]
                        /\ written < p_rpos + PIPE_SIZE => written < p_rpos' + PIPE_SIZE
      BY <1>2 DEF RingFacts, Writers
    <3>1. q # p
      BY <1>4, <1>5
    <3>2. written < p_rpos + PIPE_SIZE => written < p_rpos' + PIPE_SIZE
      BY <2>2, RingNumbers
    <3> QED BY <1>5, <3>1, <3>2
  <2> QED BY <1>6, <2>3, <2>4, <2>5, <2>6 DEF RingFacts
<1>9. \/ UNCHANGED p_rpos
      \/ /\ p_rpos' = (l.pos + 1) % WORD
         /\ \/ pc[p] = "get" /\ l.first /\ pc'[p] = "get2"
            \/ pc[p] = "get2" /\ ~l.first /\ pc'[p] = "read"
  BY <1>0, <1>1 DEF Get, At, Goto, Types
<1> QED BY <1>5, <1>7, <1>8, <1>9

\* The place of p_wpos in the ring, and its increment.
LEMMA NextPosition ==
  ASSUME CloseInv, RingFacts, written < p_rpos + PIPE_SIZE
  PROVE  /\ p_wpos % PIPE_SIZE = written % PIPE_SIZE
         /\ written % PIPE_SIZE \in 0 .. PIPE_SIZE-1
         /\ (p_wpos + 1) % WORD = IF written + 1 < WORD THEN written + 1 ELSE written + 1 - WORD
<1>0. WORD \in Nat /\ WORD > 0 /\ written \in Nat
  BY RingNumbers
<1>1. p_wpos % PIPE_SIZE = written % PIPE_SIZE
  <2>1. CASE written < WORD
    <3>1. p_wpos = written
      BY <2>1, RingNumbers
    <3> QED BY <3>1
  <2>2. CASE written >= WORD
    <3>1. p_wpos = written - WORD
      BY <2>2, RingNumbers
    <3> QED BY <1>0, <2>2, <3>1, WrappedSlot
  <2> QED BY <1>0, <2>1, <2>2
<1>2. written % PIPE_SIZE \in 0 .. PIPE_SIZE-1
  BY <1>0, Modulo, Zenon
<1>3. CASE written + 1 < WORD
  <2>1. p_wpos + 1 = written + 1 /\ written + 1 \in 0 .. WORD-1
    BY <1>0, <1>3, RingNumbers
  <2>2. (written + 1) % WORD = written + 1
    BY <1>0, <2>1, SmallModulo, Zenon
  <2> QED BY <1>1, <1>2, <1>3, <2>1, <2>2
<1>4. CASE written + 1 = WORD
  <2>1. p_wpos + 1 = WORD
    BY <1>0, <1>4, RingNumbers
  <2>2. WORD % WORD = 0
    BY <1>0
  <2> QED BY <1>0, <1>1, <1>2, <1>4, <2>1, <2>2
<1>5. CASE written + 1 > WORD
  <2>1. PICK d : d = written + 1 - WORD
    OBVIOUS
  <2>2. p_wpos + 1 = d /\ d \in 0 .. WORD-1
    BY <1>0, <1>5, <2>1, RingNumbers
  <2>3. d % WORD = d
    BY <1>0, <2>2, SmallModulo, Zenon
  <2> QED BY <1>0, <1>1, <1>2, <1>5, <2>1, <2>2, <2>3
<1> QED BY <1>0, <1>3, <1>4, <1>5

\* A store of byte b in its place harms no other byte in the ring.
LEMMA StoreKeeps ==
  ASSUME CloseInv, RingFacts, NEW b \in Nat, b > 0, b <= written + 1,
         b = written + 1 => written < p_rpos + PIPE_SIZE, b >= written,
         p_buf' = [p_buf EXCEPT ![(b - 1) % PIPE_SIZE] = b],
         missing' = missing \ {b}, UNCHANGED <<p_rpos, written>>
  PROVE  Contents' /\ p_buf'[(b - 1) % PIPE_SIZE] = b
<1>0. PICK s, w : s = (b - 1) % PIPE_SIZE /\ w = b - 1
  OBVIOUS
<1>1. w \in Nat /\ s = w % PIPE_SIZE
  BY <1>0
<1>2. s \in 0 .. PIPE_SIZE-1
  BY <1>1, Modulo, Zenon
<1>3. p_buf \in [0 .. PIPE_SIZE-1 -> Nat] /\ p_buf' = [p_buf EXCEPT ![s] = b]
  BY <1>0 DEF CloseInv, Types, RingTypes
<1>4. p_buf'[s] = b /\ \A x \in 0 .. PIPE_SIZE-1 : x # s => p_buf'[x] = p_buf[x]
  BY <1>2, <1>3
<1>5. Contents'
  <2> SUFFICES ASSUME NEW k \in Nat, p_rpos <= k, k < written
               PROVE  p_buf'[k % PIPE_SIZE] = k + 1 \/ k + 1 \in missing'
    BY DEF Contents
  <2>1. p_buf[k % PIPE_SIZE] = k + 1 \/ k + 1 \in missing
    BY DEF RingFacts, Contents
  <2>2. k % PIPE_SIZE \in 0 .. PIPE_SIZE-1
    BY Modulo, Zenon
  <2>3. CASE k = w
    BY <1>0, <1>1, <1>4, <2>3
  <2>4. CASE k # w
    <3>1. k <= w /\ w < k + PIPE_SIZE /\ k + 1 # b
      BY <1>0, <1>1, <2>4, RingNumbers
    <3>2. k % PIPE_SIZE # s
      BY <1>1, <2>4, <3>1, SameSlot
    <3> QED BY <1>4, <2>1, <2>2, <3>1, <3>2
  <2> QED BY <2>3, <2>4
<1> QED BY <1>0, <1>4, <1>5

\* pipe_write stores the byte in a place that no unread byte has, and counts
\* p_wpos up, in either order.
LEMMA PutRing ==
  ASSUME CloseInv, RingFacts, NEW p \in Proc, Put(p)
  PROVE  RingFacts'
<1>0. Types /\ loc[p] \in Locals /\ RightEnd(pc[p], loc[p])
  BY DEF CloseInv, Types, Ends
<1>1. PICK l : l = loc[p]
  OBVIOUS
<1>2. /\ UNCHANGED p_rpos /\ pc[p] \in {"put", "put2"}
      /\ pc[p] \in InUse /\ loc[p].end = "w" /\ l.end = "w"
  BY <1>0, <1>1 DEF Put, At, InUse, RightEnd
<1>3. \A q \in Proc : pc[q] \in {"put", "put2"} => q = p
  BY <1>2, OnlyWriter
<1>4. PICK c, m : /\ Goto(p, c, m) /\ m.end = "w"
                  /\ \/ pc[p] = "put" /\ c = "put2" /\ m = l
                     \/ pc[p] = "put2" /\ c = "write"
  <2>1. CASE pc[p] = "put" /\ Goto(p, "put2", l)
    BY <1>2, <2>1
  <2>2. CASE /\ pc[p] = "put2"
             /\ Goto(p, "write", [NoLocals EXCEPT !.end = "w", !.n = l.n, !.i = l.i + 1])
    <3>1. [NoLocals EXCEPT !.end = "w", !.n = l.n, !.i = l.i + 1].end = "w"
      BY DEF NoLocals
    <3> QED BY <2>2, <3>1
  <2> QED BY <1>1, <2>1, <2>2 DEF Put, At
<1>5. /\ pc'[p] = c /\ loc'[p] = m
      /\ \A q \in Proc \ {p} : pc'[q] = pc[q] /\ loc'[q] = loc[q]
  BY <1>0, <1>4, GotoStep
<1>6. OneEach'
  BY <1>2, <1>4, <1>5 DEF RingFacts, OneEach
<1>7. \A q \in Proc : pc'[q] \in {"get", "get2"} => pc[q] = pc'[q] /\ loc[q] = loc'[q]
  BY <1>4, <1>5
<1>8. \A q \in Proc : pc'[q] \in {"put", "put2"} => q = p /\ c = "put2" /\ pc[p] = "put" /\ m = l
  BY <1>3, <1>4, <1>5
<1>9. CASE PutByte(l) /\ (IF l.first THEN pc[p] = "put2" ELSE pc[p] = "put")
  <2>1. /\ p_buf' = [p_buf EXCEPT ![l.pos % PIPE_SIZE] = l.byte]
        /\ missing' = missing \ {l.byte} /\ UNCHANGED <<p_wpos, written>>
    BY <1>9 DEF PutByte
  <2>2. written \in Nat
    BY RingNumbers
  <2>3. /\ l.byte \in Nat /\ l.byte > 0 /\ l.byte <= written + 1 /\ l.byte >= written
        /\ l.byte = written + 1 => written < p_rpos + PIPE_SIZE
        /\ l.pos % PIPE_SIZE = (l.byte - 1) % PIPE_SIZE
        /\ ~l.first => l.pos = p_wpos /\ l.byte = written + 1
    <3>1. CASE l.first
      <4>1. /\ written > 0 /\ l.byte = written
            /\ l.pos % PIPE_SIZE = (written - 1) % PIPE_SIZE
        BY <1>1, <1>9, <3>1 DEF RingFacts, Writers
      <4> QED BY <2>2, <3>1, <4>1
    <3>2. CASE ~l.first
      <4>1. l.pos = p_wpos /\ l.byte = written + 1 /\ written < p_rpos + PIPE_SIZE
        BY <1>1, <1>9, <3>2 DEF RingFacts, Writers
      <4>2. p_wpos % PIPE_SIZE = written % PIPE_SIZE
        BY <4>1, NextPosition
      <4>3. l.byte - 1 = written
        BY <2>2, <4>1
      <4> QED BY <2>2, <4>1, <4>2, <4>3
    <3> QED BY <3>1, <3>2
  <2>4. Contents' /\ p_buf'[(l.byte - 1) % PIPE_SIZE] = l.byte
    BY <1>2, <2>1, <2>3, StoreKeeps
  <2>5. Positions'
    BY <1>2, <2>1 DEF RingFacts, Positions
  <2>6. Readers'
    BY <1>2, <1>7, <2>1 DEF RingFacts, Readers
  <2>7. Writers'
    <3> SUFFICES ASSUME pc[p] = "put", m = l
                 PROVE  /\ ~l.first /\ l.pos = p_wpos /\ l.byte = written + 1
                        /\ written < p_rpos + PIPE_SIZE
                        /\ p_buf'[written % PIPE_SIZE] = written + 1
      BY <1>2, <1>4, <1>5, <1>8, <2>1 DEF Writers
    <3>1. ~l.first
      BY <1>9
    <3>2. l.byte - 1 = written
      BY <2>2, <2>3, <3>1
    <3> QED BY <2>3, <2>4, <3>1, <3>2
  <2> QED BY <1>6, <2>4, <2>5, <2>6, <2>7 DEF RingFacts
<1>10. CASE PutIndex(l) /\ (IF l.first THEN pc[p] = "put" ELSE pc[p] = "put2")
  <2>1. /\ p_wpos' = (l.pos + 1) % WORD /\ written' = written + 1 /\ UNCHANGED p_buf
        /\ missing' = IF l.first THEN missing \cup {l.byte} ELSE missing
    BY <1>10 DEF PutIndex
  <2>2. written \in Nat
    BY RingNumbers
  <2>3. /\ l.pos = p_wpos /\ l.byte = written + 1 /\ written < p_rpos + PIPE_SIZE
        /\ ~l.first => p_buf[written % PIPE_SIZE] = written + 1
    BY <1>1, <1>10 DEF RingFacts, Writers
  <2>4. /\ p_wpos % PIPE_SIZE = written % PIPE_SIZE
        /\ p_wpos' = IF written + 1 < WORD THEN written + 1 ELSE written + 1 - WORD
    <3>1. /\ p_wpos % PIPE_SIZE = written % PIPE_SIZE
          /\ (p_wpos + 1) % WORD = IF written + 1 < WORD THEN written + 1 ELSE written + 1 - WORD
      BY <2>3, NextPosition
    <3>2. p_wpos' = (p_wpos + 1) % WORD
      BY <2>1, <2>3
    <3> QED BY ONLY <3>1, <3>2
  <2>5. Positions'
    BY <1>2, <2>1, <2>3, <2>4, RingNumbers DEF Positions
  <2>6. Contents'
    <3> SUFFICES ASSUME NEW k \in Nat, p_rpos <= k, k < written + 1
                 PROVE  p_buf[k % PIPE_SIZE] = k + 1 \/ k + 1 \in missing'
      BY <1>2, <2>1 DEF Contents
    <3>1. CASE k = written
      BY <2>1, <2>3, <3>1
    <3>2. CASE k < written
      BY <2>1, <3>2 DEF RingFacts, Contents
    <3> QED BY <2>2, <3>1, <3>2
  <2>7. Readers'
    <3>1. \A q \in Proc : p_rpos < written => p_rpos < written'
      BY <2>1, RingNumbers
    <3> QED BY <1>2, <1>7, <3>1 DEF RingFacts, Readers
  <2>8. Writers'
    <3> SUFFICES ASSUME pc[p] = "put", m = l
                 PROVE  /\ l.first /\ written' > 0 /\ l.byte = written'
                        /\ l.pos % PIPE_SIZE = (written' - 1) % PIPE_SIZE
      BY <1>2, <1>4, <1>5, <1>8 DEF Writers
    <3>1. l.first
      BY <1>10
    <3>2. written' - 1 = written /\ written' > 0
      BY <2>1, <2>2
    <3> QED BY <2>1, <2>3, <2>4, <3>1, <3>2
  <2> QED BY <1>6, <2>5, <2>6, <2>7, <2>8 DEF RingFacts
<1> QED BY <1>1, <1>9, <1>10 DEF Put, At

LEMMA InitRingInv == Init => RingInv
<1> SUFFICES ASSUME Init PROVE RingFacts
  BY DEF RingInv
<1>1. \A p \in Proc : pc[p] \notin InUse /\ pc[p] \notin Busy
  BY DEF Init, InUse, Busy
<1>2. OneEach /\ Readers /\ Writers
  BY <1>1 DEF OneEach, Readers, Writers, Busy
<1>3. Positions /\ Contents
  BY PipeAssumption DEF Init, Positions, Contents
<1> QED BY <1>2, <1>3 DEF RingFacts

LEMMA NextRingInv ==
  ASSUME CloseInv, RingInv, [Next]_vars
  PROVE  RingInv'
<1>1. CASE UNCHANGED vars
  <2>1. UNCHANGED shared /\ UNCHANGED ring
    BY <1>1 DEF vars, ring
  <2>2. Bystanders
    BY <1>1 DEF vars, Bystanders
  <2> QED BY <2>1, <2>2, BystandersInv DEF RingInv
<1>2. CASE Next
  <2>1. PICK p \in Proc :
          \/ Progress(p)
          \/ \E e \in End :
               CloseFd(p, e) \/ DupData(p, e) \/ \E n \in 1 .. MaxLen : Begin(p, e, n)
          \/ \E c \in Proc : Fork(p, c)
          \/ Destroy(p)
    BY <1>2 DEF Next
  <2>2. CASE \/ CloseData(p) \/ DupFd(p) \/ StartChild(p)
             \/ \E e \in End : ForkFd(p, e) \/ ForkData(p, e) \/ CloseFd(p, e) \/ DupData(p, e)
             \/ CheckRuns(p) \/ CheckFd(p) \/ CheckPipe(p) \/ ReturnClosed(p)
             \/ \E c \in Proc : Fork(p, c)
             \/ Destroy(p)
    <3>1. UNCHANGED ring /\ Bystanders
      BY <2>2, OtherSteps
    <3>2. UNCHANGED shared
      BY <3>1 DEF ring
    <3> QED BY <3>1, <3>2, BystandersInv DEF RingInv
  <2>3. CASE ReadTest(p) \/ WriteTest(p) \/ Get(p) \/ Put(p)
    <3>1. UNCHANGED shared
      BY <2>3 DEF ReadTest, WriteTest, Get, Put, ring
    <3> QED BY <2>3, <3>1, ReadTestRing, WriteTestRing, GetRing, PutRing DEF RingInv
  <2>4. CASE \E e \in End, n \in 1 .. MaxLen : Begin(p, e, n)
    <3>1. ~shared' => ~shared
      BY <2>4 DEF Begin
    <3> QED BY <2>4, <3>1, BeginRing DEF RingInv
  <2> QED BY <2>1, <2>2, <2>3, <2>4 DEF Progress
<1> QED BY <1>1, <1>2

\* While no end of a pipe has had two users at the same time, each byte whose
\* position was stored and that was not taken is in its place (pipe_read and
\* pipe_write, user/lib/pipe.c:132, 172), unless its writer was stopped between
\* its two stores: for any ring, any number of bytes, either order of the
\* accesses of each increment, and readers and writers killed anywhere.
THEOREM UnreadBytesKept == Spec => []UnreadKept
<1>1. CloseInv /\ RingInv /\ [Next]_vars => CloseInv' /\ RingInv'
  BY NextCloseInv, NextRingInv
<1>2. CloseInv /\ RingInv => UnreadKept
  <2> SUFFICES ASSUME CloseInv, RingInv, ~shared, NEW k \in written - Unread + 1 .. written
               PROVE  p_buf[(k - 1) % PIPE_SIZE] = k \/ k \in missing
    BY DEF UnreadKept
  <2>1. RingFacts
    BY DEF RingInv
  <2>2. Unread = written - p_rpos /\ p_rpos \in Nat /\ written \in Nat
    BY <2>1, UnreadIs, RingNumbers
  <2>3. PICK j : j = k - 1
    OBVIOUS
  <2>4. j \in Nat /\ p_rpos <= j /\ j < written /\ j + 1 = k
    BY <2>2, <2>3
  <2> QED BY <2>1, <2>3, <2>4 DEF RingFacts, Contents
<1> QED BY <1>1, <1>2, InitCloseInv, InitRingInv, PTL DEF Spec
=============================================================================
