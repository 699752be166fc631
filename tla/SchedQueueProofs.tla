-------------------------- MODULE SchedQueueProofs ---------------------------
(***************************************************************************)
(* Proofs about SchedQueue, for any number of environments: the links of   *)
(* include/queue.h are those of a list of the RUNNABLE environments, and   *)
(* every operation on them is an operation of module RunList.              *)
(*                                                                         *)
(* The invariant says which sequence the memory represents, which fixes    *)
(* the links of the listed elements and nothing of the others: theirs are  *)
(* whatever the last removal left.                                         *)
(***************************************************************************)
EXTENDS SchedQueue, FiniteSetTheorems, SequenceTheorems, WellFoundedInduction, TLAPS

QP == INSTANCE QueueProofs

Memory ==
  [first : Env \cup {NULL}, last : Address,
   next : [Env -> Env \cup {NULL}], prev : [Env -> Address \cup {NULL}]]

Before(s, i) == IF i = 1 THEN HEAD ELSE s[i-1]
After(s, i)  == IF i = Len(s) THEN NULL ELSE s[i+1]
Last(s)      == IF Len(s) = 0 THEN HEAD ELSE s[Len(s)]
First(s)     == IF Len(s) = 0 THEN NULL ELSE s[1]

NoRepeats(s) == \A i, j \in 1 .. Len(s) : s[i] = s[j] => i = j

\* The links in m are those of the list s.
Represents(m, s) ==
  /\ m.first = First(s)
  /\ m.last = Last(s)
  /\ \A i \in 1 .. Len(s) : m.next[s[i]] = After(s, i) /\ m.prev[s[i]] = Before(s, i)

Runnable == {e \in Env : st[e] = "RUNNABLE"}

Statuses == {"FREE", "BUILDING", "RUNNABLE", "BLOCKED"}

Types ==
  /\ st \in [Env -> Statuses]
  /\ curenv \in Env \cup {NULL}

\* The memory m is that of the list s, which lists the elements of R.
Lists(m, s, R) ==
  m \in Memory /\ s \in Seq(Env) /\ QP!Lists(s, R) /\ Represents(m, s)

IInv == Types /\ Lists(q, Walk, Runnable)

-----------------------------------------------------------------------------
(* The walk along the links *)

N == Cardinality(Env)

\* One step of the walk along the links of m, as in the definition of Walk.
Steps(m, at) ==
  [i \in 0 .. N |-> IF i = 0 THEN m.first
                    ELSE IF at[i-1] = NULL THEN NULL ELSE m.next[at[i-1]]]

\* A list without repeats is no longer than there are environments.
LEMMA LengthBound ==
  ASSUME NEW s \in Seq(Env), NoRepeats(s)
  PROVE  /\ N \in Nat /\ Len(s) \in Nat /\ Len(s) <= N
         /\ \A i \in 1 .. Len(s) : s[i] \in Env
<1>1. Len(s) \in Nat /\ s \in [1 .. Len(s) -> Env]
  BY LenProperties
<1>2. s \in Injection(1 .. Len(s), Env)
  BY <1>1 DEF NoRepeats, Injection, IsInjective
<1>3. IsFiniteSet(Env) /\ N \in Nat
  BY QueueAssumption, FS_CardinalityType DEF N
<1>4. Cardinality(1 .. Len(s)) = Len(s)
  BY <1>1, FS_Interval
<1>5. Cardinality(1 .. Len(s)) <= N
  BY <1>2, <1>3, FS_Injection DEF N
<1> QED BY <1>1, <1>3, <1>4, <1>5

\* There is one walk only: two would differ first at some step.
LEMMA WalkUnique ==
  ASSUME NEW m, NEW f, NEW g, N \in Nat, f = Steps(m, f), g = Steps(m, g)
  PROVE  f = g
<1>1. /\ \A i \in 0 .. N : f[i] = IF i = 0 THEN m.first
                    ELSE IF f[i-1] = NULL THEN NULL ELSE m.next[f[i-1]]
      /\ \A i \in 0 .. N : g[i] = IF i = 0 THEN m.first
                    ELSE IF g[i-1] = NULL THEN NULL ELSE m.next[g[i-1]]
      /\ f = [i \in 0 .. N |-> f[i]] /\ g = [i \in 0 .. N |-> g[i]]
  BY DEF Steps
<1> DEFINE D == {i \in 0 .. N : f[i] # g[i]}
<1>2. SUFFICES ASSUME D # {} PROVE FALSE
  BY <1>1
<1>3. D \subseteq Nat
  BY DEF D
<1>4. PICK x \in D : \A y \in D : ~(<<y, x>> \in OpToRel(<, Nat))
  BY <1>2, <1>3, NatLessThanWellFounded, WFMin
<1>5. \A y \in D : ~(y < x)
  BY <1>3, <1>4 DEF OpToRel
<1>6. x \in 0 .. N /\ f[x] # g[x]
  BY DEF D
<1>7. x # 0
  BY <1>1, <1>6
<1>8. x-1 \in 0 .. N /\ x-1 < x
  BY <1>6, <1>7
<1>9. f[x-1] = g[x-1]
  BY <1>5, <1>8 DEF D
<1> QED BY <1>1, <1>6, <1>7, <1>9

\* What Walk is, of any memory.
WalkOf(m) ==
  LET at[i \in 0 .. N] == IF i = 0 THEN m.first
                          ELSE IF at[i-1] = NULL THEN NULL
                          ELSE m.next[at[i-1]]
      n == Cardinality({i \in 0 .. N : at[i] # NULL})
  IN [i \in 1 .. n |-> at[i-1]]

\* If the memory represents a list, the walk meets its elements in order.
LEMMA WalkOfRepresented ==
  ASSUME NEW m, NEW s \in Seq(Env), NoRepeats(s), Represents(m, s)
  PROVE  WalkOf(m) = s
<1>0. /\ N \in Nat /\ Len(s) \in Nat /\ Len(s) <= N
      /\ \A i \in 1 .. Len(s) : s[i] \in Env
  BY LengthBound
<1> DEFINE g == [i \in 0 .. N |-> IF i < Len(s) THEN s[i+1] ELSE NULL]
           f == CHOOSE h : h = Steps(m, h)
           n == Cardinality({i \in 0 .. N : f[i] # NULL})
<1>1. g = Steps(m, g)
  <2> SUFFICES ASSUME NEW i \in 0 .. N
               PROVE  g[i] = IF i = 0 THEN m.first
                             ELSE IF g[i-1] = NULL THEN NULL ELSE m.next[g[i-1]]
    BY DEF Steps
  <2>1. NULL \notin Env
    BY QueueAssumption
  <2>2. CASE i = 0
    BY <1>0, <2>2 DEF Represents, First
  <2>3. CASE i # 0 /\ i - 1 < Len(s)
    <3>1. g[i-1] = s[i] /\ g[i-1] # NULL /\ i \in 1 .. Len(s)
      BY <1>0, <2>1, <2>3
    <3>2. m.next[s[i]] = After(s, i)
      BY <3>1 DEF Represents
    <3>3. g[i] = After(s, i)
      BY <1>0, <2>3 DEF After
    <3> QED BY <2>3, <3>1, <3>2, <3>3
  <2>4. CASE i # 0 /\ ~(i - 1 < Len(s))
    BY <1>0, <2>4
  <2> QED BY <2>2, <2>3, <2>4
<1>2. f = g
  <2>1. f = Steps(m, f)
    BY <1>1
  <2> HIDE DEF f, g
  <2> QED BY <1>0, <1>1, <2>1, WalkUnique
<1>3. {i \in 0 .. N : f[i] # NULL} = 0 .. Len(s) - 1
  <2>1. NULL \notin Env
    BY QueueAssumption
  <2>2. \A i \in 0 .. N : g[i] # NULL <=> i < Len(s)
    BY <1>0, <2>1
  <2> HIDE DEF f, g
  <2> QED BY <1>0, <1>2, <2>2
<1>4. n = Len(s)
  <2>0. 0 \in Int /\ Len(s) - 1 \in Int
    BY <1>0
  <2>1. Cardinality(0 .. Len(s) - 1) = IF 0 > Len(s) - 1 THEN 0 ELSE Len(s) - 1 - 0 + 1
    BY <2>0, FS_Interval, Zenon
  <2>2. Cardinality(0 .. Len(s) - 1) = Len(s)
    BY <1>0, <2>1
  <2> QED BY <1>3, <2>2
<1>5. WalkOf(m) = [i \in 1 .. n |-> f[i-1]]
  BY DEF WalkOf, Steps
<1>6. \A i \in 1 .. Len(s) : f[i-1] = s[i]
  <2> HIDE DEF f
  <2> QED BY <1>0, <1>2
<1>7. s = [i \in 1 .. Len(s) |-> s[i]]
  BY LenProperties
<1> HIDE DEF f, g, n
<1> QED BY <1>4, <1>5, <1>6, <1>7

LEMMA WalkIs == Walk = WalkOf(q) /\ Walk' = WalkOf(q')
  BY DEF Walk, WalkOf, N

-----------------------------------------------------------------------------
(* The macros *)

\* Linking an element that is in no list at the head.
LEMMA InsertHead ==
  ASSUME NEW m \in Memory, NEW s \in Seq(Env), NoRepeats(s), Represents(m, s),
         NEW e \in Env, \A i \in 1 .. Len(s) : s[i] # e
  PROVE  /\ TAILQ_INSERT_HEAD(m, e) \in Memory
         /\ Represents(TAILQ_INSERT_HEAD(m, e), <<e>> \o s)
<1> DEFINE u == <<e>> \o s
           t == TAILQ_INSERT_HEAD(m, e)
<1>0. /\ Len(s) \in Nat /\ \A i \in 1 .. Len(s) : s[i] \in Env
      /\ NULL \notin Env /\ HEAD \notin Env
  BY LengthBound, QueueAssumption
<1>1. Len(u) = Len(s) + 1 /\ \A i \in 1 .. Len(s) + 1 : u[i] = IF i = 1 THEN e ELSE s[i-1]
  OBVIOUS
<1>2. m.first = NULL <=> Len(s) = 0
  BY <1>0 DEF Represents, First
<1>3. Len(s) # 0 => m.first = s[1] /\ s[1] \in Env /\ s[1] # e
  BY <1>0 DEF Represents, First
<1>4. /\ t.first = e
      /\ t.last = IF Len(s) = 0 THEN e ELSE m.last
      /\ t.next = [m.next EXCEPT ![e] = m.first]
      /\ t.prev = IF Len(s) = 0 THEN [m.prev EXCEPT ![e] = HEAD]
                  ELSE [m.prev EXCEPT ![s[1]] = e, ![e] = HEAD]
      /\ t = [first |-> t.first, last |-> t.last, next |-> t.next, prev |-> t.prev]
  <2>1. PICK l : l = IF m.first # NULL THEN [m EXCEPT !.prev[m.first] = e]
                                       ELSE [m EXCEPT !.last = e]
    OBVIOUS
  <2>2. /\ l.first = m.first /\ l.next = m.next
        /\ l.last = IF Len(s) = 0 THEN e ELSE m.last
        /\ l.prev = IF Len(s) = 0 THEN m.prev ELSE [m.prev EXCEPT ![s[1]] = e]
        /\ DOMAIN l = {"first", "last", "next", "prev"}
        /\ l = [x \in DOMAIN l |-> l[x]]
    BY <1>2, <1>3, <2>1 DEF Memory
  <2>3. t = [l EXCEPT !.next[e] = m.first, !.first = e, !.prev[e] = HEAD]
    BY <2>1 DEF TAILQ_INSERT_HEAD
  <2> HIDE DEF t
  <2>4. /\ t.first = e /\ t.last = l.last
        /\ t.next = [l.next EXCEPT ![e] = m.first]
        /\ t.prev = [l.prev EXCEPT ![e] = HEAD]
        /\ t = [first |-> t.first, last |-> t.last, next |-> t.next, prev |-> t.prev]
    BY <2>2, <2>3
  <2> QED BY <2>2, <2>4
<1> HIDE DEF t, u
<1>5. t \in Memory
  <2>1. t.first \in Env \cup {NULL} /\ t.last \in Address
    BY <1>4 DEF Memory, Address
  <2>2. t.next \in [Env -> Env \cup {NULL}]
    BY <1>4 DEF Memory
  <2>3. t.prev \in [Env -> Address \cup {NULL}]
    BY <1>4 DEF Memory, Address
  <2> QED BY <1>4, <2>1, <2>2, <2>3 DEF Memory
<1>6. t.first = First(u) /\ t.last = Last(u)
  <2>1. First(u) = e
    BY <1>0, <1>1 DEF First
  <2>2. Last(u) = IF Len(s) = 0 THEN e ELSE s[Len(s)]
    BY <1>0, <1>1 DEF Last
  <2>3. m.last = Last(s)
    BY DEF Represents
  <2> QED BY <1>4, <2>1, <2>2, <2>3 DEF Last
<1>7. ASSUME NEW i \in 1 .. Len(u)
      PROVE  t.next[u[i]] = After(u, i) /\ t.prev[u[i]] = Before(u, i)
  <2>0. m.next \in [Env -> Env \cup {NULL}] /\ m.prev \in [Env -> Address \cup {NULL}]
    BY DEF Memory
  <2>1. CASE i = 1
    <3>1. u[1] = e /\ t.next[e] = m.first /\ t.prev[e] = HEAD
      BY <1>0, <1>1, <1>4, <2>0
    <3>2. After(u, 1) = m.first
      BY <1>0, <1>1 DEF After, Represents, First
    <3> QED BY <2>1, <3>1, <3>2 DEF Before
  <2>2. CASE i # 1
    <3>1. i-1 \in 1 .. Len(s) /\ u[i] = s[i-1] /\ s[i-1] # e /\ s[i-1] \in Env
      BY <1>0, <1>1, <2>2
    <3>2. m.next[s[i-1]] = After(s, i-1) /\ m.prev[s[i-1]] = Before(s, i-1)
      BY <3>1 DEF Represents
    <3>3. After(u, i) = After(s, i-1)
      BY <1>0, <1>1, <2>2, <3>1 DEF After
    <3>4. t.next[s[i-1]] = m.next[s[i-1]]
      BY <1>4, <2>0, <3>1
    <3>5. Before(u, i) = IF i = 2 THEN e ELSE Before(s, i-1)
      BY <1>0, <1>1, <2>2, <3>1 DEF Before
    <3>6. s[i-1] = s[1] <=> i = 2
      BY <1>0, <3>1 DEF NoRepeats
    <3>7. t.prev[s[i-1]] = IF i = 2 THEN e ELSE m.prev[s[i-1]]
      BY <1>0, <1>4, <2>0, <3>1, <3>6
    <3> QED BY <3>1, <3>2, <3>3, <3>4, <3>5, <3>7
  <2> QED BY <2>1, <2>2
<1> QED BY <1>5, <1>6, <1>7 DEF Represents, t, u

\* Linking an element that is in no list at the tail.
LEMMA InsertTail ==
  ASSUME NEW m \in Memory, NEW s \in Seq(Env), NoRepeats(s), Represents(m, s),
         NEW e \in Env, \A i \in 1 .. Len(s) : s[i] # e
  PROVE  /\ TAILQ_INSERT_TAIL(m, e) \in Memory
         /\ Represents(TAILQ_INSERT_TAIL(m, e), Append(s, e))
<1> DEFINE u == Append(s, e)
           t == TAILQ_INSERT_TAIL(m, e)
<1>0. /\ Len(s) \in Nat /\ \A i \in 1 .. Len(s) : s[i] \in Env
      /\ NULL \notin Env /\ HEAD \notin Env
  BY LengthBound, QueueAssumption
<1>1. Len(u) = Len(s) + 1 /\ \A i \in 1 .. Len(s) + 1 : u[i] = IF i = Len(s) + 1 THEN e ELSE s[i]
  BY <1>0
<1>2. m.last = IF Len(s) = 0 THEN HEAD ELSE s[Len(s)]
  BY DEF Represents, Last
<1>3. Len(s) # 0 => m.last \in Env /\ m.last # e /\ m.last # HEAD
  BY <1>0, <1>2
<1>4. /\ t.first = IF Len(s) = 0 THEN e ELSE m.first
      /\ t.last = e
      /\ t.next = IF Len(s) = 0 THEN [m.next EXCEPT ![e] = NULL]
                  ELSE [m.next EXCEPT ![e] = NULL, ![s[Len(s)]] = e]
      /\ t.prev = [m.prev EXCEPT ![e] = m.last]
      /\ t = [first |-> t.first, last |-> t.last, next |-> t.next, prev |-> t.prev]
  <2>1. PICK l : l = [m EXCEPT !.next[e] = NULL, !.prev[e] = m.last]
    OBVIOUS
  <2>2. /\ l.first = m.first /\ l.last = m.last
        /\ l.next = [m.next EXCEPT ![e] = NULL]
        /\ l.prev = [m.prev EXCEPT ![e] = m.last]
        /\ DOMAIN l = {"first", "last", "next", "prev"}
        /\ l = [x \in DOMAIN l |-> l[x]]
    BY <2>1 DEF Memory
  <2>3. PICK r : r = Store(l, m.last, e)
    OBVIOUS
  <2>4. /\ r.first = IF Len(s) = 0 THEN e ELSE m.first
        /\ r.prev = l.prev
        /\ r.next = IF Len(s) = 0 THEN l.next ELSE [l.next EXCEPT ![s[Len(s)]] = e]
        /\ DOMAIN r = {"first", "last", "next", "prev"}
        /\ r = [x \in DOMAIN r |-> r[x]]
    BY <1>2, <1>3, <2>2, <2>3 DEF Store
  <2>5. t = [r EXCEPT !.last = e]
    BY <2>1, <2>3 DEF TAILQ_INSERT_TAIL
  <2> HIDE DEF t
  <2>6. /\ t.first = r.first /\ t.last = e /\ t.next = r.next /\ t.prev = r.prev
        /\ t = [first |-> t.first, last |-> t.last, next |-> t.next, prev |-> t.prev]
    BY <2>4, <2>5
  <2> QED BY <2>2, <2>4, <2>6
<1> HIDE DEF t, u
<1>5. t \in Memory
  <2>1. t.first \in Env \cup {NULL} /\ t.last \in Address
    BY <1>4 DEF Memory, Address
  <2>2. t.next \in [Env -> Env \cup {NULL}]
    BY <1>4 DEF Memory
  <2>3. t.prev \in [Env -> Address \cup {NULL}]
    BY <1>4 DEF Memory, Address
  <2> QED BY <1>4, <2>1, <2>2, <2>3 DEF Memory
<1>6. t.first = First(u) /\ t.last = Last(u)
  BY <1>0, <1>1, <1>4 DEF Represents, First, Last
<1>7. ASSUME NEW i \in 1 .. Len(u)
      PROVE  t.next[u[i]] = After(u, i) /\ t.prev[u[i]] = Before(u, i)
  <2>0. m.next \in [Env -> Env \cup {NULL}] /\ m.prev \in [Env -> Address \cup {NULL}]
    BY DEF Memory
  <2>1. CASE i = Len(s) + 1
    <3>1. u[i] = e /\ t.prev[e] = m.last
      BY <1>1, <1>4, <2>0, <2>1
    <3>2. t.next[e] = NULL
      BY <1>0, <1>2, <1>3, <1>4, <2>0
    <3>3. After(u, i) = NULL /\ Before(u, i) = m.last
      BY <1>0, <1>1, <1>2, <2>1 DEF After, Before
    <3> QED BY <3>1, <3>2, <3>3
  <2>2. CASE i # Len(s) + 1
    <3>1. i \in 1 .. Len(s) /\ u[i] = s[i] /\ s[i] # e /\ s[i] \in Env
      BY <1>0, <1>1, <2>2
    <3>2. m.next[s[i]] = After(s, i) /\ m.prev[s[i]] = Before(s, i)
      BY <3>1 DEF Represents
    <3>3. Before(u, i) = Before(s, i) /\ t.prev[s[i]] = m.prev[s[i]]
      BY <1>0, <1>1, <1>4, <2>0, <3>1 DEF Before
    <3>4. After(u, i) = IF i = Len(s) THEN e ELSE After(s, i)
      BY <1>0, <1>1, <3>1 DEF After
    <3>5. s[i] = s[Len(s)] <=> i = Len(s)
      BY <1>0, <3>1 DEF NoRepeats
    <3>6. t.next[s[i]] = IF i = Len(s) THEN e ELSE m.next[s[i]]
      BY <1>0, <1>4, <2>0, <3>1, <3>5
    <3> QED BY <3>1, <3>2, <3>3, <3>4, <3>6
  <2> QED BY <2>1, <2>2
<1> QED BY <1>5, <1>6, <1>7 DEF Represents, t, u

\* Unlinking the i-th element, wherever it is in the list.
LEMMA Remove ==
  ASSUME NEW m \in Memory, NEW s \in Seq(Env), NoRepeats(s), Represents(m, s),
         NEW i \in 1 .. Len(s),
         NEW u \in Seq(Env), Len(u) = Len(s) - 1,
         \A j \in 1 .. Len(s) - 1 : u[j] = IF j < i THEN s[j] ELSE s[j+1]
  PROVE  /\ TAILQ_REMOVE(m, s[i]) \in Memory
         /\ Represents(TAILQ_REMOVE(m, s[i]), u)
<1> DEFINE t == TAILQ_REMOVE(m, s[i])
<1>0. /\ Len(s) \in Nat /\ \A j \in 1 .. Len(s) : s[j] \in Env
      /\ NULL \notin Env /\ HEAD \notin Env /\ HEAD # NULL
  BY LengthBound, QueueAssumption
<1>1. m.next[s[i]] = After(s, i) /\ m.prev[s[i]] = Before(s, i)
  BY DEF Represents
<1>2. After(s, i) = NULL <=> i = Len(s)
  BY <1>0 DEF After
<1>3. Before(s, i) = HEAD <=> i = 1
  BY <1>0 DEF Before
<1>4. /\ i # Len(s) => After(s, i) = s[i+1] /\ i+1 \in 1 .. Len(s) /\ s[i+1] \in Env /\ s[i+1] # s[i]
      /\ i # 1 => Before(s, i) = s[i-1] /\ i-1 \in 1 .. Len(s) /\ s[i-1] \in Env
  BY <1>0 DEF After, Before, NoRepeats
<1>5. /\ t.first = IF i = 1 THEN After(s, i) ELSE m.first
      /\ t.last = IF i = Len(s) THEN Before(s, i) ELSE m.last
      /\ t.next = IF i = 1 THEN m.next ELSE [m.next EXCEPT ![s[i-1]] = After(s, i)]
      /\ t.prev = IF i = Len(s) THEN m.prev ELSE [m.prev EXCEPT ![s[i+1]] = Before(s, i)]
      /\ t = [first |-> t.first, last |-> t.last, next |-> t.next, prev |-> t.prev]
  <2>1. PICK r : r = RemoveLinks(m, s[i])
    OBVIOUS
  <2>2. /\ r.first = m.first /\ r.next = m.next
        /\ r.last = IF i = Len(s) THEN Before(s, i) ELSE m.last
        /\ r.prev = IF i = Len(s) THEN m.prev ELSE [m.prev EXCEPT ![s[i+1]] = Before(s, i)]
        /\ DOMAIN r = {"first", "last", "next", "prev"}
        /\ r = [x \in DOMAIN r |-> r[x]]
    BY <1>1, <1>2, <1>4, <2>1 DEF Memory, RemoveLinks
  <2>3. t = Store(r, r.prev[s[i]], r.next[s[i]])
    BY <2>1 DEF TAILQ_REMOVE
  <2>4. r.next[s[i]] = After(s, i)
    BY <1>1, <2>2
  <2>5. r.prev[s[i]] = Before(s, i)
    <3>1. m.prev \in [Env -> Address \cup {NULL}]
      BY DEF Memory
    <3> QED BY <1>0, <1>1, <1>4, <2>2, <3>1
  <2> HIDE DEF t
  <2>6. t = IF i = 1 THEN [r EXCEPT !.first = After(s, i)]
            ELSE [r EXCEPT !.next[s[i-1]] = After(s, i)]
    BY <1>3, <1>4, <2>3, <2>4, <2>5 DEF Store
  <2> QED BY <2>2, <2>6
<1> HIDE DEF t
<1>6. t \in Memory
  <2>1. After(s, i) \in Env \cup {NULL} /\ Before(s, i) \in Address
    BY <1>0, <1>4 DEF After, Before, Address
  <2>2. t.first \in Env \cup {NULL} /\ t.last \in Address
    BY <1>5, <2>1 DEF Memory
  <2>3. t.next \in [Env -> Env \cup {NULL}]
    BY <1>5, <2>1 DEF Memory
  <2>4. t.prev \in [Env -> Address \cup {NULL}]
    BY <1>5, <2>1 DEF Memory
  <2> QED BY <1>5, <2>2, <2>3, <2>4 DEF Memory
<1>7. t.first = First(u)
  <2>1. First(u) = IF Len(s) = 1 THEN NULL ELSE IF i = 1 THEN s[2] ELSE s[1]
    BY <1>0 DEF First
  <2>2. m.first = s[1]
    BY <1>0 DEF Represents, First
  <2>3. i = 1 => After(s, i) = IF Len(s) = 1 THEN NULL ELSE s[2]
    BY <1>0 DEF After
  <2> QED BY <1>0, <1>5, <2>1, <2>2, <2>3
<1>8. t.last = Last(u)
  <2>1. Last(u) = IF Len(s) = 1 THEN HEAD ELSE IF i = Len(s) THEN s[Len(s)-1] ELSE s[Len(s)]
    BY <1>0 DEF Last
  <2>2. m.last = s[Len(s)]
    BY <1>0 DEF Represents, Last
  <2>3. i = Len(s) => Before(s, i) = IF Len(s) = 1 THEN HEAD ELSE s[Len(s)-1]
    BY <1>0 DEF Before
  <2> QED BY <1>0, <1>5, <2>1, <2>2, <2>3
<1>9. ASSUME NEW j \in 1 .. Len(u)
      PROVE  t.next[u[j]] = After(u, j) /\ t.prev[u[j]] = Before(u, j)
  <2>0. m.next \in [Env -> Env \cup {NULL}] /\ m.prev \in [Env -> Address \cup {NULL}]
    BY DEF Memory
  <2>1. PICK k : k = IF j < i THEN j ELSE j+1
    OBVIOUS
  <2>2. /\ k \in 1 .. Len(s) /\ k # i /\ u[j] = s[k] /\ s[k] \in Env /\ k \in Nat
    BY <1>0, <2>1
  <2>3. m.next[s[k]] = After(s, k) /\ m.prev[s[k]] = Before(s, k)
    BY <2>2 DEF Represents
  <2>4. t.next[s[k]] = IF k = i-1 THEN After(s, i) ELSE After(s, k)
    <3>1. i # 1 => (s[k] = s[i-1] <=> k = i-1)
      BY <1>4, <2>2 DEF NoRepeats
    <3>2. CASE i = 1
      BY <1>5, <2>2, <2>3, <3>2
    <3>3. CASE i # 1
      BY <1>4, <1>5, <2>0, <2>2, <2>3, <3>1, <3>3
    <3> QED BY <3>2, <3>3
  <2>5. t.prev[s[k]] = IF k = i+1 THEN Before(s, i) ELSE Before(s, k)
    <3>1. i # Len(s) => (s[k] = s[i+1] <=> k = i+1)
      BY <1>4, <2>2 DEF NoRepeats
    <3>2. CASE i = Len(s)
      BY <1>5, <2>2, <2>3, <3>2
    <3>3. CASE i # Len(s)
      BY <1>4, <1>5, <2>0, <2>2, <2>3, <3>1, <3>3
    <3> QED BY <3>2, <3>3
  <2>6. After(u, j) = IF k = i-1 THEN After(s, i) ELSE After(s, k)
    BY <1>0, <2>1, <2>2 DEF After
  <2>7. Before(u, j) = IF k = i+1 THEN Before(s, i) ELSE Before(s, k)
    BY <1>0, <2>1, <2>2 DEF Before
  <2> QED BY <2>2, <2>4, <2>5, <2>6, <2>7
<1> QED BY <1>6, <1>7, <1>8, <1>9 DEF Represents, t

-----------------------------------------------------------------------------
(* Each macro does to the memory what the operation of module Queue of the  *)
(* same name does to the list.                                              *)

LEMMA ListedOnce ==
  ASSUME NEW m, NEW s, NEW R, Lists(m, s, R)
  PROVE  /\ m \in Memory /\ s \in Seq(Env) /\ Len(s) \in Nat
         /\ NoRepeats(s) /\ Represents(m, s)
         /\ \A i \in 1 .. Len(s) : s[i] \in R
         /\ \A e \in R : \E i \in 1 .. Len(s) : s[i] = e
         /\ WalkOf(m) = s
<1>1. m \in Memory /\ s \in Seq(Env) /\ Len(s) \in Nat /\ NoRepeats(s) /\ Represents(m, s)
  BY LenProperties DEF Lists, QP!Lists, NoRepeats
<1>2. WalkOf(m) = s
  BY <1>1, WalkOfRepresented
<1> QED BY <1>1, <1>2 DEF Lists, QP!Lists

LEMMA HeadLists ==
  ASSUME NEW m, NEW s, NEW R, Lists(m, s, R), NEW e \in Env, e \notin R
  PROVE  Lists(TAILQ_INSERT_HEAD(m, e), QP!TAILQ_INSERT_HEAD(s, e), R \cup {e})
<1>1. m \in Memory /\ s \in Seq(Env) /\ NoRepeats(s) /\ Represents(m, s)
  BY ListedOnce
<1>2. \A i \in 1 .. Len(s) : s[i] # e
  BY ListedOnce
<1>3. /\ TAILQ_INSERT_HEAD(m, e) \in Memory
      /\ Represents(TAILQ_INSERT_HEAD(m, e), <<e>> \o s)
  BY <1>1, <1>2, InsertHead
<1>4. <<e>> \o s \in Seq(Env) /\ QP!Lists(<<e>> \o s, R \cup {e})
  BY <1>1, QP!InsertHeadLists DEF Lists
<1> QED BY <1>3, <1>4 DEF Lists, QP!TAILQ_INSERT_HEAD

LEMMA TailLists ==
  ASSUME NEW m, NEW s, NEW R, Lists(m, s, R), NEW e \in Env, e \notin R
  PROVE  Lists(TAILQ_INSERT_TAIL(m, e), QP!TAILQ_INSERT_TAIL(s, e), R \cup {e})
<1>1. m \in Memory /\ s \in Seq(Env) /\ NoRepeats(s) /\ Represents(m, s)
  BY ListedOnce
<1>2. \A i \in 1 .. Len(s) : s[i] # e
  BY ListedOnce
<1>3. /\ TAILQ_INSERT_TAIL(m, e) \in Memory
      /\ Represents(TAILQ_INSERT_TAIL(m, e), QP!TAILQ_INSERT_TAIL(s, e))
  BY <1>1, <1>2, InsertTail DEF QP!TAILQ_INSERT_TAIL
<1>4. /\ QP!TAILQ_INSERT_TAIL(s, e) \in Seq(Env)
      /\ QP!Lists(QP!TAILQ_INSERT_TAIL(s, e), R \cup {e})
  BY <1>1, QP!InsertTailLists DEF Lists
<1> QED BY <1>3, <1>4 DEF Lists

LEMMA RemovedLists ==
  ASSUME NEW m, NEW s, NEW R, Lists(m, s, R), NEW e \in R
  PROVE  Lists(TAILQ_REMOVE(m, e), QP!TAILQ_REMOVE(s, e), R \ {e})
<1>1. m \in Memory /\ s \in Seq(Env) /\ NoRepeats(s) /\ Represents(m, s)
  BY ListedOnce
<1>2. PICK i : i = QP!Position(s, e)
  OBVIOUS
<1>3. i \in 1 .. Len(s) /\ s[i] = e
  BY <1>2, ListedOnce DEF QP!Position
<1>4. PICK u : u = QP!RemoveAt(s, i)
  OBVIOUS
<1>5. /\ u \in Seq(Env) /\ Len(u) = Len(s) - 1
      /\ \A j \in 1 .. Len(s) - 1 : u[j] = IF j < i THEN s[j] ELSE s[j+1]
  BY <1>1, <1>3, <1>4, QP!RemoveAtProperties
<1>6. TAILQ_REMOVE(m, e) \in Memory /\ Represents(TAILQ_REMOVE(m, e), u)
  BY <1>1, <1>3, <1>5, Remove
<1>7. u = QP!TAILQ_REMOVE(s, e)
  BY <1>2, <1>4 DEF QP!TAILQ_REMOVE
<1>8. QP!Lists(QP!TAILQ_REMOVE(s, e), R \ {e})
  BY <1>1, QP!RemoveLists DEF Lists
<1> QED BY <1>5, <1>6, <1>7, <1>8 DEF Lists

-----------------------------------------------------------------------------
(* The steps *)

LEMMA InitIInv == Init => IInv /\ Abstract!Init
<1> SUFFICES ASSUME Init PROVE IInv /\ Abstract!Init
  OBVIOUS
<1>1. q = [first |-> NULL, last |-> HEAD,
           next |-> [e \in Env |-> NULL], prev |-> [e \in Env |-> NULL]]
  BY DEF Init
<1>2. q \in Memory
  BY <1>1 DEF Memory, Address
<1>3. Runnable = {}
  BY DEF Init, Runnable
<1>4. Lists(q, <<>>, {})
  BY <1>1, <1>2 DEF Lists, QP!Lists, Represents, First, Last
<1>5. Walk = <<>>
  BY <1>4, ListedOnce, WalkIs
<1>6. Types
  BY DEF Init, Types, Statuses
<1> QED BY <1>3, <1>4, <1>5, <1>6 DEF IInv, Abstract!Init

\* A step that leaves the memory that of the list s leaves the walk s.
LEMMA StepTo ==
  ASSUME Types', NEW s, Lists(q', s, Runnable')
  PROVE  IInv' /\ Walk' = s
<1>1. Walk' = s
  BY ListedOnce, WalkIs
<1> QED BY <1>1 DEF IInv

LEMMA Members ==
  ASSUME IInv
  PROVE  /\ Abstract!ToSet(Walk) = Runnable
         /\ q.first = IF Walk = <<>> THEN NULL ELSE Walk[1]
         /\ q.first \in Env \cup {NULL}
<1>1. /\ Walk \in Seq(Env) /\ Len(Walk) \in Nat /\ q \in Memory
      /\ \A i \in 1 .. Len(Walk) : Walk[i] \in Runnable
      /\ \A e \in Runnable : \E i \in 1 .. Len(Walk) : Walk[i] = e
      /\ Represents(q, Walk)
  BY ListedOnce DEF IInv
<1>2. DOMAIN Walk = 1 .. Len(Walk)
  BY <1>1, LenProperties
<1>3. Abstract!ToSet(Walk) = Runnable
  BY <1>1, <1>2 DEF Abstract!ToSet
<1>4. Walk = <<>> <=> Len(Walk) = 0
  BY <1>1, EmptySeq
<1> QED BY <1>1, <1>3, <1>4 DEF Represents, First, Memory

\* A status that changes from or to RUNNABLE.
LEMMA Changed ==
  ASSUME Types, NEW e \in Env, NEW from, NEW to \in Statuses, Change(e, from, to)
  PROVE  /\ st' \in [Env -> Statuses]
         /\ e \in Runnable <=> from = "RUNNABLE"
         /\ Runnable' = IF to = "RUNNABLE" THEN Runnable \cup {e} ELSE Runnable \ {e}
BY DEF Types, Change, Runnable

\* The end of schedule() after a step that leaves a list.
LEMMA RunsFirst ==
  ASSUME NEW m \in Memory, RunFirst(m), curenv \in Env \cup {NULL}
  PROVE  curenv' \in Env \cup {NULL}
BY DEF RunFirst, Memory

LEMMA NextStep == IInv /\ [Next]_vars => IInv' /\ [Abstract!Next]_Walk
<1> SUFFICES ASSUME IInv, [Next]_vars
             PROVE  IInv' /\ (Abstract!Next \/ Walk' = Walk)
  OBVIOUS
<1> USE DEF Statuses
<1>0. Types /\ Lists(q, Walk, Runnable) /\ Abstract!ToSet(Walk) = Runnable
      /\ q \in Memory /\ curenv \in Env \cup {NULL} /\ NULL \notin Env
  BY Members, ListedOnce, QueueAssumption DEF IInv, Types
<1>1. ASSUME UNCHANGED <<q, st>>, curenv' \in Env \cup {NULL}
      PROVE  IInv' /\ Walk' = Walk
  BY <1>0, <1>1, StepTo DEF Types, Runnable
<1>2. CASE UNCHANGED vars
  BY <1>0, <1>1, <1>2 DEF vars
<1>3. CASE StartFirst
  BY <1>0, <1>1, <1>3, RunsFirst DEF StartFirst
<1>4. CASE Block
  <2>1. curenv \in Env /\ Change(curenv, "RUNNABLE", "BLOCKED") /\ q' = TAILQ_REMOVE(q, curenv)
        /\ RunFirst(q')
    BY <1>0, <1>4 DEF Block, Running
  <2>2. curenv \in Runnable /\ Runnable' = Runnable \ {curenv} /\ st' \in [Env -> Statuses]
    BY <1>0, <2>1, Changed
  <2>3. Lists(q', QP!TAILQ_REMOVE(Walk, curenv), Runnable')
    BY <1>0, <2>1, <2>2, RemovedLists
  <2>4. curenv' \in Env \cup {NULL}
    BY <1>0, <2>1, <2>3, ListedOnce, RunsFirst
  <2>5. IInv' /\ Walk' = QP!TAILQ_REMOVE(Walk, curenv)
    BY <2>2, <2>3, <2>4, StepTo DEF Types
  <2>6. Abstract!Unlink(curenv)
    BY <1>0, <2>2, <2>5 DEF Abstract!Unlink, Abstract!TAILQ_REMOVE, QP!TAILQ_REMOVE,
       Abstract!Position, QP!Position, Abstract!RemoveAt, QP!RemoveAt
  <2> QED BY <2>1, <2>5, <2>6 DEF Abstract!Next
<1>5. CASE Rotate
  <2>1. curenv \in Runnable /\ st' = st /\ RunFirst(q')
        /\ q' = TAILQ_INSERT_TAIL(TAILQ_REMOVE(q, curenv), curenv)
    BY <1>0, <1>5 DEF Rotate, Running, Runnable
  <2>2. Runnable' = Runnable /\ curenv \in Env /\ (Runnable \ {curenv}) \cup {curenv} = Runnable
    BY <2>1 DEF Runnable
  <2>3. PICK r : r = QP!TAILQ_REMOVE(Walk, curenv)
    OBVIOUS
  <2>4. Lists(TAILQ_REMOVE(q, curenv), r, Runnable \ {curenv})
    BY <1>0, <2>1, <2>3, RemovedLists
  <2>5. Lists(q', QP!TAILQ_INSERT_TAIL(r, curenv), (Runnable \ {curenv}) \cup {curenv})
    BY <2>1, <2>2, <2>4, TailLists
  <2>6. curenv' \in Env \cup {NULL}
    BY <1>0, <2>1, <2>5, ListedOnce, RunsFirst
  <2>7. IInv' /\ Walk' = QP!TAILQ_INSERT_TAIL(r, curenv)
    BY <1>0, <2>1, <2>2, <2>5, <2>6, StepTo DEF Types
  <2>8. Abstract!MoveToTail(curenv)
    BY <1>0, <2>1, <2>3, <2>7 DEF Abstract!MoveToTail, Abstract!TAILQ_REMOVE, QP!TAILQ_REMOVE,
       Abstract!Position, QP!Position, Abstract!RemoveAt, QP!RemoveAt,
       Abstract!TAILQ_INSERT_TAIL, QP!TAILQ_INSERT_TAIL
  <2> QED BY <2>2, <2>7, <2>8 DEF Abstract!Next
<1>6. ASSUME NEW e \in Env, Create(e)
      PROVE  IInv' /\ Abstract!Next
  <2>1. Change(e, "FREE", "RUNNABLE") /\ q' = TAILQ_INSERT_HEAD(q, e) /\ curenv' = curenv
    BY <1>6 DEF Create
  <2>2. e \notin Runnable /\ Runnable' = Runnable \cup {e} /\ st' \in [Env -> Statuses]
    BY <1>0, <2>1, Changed
  <2>3. Lists(q', QP!TAILQ_INSERT_HEAD(Walk, e), Runnable')
    BY <1>0, <2>1, <2>2, HeadLists
  <2>4. IInv' /\ Walk' = QP!TAILQ_INSERT_HEAD(Walk, e)
    BY <1>0, <2>1, <2>2, <2>3, StepTo DEF Types
  <2>5. Abstract!LinkHead(e)
    BY <1>0, <2>2, <2>4 DEF Abstract!LinkHead, Abstract!TAILQ_INSERT_HEAD, QP!TAILQ_INSERT_HEAD
  <2> QED BY <2>4, <2>5 DEF Abstract!Next
<1>7. ASSUME NEW e \in Env, Exofork(e)
      PROVE  IInv' /\ Walk' = Walk
  <2>1. Change(e, "FREE", "BUILDING") /\ q' = q /\ curenv' = curenv
    BY <1>7 DEF Exofork
  <2>2. Runnable' = Runnable /\ st' \in [Env -> Statuses]
    BY <1>0, <2>1, Changed
  <2> QED BY <1>0, <2>1, <2>2, StepTo DEF Types
<1>8. ASSUME NEW e \in Env, Start(e) \/ Wake(e)
      PROVE  IInv' /\ Abstract!Next
  <2>1. /\ q' = TAILQ_INSERT_TAIL(q, e) /\ curenv' = curenv
        /\ Change(e, "BUILDING", "RUNNABLE") \/ Change(e, "BLOCKED", "RUNNABLE")
    BY <1>8 DEF Start, Wake
  <2>2. e \notin Runnable /\ Runnable' = Runnable \cup {e} /\ st' \in [Env -> Statuses]
    BY <1>0, <2>1, Changed
  <2>3. Lists(q', QP!TAILQ_INSERT_TAIL(Walk, e), Runnable')
    BY <1>0, <2>1, <2>2, TailLists
  <2>4. IInv' /\ Walk' = QP!TAILQ_INSERT_TAIL(Walk, e)
    BY <1>0, <2>1, <2>2, <2>3, StepTo DEF Types
  <2>5. Abstract!LinkTail(e)
    BY <1>0, <2>2, <2>4 DEF Abstract!LinkTail, Abstract!TAILQ_INSERT_TAIL, QP!TAILQ_INSERT_TAIL
  <2> QED BY <2>4, <2>5 DEF Abstract!Next
<1>9. ASSUME NEW e \in Env, Destroy(e)
      PROVE  IInv' /\ Abstract!Next
  <2>1. Change(e, "RUNNABLE", "FREE") /\ q' = TAILQ_REMOVE(q, e)
        /\ (RunFirst(q') \/ curenv' = curenv)
    BY <1>9 DEF Destroy
  <2>2. e \in Runnable /\ Runnable' = Runnable \ {e} /\ st' \in [Env -> Statuses]
    BY <1>0, <2>1, Changed
  <2>3. Lists(q', QP!TAILQ_REMOVE(Walk, e), Runnable')
    BY <1>0, <2>1, <2>2, RemovedLists
  <2>4. curenv' \in Env \cup {NULL}
    BY <1>0, <2>1, <2>3, ListedOnce, RunsFirst
  <2>5. IInv' /\ Walk' = QP!TAILQ_REMOVE(Walk, e)
    BY <2>2, <2>3, <2>4, StepTo DEF Types
  <2>6. Abstract!Unlink(e)
    BY <1>0, <2>2, <2>5 DEF Abstract!Unlink, Abstract!TAILQ_REMOVE, QP!TAILQ_REMOVE,
       Abstract!Position, QP!Position, Abstract!RemoveAt, QP!RemoveAt
  <2> QED BY <2>5, <2>6 DEF Abstract!Next
<1> QED BY <1>2, <1>3, <1>4, <1>5, <1>6, <1>7, <1>8, <1>9 DEF Next

-----------------------------------------------------------------------------
\* In every reachable state tqh_last and every tqe_prev are the addresses that
\* TAILQ_INSERT_TAIL and TAILQ_REMOVE (include/queue.h:216, 242) store through,
\* whatever links the elements that are out of the list still have.
THEOREM LinksStayWellFormed == Spec => []WellLinked
<1>1. IInv /\ [Next]_vars => IInv'
  BY NextStep
<1>2. ASSUME IInv PROVE WellLinked
  <2>1. Represents(q, Walk) /\ Len(Walk) \in Nat
    BY <1>2, ListedOnce DEF IInv
  <2> QED BY <2>1 DEF WellLinked, Represents, Last, Before
<1> QED BY <1>1, <1>2, InitIInv, PTL DEF Spec

\* The comment on env_sched_list (kern/env.c:15), of the memory: a walk along
\* the links meets every RUNNABLE environment once, and no other.
THEOREM LinksListTheRunnable == Spec => []ListedIffRunnable
<1>1. IInv /\ [Next]_vars => IInv'
  BY NextStep
<1>2. ASSUME IInv PROVE ListedIffRunnable
  <2>1. /\ Walk \in Seq(Env) /\ Len(Walk) \in Nat /\ NoRepeats(Walk)
        /\ \A i \in 1 .. Len(Walk) : Walk[i] \in Runnable
        /\ \A e \in Runnable : \E i \in 1 .. Len(Walk) : Walk[i] = e
    BY <1>2, ListedOnce DEF IInv
  <2>2. Walk \in [1 .. Len(Walk) -> Env] /\ DOMAIN Walk = 1 .. Len(Walk)
    BY <2>1, LenProperties
  <2>3. Walk \in [1 .. Len(Walk) -> Runnable]
    BY <2>1, <2>2
  <2>4. Walk \in Bijection(1 .. Len(Walk), Runnable)
    BY <2>1, <2>3 DEF NoRepeats, Bijection, Injection, Surjection, IsInjective
  <2>5. Cardinality(Runnable) = Len(Walk)
    BY <2>1, <2>4, FS_CountingElements DEF ExistsBijection
  <2> QED BY <2>1, <2>2, <2>5 DEF ListedIffRunnable, Runnable
<1> QED BY <1>1, <1>2, InitIInv, PTL DEF Spec

\* The links of include/queue.h implement the list of module RunList: every
\* operation of kern/env.c, kern/sched.c and kern/syscall_all.c on them is one
\* operation on a sequence without repeats, and nothing else changes the walk.
THEOREM LinksImplementTheList == Spec => ImplementsRunList
<1>1. IInv /\ [Next]_vars => IInv' /\ [Abstract!Next]_Walk
  BY NextStep
<1>2. Init => IInv /\ Abstract!Init
  BY InitIInv
<1> QED BY <1>1, <1>2, PTL DEF Spec, ImplementsRunList, Abstract!Spec
=============================================================================
