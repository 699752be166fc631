----------------------------- MODULE QueueProofs -----------------------------
(***************************************************************************)
(* What linking and unlinking does to the set of elements of a list.       *)
(***************************************************************************)
EXTENDS Queue, SequenceTheorems, TLAPS

\* What is left when the i-th element of a list is unlinked.
LEMMA RemoveAtProperties ==
  ASSUME NEW S, NEW s \in Seq(S), NEW i \in 1 .. Len(s)
  PROVE  /\ RemoveAt(s, i) \in Seq(S)
         /\ Len(RemoveAt(s, i)) = Len(s) - 1
         /\ \A j \in 1 .. Len(s) - 1 :
              RemoveAt(s, i)[j] = IF j < i THEN s[j] ELSE s[j+1]
<1> DEFINE a == SubSeq(s, 1, i-1)
           b == SubSeq(s, i+1, Len(s))
           r == a \o b
<1>0. Len(s) \in Nat
  BY LenProperties
<1>1. /\ a \in Seq(S) /\ Len(a) = i-1
      /\ \A j \in 1 .. i-1 : a[j] = s[j]
  <2>1. \A j \in 1 .. i-1 : s[j] \in S
    BY <1>0, ElementOfSeq
  <2>2. CASE i = 1
    BY <2>2, <1>0, SubSeqProperties, SubSeqEmpty
  <2>3. CASE i # 1
    BY <2>3, <2>1, <1>0, SubSeqProperties
  <2> QED BY <2>2, <2>3
<1>2. /\ b \in Seq(S) /\ Len(b) = Len(s) - i
      /\ \A j \in 1 .. Len(s) - i : b[j] = s[i+j]
  BY <1>0, SubSeqProperties
<1>3. /\ r \in Seq(S)
      /\ Len(r) = Len(a) + Len(b)
      /\ \A j \in 1 .. Len(a) + Len(b) :
           r[j] = IF j <= Len(a) THEN a[j] ELSE b[j - Len(a)]
  BY <1>1, <1>2, ConcatProperties
<1>4. RemoveAt(s, i) = r
  BY DEF RemoveAt
<1> HIDE DEF a, b, r
<1>5. Len(r) = Len(s) - 1
  BY <1>0, <1>1, <1>2, <1>3
<1>6. ASSUME NEW j \in 1 .. Len(s) - 1
      PROVE  r[j] = IF j < i THEN s[j] ELSE s[j+1]
  <2>1. j \in 1 .. Len(a) + Len(b)
    BY <1>0, <1>1, <1>2
  <2>2. CASE j < i
    BY <2>1, <2>2, <1>0, <1>1, <1>3
  <2>3. CASE ~(j < i)
    <3>1. r[j] = b[j - Len(a)]
      BY <2>1, <2>3, <1>0, <1>1, <1>3
    <3>2. j - Len(a) \in 1 .. Len(s) - i
      BY <2>3, <1>0, <1>1
    <3>3. b[j - Len(a)] = s[i + (j - Len(a))]
      BY <3>2, <1>2
    <3>4. i + (j - Len(a)) = j + 1
      BY <1>0, <1>1
    <3> QED BY <3>1, <3>3, <3>4, <2>3
  <2> QED BY <2>2, <2>3
<1> QED BY <1>3, <1>4, <1>5, <1>6

\* Unlinking an element of the list leaves all the others, each once.
LEMMA RemoveLists ==
  ASSUME NEW T, NEW s \in Seq(T), NEW S, Lists(s, S), NEW e \in S
  PROVE  /\ TAILQ_REMOVE(s, e) \in Seq(T)
         /\ Lists(TAILQ_REMOVE(s, e), S \ {e})
<1> DEFINE p == Position(s, e)
           r == RemoveAt(s, p)
<1>0. Len(s) \in Nat
  BY LenProperties
<1>1. p \in 1 .. Len(s) /\ s[p] = e
  BY DEF Position, Lists
<1> HIDE DEF p
<1>2. /\ r \in Seq(T)
      /\ Len(r) = Len(s) - 1
      /\ \A j \in 1 .. Len(s) - 1 : r[j] = IF j < p THEN s[j] ELSE s[j+1]
  BY <1>1, RemoveAtProperties
<1> HIDE DEF r
<1>3. ASSUME NEW x \in S \ {e}
      PROVE  \E j \in 1 .. Len(r) : r[j] = x
  <2>1. PICK i \in 1 .. Len(s) : s[i] = x
    BY DEF Lists
  <2>2. i # p
    BY <1>1, <2>1
  <2>3. CASE i < p
    BY <2>1, <2>3, <1>0, <1>1, <1>2
  <2>4. CASE i > p
    <3>1. i - 1 \in 1 .. Len(r) /\ ~(i - 1 < p) /\ (i - 1) + 1 = i
      BY <2>4, <1>0, <1>1, <1>2
    <3> QED BY <3>1, <2>1, <1>2
  <2> QED BY <2>2, <2>3, <2>4, <1>0, <1>1
<1>4. ASSUME NEW j \in 1 .. Len(r)
      PROVE  r[j] \in S \ {e}
  BY <1>0, <1>1, <1>2 DEF Lists
<1>5. ASSUME NEW i \in 1 .. Len(r), NEW j \in 1 .. Len(r), r[i] = r[j]
      PROVE  i = j
  BY <1>0, <1>1, <1>2, <1>5 DEF Lists
<1>6. TAILQ_REMOVE(s, e) = r
  BY DEF TAILQ_REMOVE, p, r
<1> QED BY <1>2, <1>3, <1>4, <1>5, <1>6 DEF Lists

\* Linking a new element at the tail adds just that element.
LEMMA InsertTailLists ==
  ASSUME NEW T, NEW s \in Seq(T), NEW S, Lists(s, S), NEW e \in T, e \notin S
  PROVE  /\ TAILQ_INSERT_TAIL(s, e) \in Seq(T)
         /\ Lists(TAILQ_INSERT_TAIL(s, e), S \cup {e})
<1> DEFINE r == Append(s, e)
<1>0. Len(s) \in Nat
  BY LenProperties
<1>1. /\ r \in Seq(T)
      /\ Len(r) = Len(s) + 1
      /\ \A i \in 1 .. Len(s) : r[i] = s[i]
      /\ r[Len(s) + 1] = e
  BY AppendProperties
<1> HIDE DEF r
<1>2. ASSUME NEW x \in S \cup {e}
      PROVE  \E j \in 1 .. Len(r) : r[j] = x
  BY <1>0, <1>1 DEF Lists
<1>3. ASSUME NEW j \in 1 .. Len(r)
      PROVE  r[j] \in S \cup {e}
  BY <1>0, <1>1 DEF Lists
<1>4. ASSUME NEW i \in 1 .. Len(r), NEW j \in 1 .. Len(r), r[i] = r[j]
      PROVE  i = j
  <2>1. \A k \in 1 .. Len(r) : k # Len(s) + 1 => k \in 1 .. Len(s) /\ r[k] \in S
    BY <1>0, <1>1 DEF Lists
  <2> QED BY <2>1, <1>0, <1>1, <1>4 DEF Lists
<1> QED BY <1>1, <1>2, <1>3, <1>4 DEF Lists, TAILQ_INSERT_TAIL, r

\* Linking a new element at the head adds just that element.
LEMMA InsertHeadLists ==
  ASSUME NEW T, NEW s \in Seq(T), NEW S, Lists(s, S), NEW e \in T, e \notin S
  PROVE  /\ <<e>> \o s \in Seq(T)
         /\ Lists(<<e>> \o s, S \cup {e})
<1> DEFINE r == <<e>> \o s
<1>0. Len(s) \in Nat
  BY LenProperties
<1>1. <<e>> \in Seq(T) /\ Len(<<e>>) = 1 /\ <<e>>[1] = e
  OBVIOUS
<1>2. /\ r \in Seq(T)
      /\ Len(r) = Len(s) + 1
      /\ \A i \in 1 .. Len(s) + 1 : r[i] = IF i = 1 THEN e ELSE s[i-1]
  <2>1. /\ r \in Seq(T)
        /\ Len(r) = Len(<<e>>) + Len(s)
        /\ \A i \in 1 .. Len(<<e>>) + Len(s) :
             r[i] = IF i <= Len(<<e>>) THEN <<e>>[i] ELSE s[i - Len(<<e>>)]
    BY <1>1, ConcatProperties
  <2> HIDE DEF r
  <2> QED BY <1>0, <1>1, <2>1
<1> HIDE DEF r
<1>3. ASSUME NEW x \in S \cup {e}
      PROVE  \E j \in 1 .. Len(r) : r[j] = x
  <2>1. CASE x = e
    BY <1>0, <1>2, <2>1
  <2>2. CASE x # e
    <3>1. PICK i \in 1 .. Len(s) : s[i] = x
      BY <2>2 DEF Lists
    <3>2. i + 1 \in 1 .. Len(r) /\ i + 1 # 1 /\ (i + 1) - 1 = i
      BY <1>0, <1>2
    <3> QED BY <3>1, <3>2, <1>2
  <2> QED BY <2>1, <2>2
<1>4. \A k \in 1 .. Len(r) : k # 1 => k-1 \in 1 .. Len(s) /\ r[k] = s[k-1] /\ r[k] \in S
  BY <1>0, <1>2 DEF Lists
<1>5. r[1] = e /\ 1 \in 1 .. Len(r)
  BY <1>0, <1>2
<1>6. ASSUME NEW j \in 1 .. Len(r)
      PROVE  r[j] \in S \cup {e}
  BY <1>4, <1>5
<1>7. ASSUME NEW i \in 1 .. Len(r), NEW j \in 1 .. Len(r), r[i] = r[j]
      PROVE  i = j
  <2>1. CASE i = 1 \/ j = 1
    BY <2>1, <1>4, <1>5, <1>7
  <2>2. CASE i # 1 /\ j # 1
    <3>1. i-1 \in 1 .. Len(s) /\ j-1 \in 1 .. Len(s) /\ s[i-1] = s[j-1]
      BY <2>2, <1>4, <1>7
    <3>2. i-1 = j-1
      BY <3>1 DEF Lists
    <3> QED BY <3>2, <1>0, <1>2
  <2> QED BY <2>1, <2>2
<1> QED BY <1>2, <1>3, <1>6, <1>7 DEF Lists, r

\* Taking the first element off leaves all the others.
LEMMA TailLists ==
  ASSUME NEW T, NEW s \in Seq(T), NEW S, Lists(s, S), s # <<>>
  PROVE  /\ Head(s) \in S
         /\ Tail(s) \in Seq(T)
         /\ Lists(Tail(s), S \ {Head(s)})
<1> DEFINE r == Tail(s)
<1>0. Len(s) \in Nat \ {0}
  BY EmptySeq
<1>1. /\ r \in Seq(T)
      /\ Len(r) = Len(s) - 1
      /\ \A i \in 1 .. Len(r) : r[i] = s[i+1]
      /\ Head(s) = s[1]
  BY HeadTailProperties
<1> HIDE DEF r
<1>2. Head(s) \in S
  BY <1>0, <1>1 DEF Lists
<1>3. ASSUME NEW x \in S \ {Head(s)}
      PROVE  \E j \in 1 .. Len(r) : r[j] = x
  <2>1. PICK i \in 1 .. Len(s) : s[i] = x
    BY DEF Lists
  <2>2. i - 1 \in 1 .. Len(r) /\ (i - 1) + 1 = i
    BY <2>1, <1>0, <1>1
  <2> QED BY <2>1, <2>2, <1>1
<1>4. ASSUME NEW j \in 1 .. Len(r)
      PROVE  r[j] \in S \ {Head(s)}
  <2>1. j + 1 \in 1 .. Len(s) /\ 1 \in 1 .. Len(s) /\ j + 1 # 1
    BY <1>0, <1>1
  <2> QED BY <2>1, <1>1 DEF Lists
<1>5. ASSUME NEW i \in 1 .. Len(r), NEW j \in 1 .. Len(r), r[i] = r[j]
      PROVE  i = j
  <2>1. i + 1 \in 1 .. Len(s) /\ j + 1 \in 1 .. Len(s)
    BY <1>0, <1>1
  <2>2. i + 1 = j + 1
    BY <2>1, <1>1, <1>5 DEF Lists
  <2> QED BY <2>2
<1> QED BY <1>1, <1>2, <1>3, <1>4, <1>5 DEF Lists, r
=============================================================================
