-------------------------------- MODULE Queue --------------------------------
(***************************************************************************)
(* The lists of include/queue.h as sequences: what LIST and TAILQ promise  *)
(* to callers that link an element only when it is in no list and unlink   *)
(* it only when it is.  Module SchedQueue has the pointers.                *)
(***************************************************************************)
EXTENDS Integers, Sequences, SequencesExt

\* Where e is in the list s.
Position(s, e) == CHOOSE i \in 1 .. Len(s) : s[i] = e

TAILQ_REMOVE(s, e) == RemoveAt(s, Position(s, e))

TAILQ_INSERT_TAIL(s, e) == Append(s, e)

TAILQ_INSERT_HEAD(s, e) == <<e>> \o s

LIST_FIRST(s) == Head(s)

LIST_INSERT_HEAD(s, e) == <<e>> \o s

\* The list s holds exactly the elements of S, each once.
Lists(s, S) ==
  /\ \A e \in S : \E i \in 1 .. Len(s) : s[i] = e
  /\ \A i \in 1 .. Len(s) : s[i] \in S
  /\ \A i, j \in 1 .. Len(s) : s[i] = s[j] => i = j
=============================================================================
