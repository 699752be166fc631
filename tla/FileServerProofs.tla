-------------------------- MODULE FileServerProofs ---------------------------
(***************************************************************************)
(* Proofs about FileServer, for any number of clients, descriptors and     *)
(* slots and any disk: a slot of opentab stays its clients'.               *)
(*                                                                         *)
(* The only thing that tells open_alloc a slot in use from a free one is   *)
(* the number of mappings of its Filefd page.  The invariant says that the *)
(* number is right: whatever a client has mapped at a descriptor, or will  *)
(* have when the answer that is under way arrives, is a Filefd page that   *)
(* the server has given a file.  What the handlers do to the file system   *)
(* does not matter and stays unexpanded.                                   *)
(***************************************************************************)
EXTENDS FileServer, FiniteSetTheorems, TLAPS

Types ==
  /\ DOMAIN opentab = Slot /\ DOMAIN ff = Slot
  /\ \A o \in Slot : DOMAIN ff[o] = {"size", "omode", "offset"}
  /\ DOMAIN pc = Client /\ DOMAIN req = Client
  /\ fds \in [Client -> [Fd -> Slot \cup {NoSlot}]]

\* What a client sends is one of the seven requests.
GoodRequest(q) ==
  /\ q.t \in {"open", "map", "set_size", "close", "dirty", "remove", "sync"}
  /\ q.t = "open" => q.mode \in Mode

Requests == \A c \in Client : pc[c] = "send" => GoodRequest(req[c])

\* The answer to an open is on its way.
OnItsWay(o) == srv.st = "reply" /\ srv.page = <<"fd", o>>

Answers ==
  /\ srv.st = "reply" /\ srv.page[1] = "fd" =>
       srv.page[2] \in Slot /\ srv.page = <<"fd", srv.page[2]>>
  /\ srv.st = "reply" => srv.to \in Client

\* A slot that someone has open or is getting has been given a file.
InUse == \A o \in Slot : Holders(o) # {} \/ OnItsWay(o) => ff[o].omode # {"none"}

IInv == Types /\ Requests /\ Answers /\ InUse

-----------------------------------------------------------------------------
(* Counting mappings *)

LEMMA Numbers == /\ IsFiniteSet(Client \X Fd)
                 /\ NoSlot \notin Slot /\ Slot \subseteq Nat
<1>1. IsFiniteSet(Client) /\ MAXFD \in Nat /\ MAXOPEN \in Nat
  BY ServerAssumption
<1>2. IsFiniteSet(Fd)
  BY <1>1, FS_Interval DEF Fd
<1>3. IsFiniteSet(Client \X Fd)
  BY <1>1, <1>2, FS_Product
<1> QED BY <1>1, <1>3 DEF NoSlot, Slot

\* A Filefd page that a client has mapped has at least two mappings.
LEMMA HeldHasTwo ==
  ASSUME NEW o \in Slot, Holders(o) # {}, ff[o].omode # {"none"}
  PROVE  pageref(o) \in Nat /\ pageref(o) >= 2
<1>1. Holders(o) \subseteq Client \X Fd
  BY DEF Holders
<1>2. IsFiniteSet(Holders(o))
  BY <1>1, Numbers, FS_Subset
<1>3. Cardinality(Holders(o)) \in Nat /\ Cardinality(Holders(o)) # 0
  BY <1>2, FS_CardinalityType, FS_EmptySet
<1>4. ff[o] # NoPage
  BY DEF NoPage
<1> QED BY <1>3, <1>4 DEF pageref

LEMMA Least ==
  ASSUME NEW S, S \subseteq Nat, S # {}
  PROVE  \E m \in S : \A x \in S : m <= x
<1>1. PICK R : IsWellFoundedOn(R, Nat) /\ \A x, y \in Nat : x < y => <<x, y>> \in R
  <2>1. \A x, y \in Nat : x < y => <<x, y>> \in OpToRel(<, Nat)
    BY Zenon DEF OpToRel
  <2> QED BY <2>1, NatLessThanWellFounded, Zenon
<1>2. PICK m \in S : \A x \in S : ~(<<x, m>> \in R)
  <2>1. IsWellFoundedOn(R, Nat)
    BY <1>1, Zenon
  <2> QED BY <2>1, WFMin, Zenon
<1>3. ASSUME NEW x \in S PROVE m <= x
  <2>1. x \in Nat /\ m \in Nat /\ ~(<<x, m>> \in R)
    BY <1>2, Zenon
  <2>2. ~(x < m)
    BY <1>1, <2>1, Zenon
  <2> QED BY <2>1, <2>2
<1> QED BY <1>3

\* open_alloc returns an error or a slot that nobody has open.
LEMMA OpenAlloc ==
  ASSUME InUse, ~(open_alloc < 0)
  PROVE  open_alloc \in Slot /\ Holders(open_alloc) = {}
<1> DEFINE cand == {o \in Slot : pageref(o) =< 1}
<1>1. cand # {}
  BY DEF open_alloc, E_MAX_OPEN
<1>2. open_alloc = CHOOSE o \in cand : \A x \in cand : o =< x
  BY <1>1 DEF open_alloc
<1>3. cand \subseteq Nat
  BY Numbers
<1> HIDE DEF cand
<1>4. open_alloc \in cand
  BY <1>1, <1>2, <1>3, Least
<1> QED BY <1>4, HeldHasTwo DEF InUse, cand

-----------------------------------------------------------------------------
(* What the handlers do to opentab and the Filefd pages *)

\* An answer that leaves the slots alone.
Plainly(a) ==
  /\ a.tab = opentab /\ a.ff = ff
  /\ a.page[1] # "fd"

\* What holds of every answer: slots that someone has open are kept, and the
\* slot that goes with an answer has been given a file.
GoodAnswer(a) ==
  /\ DOMAIN a.tab = Slot /\ DOMAIN a.ff = Slot
  /\ \A o \in Slot : DOMAIN a.ff[o] = {"size", "omode", "offset"}
  /\ \A o \in Slot : Holders(o) # {} => a.tab[o] = opentab[o] /\ a.ff[o] = ff[o]
  /\ a.page[1] = "fd" =>
       /\ a.page[2] \in Slot /\ a.page = <<"fd", a.page[2]>>
       /\ a.ff[a.page[2]].omode # {"none"}

LEMMA PlainAnswer ==
  ASSUME Types, NEW a, Plainly(a)
  PROVE  GoodAnswer(a)
BY DEF Types, Plainly, GoodAnswer

LEMMA AnswerPlainly ==
  ASSUME NEW s, NEW r, NEW page, page[1] # "fd"
  PROVE  Plainly(Answer(s, r, page))
BY DEF Answer, Plainly

LEMMA ServeMap == \A q : Plainly(serve_map(q))
<1> SUFFICES ASSUME NEW q PROVE Plainly(serve_map(q))
  OBVIOUS
<1>1. \A s, r : Plainly(Answer(s, r, NoneSent))
  BY AnswerPlainly DEF NoneSent
<1>2. \A s, r, b : Plainly(Answer(s, r, <<"blk", b>>))
  BY AnswerPlainly
<1> QED BY <1>1, <1>2 DEF serve_map, OnOpen

LEMMA ServeOthers ==
  ASSUME NEW q
  PROVE  /\ Plainly(serve_set_size(q)) /\ Plainly(serve_close(q)) /\ Plainly(serve_dirty(q))
         /\ Plainly(serve_remove(q)) /\ Plainly(serve_sync)
<1>1. \A s, r : Plainly(Answer(s, r, NoneSent))
  BY AnswerPlainly DEF NoneSent
<1>2. Plainly(serve_set_size(q))
  BY <1>1 DEF serve_set_size, OnOpen
<1>3. Plainly(serve_close(q))
  BY <1>1 DEF serve_close, OnOpen
<1>4. Plainly(serve_dirty(q))
  BY <1>1 DEF serve_dirty, OnOpen, Plain
<1>5. Plainly(serve_remove(q)) /\ Plainly(serve_sync)
  BY <1>1 DEF serve_remove, serve_sync, Plain
<1> QED BY <1>2, <1>3, <1>4, <1>5

\* serve_open fails and has cleared the page of slot o, or it has given the
\* slot a file.
Cleared(a, o) == \E s, r : a = [Answer(s, r, NoneSent) EXCEPT !.ff[o] = Blank]
Opened(a, o, mode) ==
  \E s, p, n : a = [Answer(s, 0, <<"fd", o>>) EXCEPT
                     !.tab[o] = p, !.ff[o] = [size |-> n, omode |-> mode, offset |-> 0]]

LEMMA ServeOpenAnswers ==
  ASSUME NEW q, ~(open_alloc < 0)
  PROVE  Cleared(serve_open(q), open_alloc) \/ Opened(serve_open(q), open_alloc, q.mode)
<1> DEFINE
      o == open_alloc
      fails(x)   == [Answer(x.s, x.r, NoneSent) EXCEPT !.ff[o] = Blank]
      passed(x)  == x.r >= 0 \/ x.r = -E_FILE_EXISTS
      fill(f, s) == [Answer(s, 0, <<"fd", o>>) EXCEPT
                       !.tab[o] = f.file,
                       !.ff[o] = [size |-> IF Halted(s) THEN 0 ELSE FileAt(s, f.file).size,
                                  omode |-> q.mode, offset |-> 0]]
      open(f)    == IF f.r < 0 THEN fails(f)
                      ELSE fill(f, IF "TRUNC" \in q.mode THEN file_set_size(f.s, f.file, 0)
                                                         ELSE f.s)
      made(x)    == IF passed(x) THEN open(file_open(x.s, q.path)) ELSE fails(x)
      mkdir(x)   == IF "MKDIR" \in q.mode /\ passed(x)
                      THEN file_create(x.s, q.mode, q.path) ELSE x
      create     == IF "CREAT" \in q.mode THEN file_create(fs, q.mode, q.path)
                                          ELSE [s |-> fs, r |-> 0]
<1>1. serve_open(q) = made(mkdir(create))
  BY Zenon DEF serve_open
<1>2. \A x : Cleared(fails(x), o)
  BY DEF Cleared
<1>3. \A f, s : Opened(fill(f, s), o, q.mode)
  BY DEF Opened
<1> HIDE DEF fails, fill, o
<1>4. \A f : Cleared(open(f), o) \/ Opened(open(f), o, q.mode)
  BY <1>2, <1>3
<1> HIDE DEF open, passed
<1>5. \A x : Cleared(made(x), o) \/ Opened(made(x), o, q.mode)
  BY <1>2, <1>4
<1> HIDE DEF made, mkdir, create
<1> QED BY <1>1, <1>5 DEF o

LEMMA ServeOpen ==
  ASSUME Types, InUse, NEW q, q.mode \in Mode
  PROVE  GoodAnswer(serve_open(q))
<1>1. CASE open_alloc < 0
  <2>1. serve_open(q) = Answer(fs, open_alloc, NoneSent)
    BY <1>1, Zenon DEF serve_open
  <2> QED BY <2>1, AnswerPlainly, PlainAnswer DEF NoneSent
<1>2. CASE ~(open_alloc < 0)
  <2>1. PICK o : o = open_alloc
    OBVIOUS
  <2>2. o \in Slot /\ Holders(o) = {}
    BY <1>2, <2>1, OpenAlloc
  <2>3. ASSUME NEW a, Cleared(a, o)
        PROVE  GoodAnswer(a)
    <3>1. PICK s, r : a = [Answer(s, r, NoneSent) EXCEPT !.ff[o] = Blank]
      BY <2>3 DEF Cleared
    <3>2. a.tab = opentab /\ a.ff = [ff EXCEPT ![o] = Blank] /\ a.page = NoneSent
      BY <3>1 DEF Answer
    <3>3. DOMAIN Blank = {"size", "omode", "offset"}
      BY DEF Blank
    <3> QED BY <2>2, <3>2, <3>3 DEF GoodAnswer, Types, NoneSent
  <2>4. ASSUME NEW a, Opened(a, o, q.mode)
        PROVE  GoodAnswer(a)
    <3>1. PICK s, p, n : a = [Answer(s, 0, <<"fd", o>>) EXCEPT !.tab[o] = p,
                                !.ff[o] = [size |-> n, omode |-> q.mode, offset |-> 0]]
      BY <2>4 DEF Opened
    <3>2. PICK f : f = [size |-> n, omode |-> q.mode, offset |-> 0]
      OBVIOUS
    <3>3. /\ a.tab = [opentab EXCEPT ![o] = p] /\ a.ff = [ff EXCEPT ![o] = f]
          /\ a.page = <<"fd", o>>
      BY <3>1, <3>2 DEF Answer
    <3>4. DOMAIN f = {"size", "omode", "offset"} /\ f.omode # {"none"}
      <4>1. q.mode \subseteq OpenFlag
        BY ServerAssumption
      <4> QED BY <3>2, <4>1 DEF OpenFlag
    <3>5. a.page[1] = "fd" /\ a.page[2] = o
      BY <3>3
    <3> QED BY <2>2, <3>3, <3>4, <3>5 DEF GoodAnswer, Types
  <2> QED BY <1>2, <2>1, <2>3, <2>4, ServeOpenAnswers
<1> QED BY <1>1, <1>2

LEMMA ServeTable ==
  ASSUME Types, InUse, NEW q, GoodRequest(q)
  PROVE  GoodAnswer(serve_table(q))
<1>1. CASE q.t = "open"
  BY <1>1, ServeOpen, Zenon DEF serve_table, GoodRequest
<1>2. CASE q.t # "open"
  <2>1. Plainly(serve_table(q))
    BY <1>2, ServeMap, ServeOthers DEF serve_table, GoodRequest
  <2> QED BY <2>1, PlainAnswer
<1> QED BY <1>1, <1>2

-----------------------------------------------------------------------------
(* What the clients do by themselves *)

\* The requests stay requests, and the server does nothing.
IpcKept == srv' = srv /\ DOMAIN pc' = Client /\ DOMAIN req' = Client /\ Requests'

\* A client writes sizes and offsets into Filefd pages, but no modes.
PagesKept ==
  /\ opentab' = opentab /\ DOMAIN ff' = Slot
  /\ \A o \in Slot : DOMAIN ff'[o] = {"size", "omode", "offset"}
                     /\ ff'[o].omode = ff[o].omode

\* No client has a slot open that no client had open.
FdsKept ==
  /\ fds' \in [Client -> [Fd -> Slot \cup {NoSlot}]]
  /\ \A c \in Client, fd \in Fd : fds'[c][fd] # NoSlot =>
       \E d \in Client, gd \in Fd : fds'[c][fd] = fds[d][gd]

LEMMA Sends ==
  ASSUME IInv, NEW c \in Client, NEW r, NEW x, GoodRequest(r), Send(c, r, x)
  PROVE  IpcKept
BY DEF IInv, Types, Requests, Send, IpcKept

LEMMA Returns ==
  ASSUME IInv, NEW c \in Client, Return(c)
  PROVE  IpcKept
BY DEF IInv, Types, Requests, Return, IpcKept

LEMMA GoneKeeps ==
  ASSUME IInv, NEW c \in Client, Gone(c), srv' = srv
  PROVE  IpcKept /\ FdsKept
<1>1. IpcKept
  BY DEF IInv, Types, Requests, Gone, IpcKept
<1>2. FdsKept
  BY DEF IInv, Types, Gone, FdsKept
<1> QED BY <1>1, <1>2

LEMMA IpcStays ==
  ASSUME IInv, UNCHANGED <<srv, pc, req>>
  PROVE  IpcKept
BY DEF IInv, Types, Requests, IpcKept

LEMMA PagesStay ==
  ASSUME IInv, opentab' = opentab,
         \/ ff' = ff
         \/ \E o, v : ff' = [ff EXCEPT ![o].size = v]
         \/ \E o, v : ff' = [ff EXCEPT ![o].offset = v]
  PROVE  PagesKept
<1>0. DOMAIN ff = Slot /\ \A p \in Slot : DOMAIN ff[p] = {"size", "omode", "offset"}
  BY DEF IInv, Types
<1>1. CASE ff' = ff
  BY <1>0, <1>1 DEF PagesKept
<1>2. ASSUME NEW o, NEW v, ff' = [ff EXCEPT ![o].size = v]
      PROVE  PagesKept
  BY <1>0, <1>2 DEF PagesKept
<1>3. ASSUME NEW o, NEW v, ff' = [ff EXCEPT ![o].offset = v]
      PROVE  PagesKept
  BY <1>0, <1>3 DEF PagesKept
<1> QED BY <1>1, <1>2, <1>3

LEMMA FdsStay ==
  ASSUME IInv, fds' = fds
  PROVE  FdsKept
BY DEF IInv, Types, FdsKept

LEMMA FdClosed ==
  ASSUME IInv, NEW c \in Client, NEW fd, fds' = [fds EXCEPT ![c][fd] = NoSlot]
  PROVE  FdsKept
BY DEF IInv, Types, FdsKept

LEMMA KeptInv ==
  ASSUME IInv, IpcKept, PagesKept, FdsKept
  PROVE  /\ IInv'
         /\ \A o \in Slot : opentab'[o] = opentab[o] /\ ff'[o].omode = ff[o].omode
<1>1. Types'
  BY DEF IInv, IpcKept, PagesKept, FdsKept, Types
<1>2. Requests' /\ Answers'
  BY DEF IInv, IpcKept, Answers
<1>3. ASSUME NEW o \in Slot, Holders(o)' # {} PROVE Holders(o) # {}
  <2>1. PICK c \in Client, fd \in Fd : fds'[c][fd] = o
    BY <1>3 DEF Holders
  <2>2. o # NoSlot
    BY Numbers
  <2>3. PICK d \in Client, gd \in Fd : fds[d][gd] = o
    BY <2>1, <2>2 DEF FdsKept
  <2>4. <<d, gd>> \in Holders(o)
    BY <2>3 DEF Holders
  <2> QED BY <2>4
<1>4. ASSUME NEW o \in Slot, OnItsWay(o)' PROVE OnItsWay(o)
  BY <1>4 DEF OnItsWay, IpcKept
<1>5. InUse'
  BY <1>3, <1>4 DEF InUse, IInv, PagesKept
<1> QED BY <1>1, <1>2, <1>5 DEF IInv, PagesKept

\* The step is one of a client's that keep the slots.
Keeps == IpcKept /\ PagesKept /\ FdsKept

LEMMA GoodRequests ==
  /\ \A path, mode : mode \in Mode => GoodRequest(OpenReq(path, mode))
  /\ \A o, n : /\ GoodRequest(MapReq(o, n)) /\ GoodRequest(SizeReq(o, n))
               /\ GoodRequest(DirtyReq(o, n)) /\ GoodRequest(RemoveReq(o, n))
  /\ \A o : GoodRequest(CloseReq(o))
  /\ GoodRequest(SyncReq)
BY DEF GoodRequest, OpenReq, MapReq, SizeReq, DirtyReq, CloseReq, RemoveReq, SyncReq

LEMMA CallsKeep ==
  ASSUME IInv, NEW c \in Client
  PROVE  /\ \A path \in Path, mode \in Mode : OpenCall(c, path, mode) => Keeps
         /\ \A fd \in Fd : \A len : WriteCall(c, fd, len) => Keeps
         /\ \A fd \in Fd, size \in Size : TruncateCall(c, fd, size) => Keeps
         /\ \A fd \in Fd : \A len : ReadCall(c, fd, len) => Keeps
         /\ \A fd \in Fd : SeekCall(c, fd) => Keeps
<1>1. ASSUME NEW path \in Path, NEW mode \in Mode, OpenCall(c, path, mode) PROVE Keeps
  <2>1. PICK x : Send(c, OpenReq(path, mode), x)
    BY <1>1, Zenon DEF OpenCall
  <2>2. opentab' = opentab /\ ff' = ff /\ fds' = fds
    BY <1>1 DEF OpenCall, ServerKeeps, mapvars
  <2> QED BY <2>1, <2>2, GoodRequests, Sends, PagesStay, FdsStay DEF Keeps
<1>2. ASSUME NEW fd \in Fd, NEW len, WriteCall(c, fd, len) PROVE Keeps
  <2>1. opentab' = opentab /\ fds' = fds
    BY <1>2 DEF WriteCall, ServerKeeps
  <2>2. \/ /\ \E n, x : Send(c, SizeReq(fds[c][fd], n), x)
           /\ \E o, v : ff' = [ff EXCEPT ![o].size = v]
        \/ /\ \E o, v : Advance(o, v)
           /\ UNCHANGED ipcvars
    BY <1>2, Zenon DEF WriteCall
  <2>3. IpcKept
    BY <2>2, GoodRequests, Sends, IpcStays DEF ipcvars
  <2>4. PagesKept
    BY <2>1, <2>2, PagesStay DEF Advance
  <2> QED BY <2>1, <2>3, <2>4, FdsStay DEF Keeps
<1>3. ASSUME NEW fd \in Fd, NEW size \in Size, TruncateCall(c, fd, size) PROVE Keeps
  <2>1. \E o, x : Send(c, SizeReq(o, size), x)
    BY <1>3, Zenon DEF TruncateCall
  <2>2. /\ opentab' = opentab /\ fds' = fds
        /\ \E o, v : ff' = [ff EXCEPT ![o].size = v]
    BY <1>3, Zenon DEF TruncateCall, ServerKeeps, mapvars
  <2> QED BY <2>1, <2>2, GoodRequests, Sends, PagesStay, FdsStay DEF Keeps
<1>4. ASSUME NEW fd \in Fd, NEW len, ReadCall(c, fd, len) PROVE Keeps
  <2>1. /\ opentab' = opentab /\ fds' = fds /\ UNCHANGED <<srv, pc, req>>
        /\ \E o, v : Advance(o, v)
    BY <1>4, Zenon DEF ReadCall, ServerKeeps, ipcvars
  <2> QED BY <2>1, IpcStays, PagesStay, FdsStay DEF Keeps, Advance
<1>5. ASSUME NEW fd \in Fd, SeekCall(c, fd) PROVE Keeps
  <2>1. /\ opentab' = opentab /\ fds' = fds /\ UNCHANGED <<srv, pc, req>>
        /\ \E o, v : ff' = [ff EXCEPT ![o].offset = v]
    BY <1>5, Zenon DEF SeekCall, ServerKeeps, ipcvars, mapvars
  <2> QED BY <2>1, IpcStays, PagesStay, FdsStay DEF Keeps
<1> QED BY <1>1, <1>2, <1>3, <1>4, <1>5

LEMMA CloseSends ==
  ASSUME IInv, NEW c \in Client, NEW x, CloseStep(c, x)
  PROVE  IpcKept
BY GoodRequests, Sends DEF CloseStep

LEMMA MoreCallsKeep ==
  ASSUME IInv, NEW c \in Client
  PROVE  /\ \A fd \in Fd : CloseCall(c, fd) => Keeps
         /\ \A path \in Path, type \in {0, 1} : RemoveCall(c, path, type) => Keeps
         /\ SyncCall(c) => Keeps
         /\ ExitCall(c) => Keeps
         /\ \A d \in Client : Fork(c, d) => Keeps
         /\ Kill(c) => Keeps
<1>1. ASSUME NEW fd \in Fd, CloseCall(c, fd) PROVE Keeps
  <2>1. \E x : CloseStep(c, x)
    BY <1>1, Zenon DEF CloseCall, StartClose
  <2>2. opentab' = opentab /\ ff' = ff /\ fds' = fds
    BY <1>1 DEF CloseCall, ServerKeeps, mapvars
  <2> QED BY <2>1, <2>2, CloseSends, PagesStay, FdsStay DEF Keeps
<1>2. ASSUME NEW path \in Path, NEW type \in {0, 1}, RemoveCall(c, path, type) PROVE Keeps
  <2>1. \E x : Send(c, RemoveReq(path, type), x)
    BY <1>2, Zenon DEF RemoveCall
  <2>2. opentab' = opentab /\ ff' = ff /\ fds' = fds
    BY <1>2 DEF RemoveCall, ServerKeeps, mapvars
  <2> QED BY <2>1, <2>2, GoodRequests, Sends, PagesStay, FdsStay DEF Keeps
<1>3. ASSUME SyncCall(c) PROVE Keeps
  <2>1. \E x : Send(c, SyncReq, x)
    BY <1>3, Zenon DEF SyncCall
  <2>2. opentab' = opentab /\ ff' = ff /\ fds' = fds
    BY <1>3 DEF SyncCall, ServerKeeps, mapvars
  <2> QED BY <2>1, <2>2, GoodRequests, Sends, PagesStay, FdsStay DEF Keeps
<1>4. ASSUME ExitCall(c) PROVE Keeps
  <2>1. opentab' = opentab /\ ff' = ff /\ fds' = fds /\ UNCHANGED <<srv, pc, req>>
    BY <1>4 DEF ExitCall, mapvars, ipcvars
  <2> QED BY <2>1, IpcStays, PagesStay, FdsStay DEF Keeps
<1>5. ASSUME NEW d \in Client, Fork(c, d) PROVE Keeps
  <2>1. /\ opentab' = opentab /\ ff' = ff /\ srv' = srv /\ req' = req
        /\ pc' = [pc EXCEPT ![d] = "idle"] /\ fds' = [fds EXCEPT ![d] = fds[c]]
    BY <1>5 DEF Fork
  <2>2. IpcKept
    BY <2>1 DEF IInv, Types, Requests, IpcKept
  <2>3. FdsKept
    BY <2>1 DEF IInv, Types, FdsKept
  <2> QED BY <2>1, <2>2, <2>3, PagesStay DEF Keeps
<1>6. ASSUME Kill(c) PROVE Keeps
  <2>1. opentab' = opentab /\ ff' = ff /\ srv' = srv /\ Gone(c)
    BY <1>6 DEF Kill
  <2> QED BY <2>1, GoneKeeps, PagesStay DEF Keeps
<1> QED BY <1>1, <1>2, <1>3, <1>4, <1>5, <1>6

LEMMA ProgressKeeps ==
  ASSUME IInv, NEW c \in Client, Progress(c)
  PROVE  Keeps
<1>1. CASE Receive(c)
  <2>1. /\ opentab' = opentab /\ ff' = ff /\ fds' = fds /\ srv' = srv /\ req' = req
        /\ pc' = [pc EXCEPT ![c] = "recv"]
    BY <1>1 DEF Receive, mapvars
  <2>2. IpcKept
    BY <2>1 DEF IInv, Types, Requests, IpcKept
  <2> QED BY <2>1, <2>2, PagesStay, FdsStay DEF Keeps
<1>2. CASE SendFails(c) \/ SimpleNext(c)
  <2>1. Return(c) /\ opentab' = opentab /\ ff' = ff /\ fds' = fds
    BY <1>2 DEF SendFails, SimpleNext, ServerKeeps, mapvars
  <2> QED BY <2>1, Returns, PagesStay, FdsStay DEF Keeps
<1>3. CASE OpenNext(c)
  <2>1. Return(c) \/ \E o, n, x : Send(c, MapReq(o, n), x)
    BY <1>3, Zenon DEF OpenNext
  <2>2. opentab' = opentab /\ ff' = ff /\ fds' = fds
    BY <1>3 DEF OpenNext, ServerKeeps, mapvars
  <2>3. IpcKept
    BY <2>1, GoodRequests, Returns, Sends
  <2> QED BY <2>2, <2>3, PagesStay, FdsStay DEF Keeps
<1>4. CASE TruncateNext(c)
  <2>1. \/ Return(c)
        \/ \E o, n, x : Send(c, SizeReq(o, n), x)
        \/ \E o, n, x : Send(c, MapReq(o, n), x)
    BY <1>4, Zenon DEF TruncateNext
  <2>2. ff' = ff \/ \E o, v : Advance(o, v)
    BY <1>4, Zenon DEF TruncateNext
  <2>3. opentab' = opentab /\ fds' = fds
    BY <1>4, Zenon DEF TruncateNext, ServerKeeps
  <2>4. IpcKept
    BY <2>1, GoodRequests, Returns, Sends
  <2> QED BY <2>2, <2>3, <2>4, PagesStay, FdsStay DEF Keeps, Advance
<1>5. CASE CloseNext(c)
  <2>1. \/ (\E x : CloseStep(c, x)) /\ fds' = fds
        \/ Return(c) /\ \E fd : fds' = [fds EXCEPT ![c][fd] = NoSlot]
    BY <1>5, Zenon DEF CloseNext, mapvars
  <2>2. opentab' = opentab /\ ff' = ff
    BY <1>5, Zenon DEF CloseNext, ServerKeeps
  <2>3. IpcKept
    BY <2>1, CloseSends, Returns
  <2>4. FdsKept
    BY <2>1, FdsStay, FdClosed
  <2> QED BY <2>2, <2>3, <2>4, PagesStay DEF Keeps
<1>6. CASE ExitNext(c)
  <2>1. \/ (\E x : CloseStep(c, x)) /\ fds' = fds
        \/ Gone(c) /\ srv' = srv
    BY <1>6, Zenon DEF ExitNext, StartClose, mapvars
  <2>2. opentab' = opentab /\ ff' = ff
    BY <1>6, Zenon DEF ExitNext, ServerKeeps
  <2>3. IpcKept /\ FdsKept
    BY <2>1, CloseSends, FdsStay, GoneKeeps
  <2> QED BY <2>2, <2>3, PagesStay DEF Keeps
<1> QED BY <1>1, <1>2, <1>3, <1>4, <1>5, <1>6 DEF Progress

-----------------------------------------------------------------------------
(* The server *)

\* A request is only begun when no answer is on its way, so that the slots to
\* be kept are those that someone has open.
LEMMA ServeStep ==
  ASSUME IInv, NEW c \in Client, Serve(c)
  PROVE  /\ IInv'
         /\ \A o \in Slot : Holders(o) # {} \/ OnItsWay(o) =>
              opentab'[o] = opentab[o] /\ ff'[o].omode = ff[o].omode
<1>1. PICK a : a = serve_table(req[c])
  OBVIOUS
<1>2. GoodAnswer(a)
  <2>1. GoodRequest(req[c])
    BY DEF Serve, IInv, Requests
  <2> QED BY <1>1, <2>1, ServeTable DEF IInv
<1>3. /\ srv.st = "recv"
      /\ Served(c, a, [st |-> "reply", to |-> c, r |-> a.r, page |-> a.page])
  BY <1>1, Zenon DEF Serve
<1>4. /\ opentab' = a.tab /\ ff' = a.ff /\ fds' = fds
      /\ pc' = [pc EXCEPT ![c] = "sent"] /\ req' = [req EXCEPT ![c] = NoReq]
      /\ \/ srv' = [Waiting EXCEPT !.st = "dead"]
         \/ srv' = [st |-> "reply", to |-> c, r |-> a.r, page |-> a.page]
  BY <1>3, Zenon DEF Served
<1>5. \A o \in Slot : ~OnItsWay(o)
  BY <1>3 DEF OnItsWay
<1>6. \A o \in Slot : OnItsWay(o)' => ff'[o].omode # {"none"}
  <2> SUFFICES ASSUME NEW o \in Slot, srv'.st = "reply", srv'.page = <<"fd", o>>
               PROVE  a.ff[o].omode # {"none"}
    BY <1>4 DEF OnItsWay
  <2>1. a.page = <<"fd", o>>
    BY <1>4 DEF Waiting
  <2> QED BY <1>2, <2>1 DEF GoodAnswer
<1>7. \A o \in Slot : Holders(o)' = Holders(o)
  BY <1>4 DEF Holders
<1>8. InUse'
  BY <1>2, <1>4, <1>6, <1>7 DEF InUse, IInv, GoodAnswer
<1>9. Types'
  BY <1>2, <1>4 DEF IInv, Types, GoodAnswer
<1>10. Requests'
  BY <1>4 DEF IInv, Types, Requests
<1>11. Answers'
  BY <1>2, <1>4 DEF Answers, GoodAnswer, Waiting
<1> QED BY <1>2, <1>4, <1>5, <1>8, <1>9, <1>10, <1>11 DEF IInv, GoodAnswer

LEMMA ReplyStep ==
  ASSUME IInv, Reply
  PROVE  /\ IInv'
         /\ opentab' = opentab /\ ff' = ff
<1>1. PICK c : c = srv.to
  OBVIOUS
<1>2. PICK fd : fd = k[c].fd
  OBVIOUS
<1>3. /\ srv.st = "reply" /\ c \in Client /\ opentab' = opentab /\ ff' = ff /\ req' = req
      /\ \/ /\ pc' = [pc EXCEPT ![c] = "run"] /\ srv' = Waiting
            /\ fds' = IF srv.page[1] = "fd" THEN [fds EXCEPT ![c][fd] = srv.page[2]] ELSE fds
         \/ srv' = [Waiting EXCEPT !.st = "dead"] /\ pc' = pc /\ fds' = fds
  BY <1>1, <1>2 DEF Reply, IInv, Answers
<1>4. srv.page[1] = "fd" => srv.page[2] \in Slot /\ OnItsWay(srv.page[2])
  BY <1>3 DEF IInv, Answers, OnItsWay
<1>5. Types'
  <2>1. fds \in [Client -> [Fd -> Slot \cup {NoSlot}]]
    BY DEF IInv, Types
  <2>2. fds' \in [Client -> [Fd -> Slot \cup {NoSlot}]]
    <3>1. CASE fds' = fds
      BY <2>1, <3>1
    <3>2. CASE srv.page[1] = "fd" /\ fds' = [fds EXCEPT ![c][fd] = srv.page[2]]
      <4>1. PICK v : v = srv.page[2]
        OBVIOUS
      <4>2. v \in Slot
        BY <1>4, <3>2, <4>1
      <4> QED BY <2>1, <3>2, <4>1, <4>2
    <3> QED BY <1>3, <3>1, <3>2
  <2> QED BY <1>3, <2>2 DEF IInv, Types
<1>6. Requests' /\ Answers'
  BY <1>3 DEF IInv, Types, Requests, Answers, Waiting
<1>7. ASSUME NEW o \in Slot, Holders(o)' # {} PROVE Holders(o) # {} \/ OnItsWay(o)
  <2>1. PICK d \in Client, gd \in Fd : fds'[d][gd] = o
    BY <1>7 DEF Holders
  <2> DEFINE f == [fds EXCEPT ![c][fd] = srv.page[2]]
  <2>a. fds \in [Client -> [Fd -> Slot \cup {NoSlot}]]
    BY DEF IInv, Types
  <2>b. f[d][gd] = fds[d][gd] \/ f[d][gd] = srv.page[2]
    BY <2>1, <2>a
  <2>c. fds' = fds \/ (srv.page[1] = "fd" /\ fds' = f)
    BY <1>3
  <2> HIDE DEF f
  <2>2. fds[d][gd] = o \/ (srv.page[1] = "fd" /\ srv.page[2] = o)
    BY <2>1, <2>b, <2>c
  <2>3. fds[d][gd] = o => <<d, gd>> \in Holders(o)
    BY DEF Holders
  <2> QED BY <1>4, <2>2, <2>3
<1>8. \A o \in Slot : ~OnItsWay(o)'
  BY <1>3 DEF OnItsWay, Waiting
<1>9. InUse'
  BY <1>3, <1>7, <1>8 DEF IInv, InUse
<1> QED BY <1>3, <1>5, <1>6, <1>9 DEF IInv

LEMMA InitIInv == Init => IInv
<1> SUFFICES ASSUME Init PROVE IInv
  OBVIOUS
<1>1. \A o \in Slot : Holders(o) = {} /\ ~OnItsWay(o)
  BY Numbers DEF Init, Holders, OnItsWay, Waiting
<1>2. Types
  BY DEF Init, Types, NoPage
<1>3. Requests /\ Answers
  BY DEF Init, Requests, Answers, Waiting
<1> QED BY <1>1, <1>2, <1>3 DEF IInv, InUse

LEMMA NextStep ==
  ASSUME IInv, [Next]_vars
  PROVE  /\ IInv'
         /\ \A o \in Slot : Holders(o) # {} \/ OnItsWay(o) =>
              opentab'[o] = opentab[o] /\ ff'[o].omode = ff[o].omode
<1>1. CASE UNCHANGED vars
  <2>1. IpcKept /\ PagesKept /\ FdsKept
    BY <1>1, IpcStays, PagesStay, FdsStay DEF vars
  <2> QED BY <2>1, KeptInv
<1>2. CASE \E c \in Client : Serve(c)
  BY <1>2, ServeStep
<1>3. CASE Reply
  BY <1>3, ReplyStep
<1>4. ASSUME NEW c \in Client, Calls(c) PROVE Keeps
  BY <1>4, CallsKeep, MoreCallsKeep DEF Calls
<1>5. CASE \E c \in Client : Calls(c) \/ Progress(c) \/ Kill(c)
  <2>1. Keeps
    BY <1>4, <1>5, ProgressKeeps, MoreCallsKeep
  <2> QED BY <2>1, KeptInv DEF Keeps
<1> QED BY <1>1, <1>2, <1>3, <1>5 DEF Next

-----------------------------------------------------------------------------
\* open_alloc (fs/serv.c:69) never gives away a slot that a client has open,
\* by open, by fork or by an answer that it has not received yet: as long as
\* it has, the slot keeps its file and its mode, whatever the others do and
\* whoever is killed.
THEOREM OpenSlotsStay == Spec => OpenSlotKept
<1>1. IInv /\ [Next]_vars => IInv'
  BY NextStep
<1>2. IInv /\ [Next]_vars =>
        [\A o \in Slot :
           Holders(o) # {} \/ (srv.st = "reply" /\ srv.page = <<"fd", o>>)
             => opentab'[o] = opentab[o] /\ ff'[o].omode = ff[o].omode]_vars
  BY NextStep DEF OnItsWay
<1> QED BY <1>1, <1>2, InitIInv, PTL DEF Spec, OpenSlotKept
=============================================================================
