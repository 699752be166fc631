----------------------------- MODULE FileServer ------------------------------
(***************************************************************************)
(* The file system server and its clients: the requests of fs/serv.c, the  *)
(* library calls of user/lib/file.c and fsipc.c that make them, and the    *)
(* IPC between the two (user/lib/ipc.c).  The server serves one request at *)
(* a time and then waits for its client to receive the answer; clients run *)
(* in between in any order, and write the file pages they have mapped      *)
(* without asking anyone.                                                  *)
(*                                                                         *)
(* A client is "send" while ipc_send tries to hand over its request,       *)
(* "sent" from then until it receives, "recv" in ipc_recv, "run" when it   *)
(* has the answer, "idle" between calls.  An open file is a slot of        *)
(* opentab; the slot's Filefd page is mapped by the server and by every    *)
(* client that has the file open, and the number of mappings is what tells *)
(* a slot in use from a free one.                                          *)
(***************************************************************************)
EXTENDS FsFormat, FiniteSets

CONSTANTS Client, Begins,   \* processes; the sets of them that may run at first
          MAXOPEN, MAXFD,   \* slots of opentab; descriptors of a process, and 1
          Items, Path, Mode,\* the disk at first; what is opened, and how
          Size,             \* sizes given to ftruncate
          MaxOps            \* bound: library calls in a history

\* The flags of open(); a mode without any is O_RDONLY.
OpenFlag == {"WRONLY", "RDWR", "CREAT", "TRUNC", "EXCL", "MKDIR"}

ASSUME ServerAssumption ==
  /\ IsFiniteSet(Client) /\ MAXOPEN \in Nat /\ MAXFD \in Nat
  /\ Mode \subseteq SUBSET OpenFlag

Slot   == 0 .. MAXOPEN - 1
Fd     == 0 .. MAXFD - 2
NoSlot == -1
Private == -1              \* a page of the client's own, not of the cache
MAXFILESIZE == NINDIRECT * BLOCK_SIZE

VARIABLES fs,        \* the file system (BlockCache)
          opentab,   \* Slot -> where the file's structure is
          ff,        \* Slot -> its Filefd page, or NoPage
          srv,       \* the server: waiting, answering a client, or ended
          pc, req, k,\* of each client: where it is, its request, its call
          fds,       \* the slot whose Filefd page is mapped at a descriptor
          pages,     \* the blocks mapped at a descriptor's data; 0: none
          exiting,   \* clients in exit()
          ops,
          killed,    \* history: a client was killed
          shaken     \* history: slots whose file someone else touched

ipcvars == <<srv, pc, req, k>>
mapvars == <<fds, pages>>
vars == <<fs, opentab, ff, srv, pc, req, k, fds, pages, exiting, ops, killed, shaken>>

NoPage == [size |-> -1, omode |-> {"none"}, offset |-> 0]
Blank  == [size |-> 0, omode |-> {}, offset |-> 0]
NoReq  == [t |-> "none"]
NoCall == [fn |-> "none", fd |-> 0, i |-> 0, n |-> 0, old |-> 0, len |-> 0, r |-> 0]
Waiting == [st |-> "recv", to |-> CHOOSE c \in Client : TRUE, r |-> 0, page |-> <<"none", 0>>]
NoData  == [n \in 0 .. NINDIRECT - 1 |-> 0]

Init ==
  /\ fs = fs_init(finish_fs(Image(Items)))
  /\ opentab = [o \in Slot |-> Null]
  /\ ff = [o \in Slot |-> NoPage]
  /\ srv = Waiting
  /\ \E B \in Begins : pc = [c \in Client |-> IF c \in B THEN "idle" ELSE "new"]
  /\ req = [c \in Client |-> NoReq]
  /\ k = [c \in Client |-> NoCall]
  /\ fds = [c \in Client |-> [fd \in Fd |-> NoSlot]]
  /\ pages = [c \in Client |-> [fd \in Fd |-> NoData]]
  /\ exiting = {} /\ ops = 0 /\ killed = FALSE /\ shaken = {}

-----------------------------------------------------------------------------
(* Serving a request.  A handler gives the new fs, opentab and ff, the     *)
(* result, and the page that goes with it.                                 *)

Holders(o) == {x \in Client \X Fd : fds[x[1]][x[2]] = o}

pageref(o) == IF ff[o] = NoPage THEN 0 ELSE 1 + Cardinality(Holders(o))

Answer(s, r, page) == [s |-> s, tab |-> opentab, ff |-> ff, r |-> r, page |-> page]
NoneSent == <<"none", 0>>

\* Mutant of open_alloc: a page with two mappings counts as free.
AllocShared ==
  LET cand == {o \in Slot : pageref(o) =< 2}
  IN  IF cand = {} THEN -E_MAX_OPEN ELSE CHOOSE o \in cand : \A x \in cand : o =< x

\* The first slot that no client has mapped.
open_alloc ==
  LET cand == {o \in Slot : pageref(o) =< 1}
  IN  IF cand = {} THEN -E_MAX_OPEN ELSE CHOOSE o \in cand : \A x \in cand : o =< x

\* Whether the slot is open, for anyone.
open_lookup(o) == IF o < MAXOPEN /\ pageref(o) > 1 THEN 0 ELSE -E_INVAL

\* The slot's page is cleared before the file is looked for.
serve_open(q) ==
  LET o == open_alloc
      fails(x)   == [Answer(x.s, x.r, NoneSent) EXCEPT !.ff[o] = Blank]
      passed(x)  == x.r >= 0 \/ x.r = -E_FILE_EXISTS
      fill(f, s) == [Answer(s, 0, <<"fd", o>>) EXCEPT
                       !.tab[o] = f.file,
                       !.ff[o] = [size |-> IF Halted(s) THEN 0 ELSE FileAt(s, f.file).size,
                                  omode |-> q.mode, offset |-> 0]]
      open(f)    == IF f.r < 0 THEN fails(f)
                      ELSE fill(f, IF "TRUNC" \in q.mode THEN file_set_size(f.s, f.file, 0)
                                                         ELSE f.s)
      made(x)    == IF passed(x) THEN open(file_open(x.s, q.path)) ELSE fails(x)
      mkdir(x)   == IF "MKDIR" \in q.mode /\ passed(x)
                      THEN file_create(x.s, q.mode, q.path) ELSE x
      create     == IF "CREAT" \in q.mode THEN file_create(fs, q.mode, q.path)
                                          ELSE [s |-> fs, r |-> 0]
  IN  IF o < 0 THEN Answer(fs, o, NoneSent) ELSE made(mkdir(create))

\* A request about an open file: Op on the file the slot points to.
OnOpen(q, Op(_, _)) ==
  LET p == opentab[q.id]
  IN  IF open_lookup(q.id) < 0 THEN Answer(fs, open_lookup(q.id), NoneSent)
      ELSE IF Halted(Deref(fs, p)) THEN Answer(Deref(fs, p), -E_PANIC, NoneSent)
      ELSE Op(fs, p)

\* A result that goes back without a page.
Plain(x) == Answer(x.s, x.r, NoneSent)

serve_map(q) ==
  LET page(g) == Answer(g.s, g.r, IF g.r < 0 THEN NoneSent ELSE <<"blk", g.b>>)
  IN  OnOpen(q, LAMBDA s, p : page(file_get_block(s, p, q.off \div BLOCK_SIZE)))

serve_set_size(q) ==
  OnOpen(q, LAMBDA s, p : Answer(file_set_size(s, p, q.size), 0, NoneSent))

serve_close(q) == OnOpen(q, LAMBDA s, p : Answer(file_close(s, p), 0, NoneSent))

serve_dirty(q) == OnOpen(q, LAMBDA s, p : Plain(file_dirty(s, p, q.off)))

serve_remove(q) == Plain(file_remove(fs, q.path, q.type))

serve_sync == Answer(fs_sync(fs), 0, NoneSent)

serve_table(q) ==
  CASE q.t = "open"     -> serve_open(q)
    [] q.t = "map"      -> serve_map(q)
    [] q.t = "set_size" -> serve_set_size(q)
    [] q.t = "close"    -> serve_close(q)
    [] q.t = "dirty"    -> serve_dirty(q)
    [] q.t = "remove"   -> serve_remove(q)
    [] q.t = "sync"     -> serve_sync

\* History: the open slots whose file the request q of another may disturb.
Disturbed(q, a) ==
  LET open  == {o \in Slot : Holders(o) # {}}
      o     == a.page[2]
      hit(w) == {x \in open : opentab[x] = w.file \/ FileAt(w.s, w.file).type = FTYPE_DIR}
      twins == {x \in open : opentab[x] = a.tab[o]}
  IN  CASE q.t = "open" /\ a.r = 0 ->
             IF twins = {} THEN shaken \ {o} ELSE shaken \cup twins \cup {o}
        [] q.t = "remove" /\ a.r = 0 ->
             shaken \cup hit(walk_path(fs, q.path))
        [] q.t \in {"map", "set_size"} /\ a.r < 0 -> shaken \cup {q.id}
        [] OTHER -> shaken

\* The handler's effects, the answer to be sent, and c waiting for it.
Served(c, a, next) ==
  /\ fs' = a.s /\ opentab' = a.tab /\ ff' = a.ff
  /\ srv' = IF Halted(a.s) THEN [Waiting EXCEPT !.st = "dead"] ELSE next
  /\ pc' = [pc EXCEPT ![c] = "sent"]
  /\ req' = [req EXCEPT ![c] = NoReq]
  /\ shaken' = Disturbed(req[c], a)
  /\ UNCHANGED <<k, fds, pages, exiting, ops, killed>>

\* Mutant of Serve: an error is not sent to the client.
ServeSilentError(c) ==
  LET do(a) == Served(c, a, IF a.r < 0 THEN Waiting
                 ELSE [st |-> "reply", to |-> c, r |-> a.r, page |-> a.page])
  IN  srv.st = "recv" /\ pc[c] = "send" /\ do(serve_table(req[c]))

\* The server gets c's request and does it.  A panic ends the server.
Serve(c) ==
  LET do(a) == Served(c, a, [st |-> "reply", to |-> c, r |-> a.r, page |-> a.page])
  IN  srv.st = "recv" /\ pc[c] = "send" /\ do(serve_table(req[c]))

\* ipc_send of the answer, once the client receives: the page is mapped where
\* the client said.  A client that has ended is a failed assertion.
Reply ==
  LET c  == srv.to
      fd == k[c].fd
  IN  /\ srv.st = "reply"
      /\ \/ /\ pc[c] = "recv"
            /\ srv' = Waiting
            /\ pc' = [pc EXCEPT ![c] = "run"]
            /\ k' = [k EXCEPT ![c].r = srv.r]
            /\ fds' = IF srv.page[1] = "fd" THEN [fds EXCEPT ![c][fd] = srv.page[2]]
                                            ELSE fds
            /\ pages' = IF srv.page[1] = "blk"
                          THEN [pages EXCEPT ![c][fd][k[c].i] = srv.page[2]] ELSE pages
         \/ /\ pc[c] = "dead"
            /\ srv' = [Waiting EXCEPT !.st = "dead"]
            /\ UNCHANGED <<pc, k, fds, pages>>
      /\ UNCHANGED <<fs, opentab, ff, req, exiting, ops, killed, shaken>>

-----------------------------------------------------------------------------
(* The client's side of a request.                                         *)

\* fsipc: the request q of the call x.
Send(c, q, x) ==
  /\ pc' = [pc EXCEPT ![c] = "send"]
  /\ req' = [req EXCEPT ![c] = q]
  /\ k' = [k EXCEPT ![c] = x]
  /\ UNCHANGED srv

Return(c) ==
  /\ pc' = [pc EXCEPT ![c] = "idle"]
  /\ req' = [req EXCEPT ![c] = NoReq]
  /\ k' = [k EXCEPT ![c] = NoCall]
  /\ UNCHANGED srv

\* ipc_recv after ipc_send.
Receive(c) ==
  /\ pc[c] = "sent"
  /\ pc' = [pc EXCEPT ![c] = "recv"]
  /\ UNCHANGED <<fs, opentab, ff, srv, req, k, mapvars, exiting, ops, killed, shaken>>

\* A process ends: the kernel takes back what it has mapped.
Gone(c) ==
  /\ pc' = [pc EXCEPT ![c] = "dead"]
  /\ req' = [req EXCEPT ![c] = NoReq]
  /\ k' = [k EXCEPT ![c] = NoCall]
  /\ fds' = [fds EXCEPT ![c] = [fd \in Fd |-> NoSlot]]
  /\ pages' = [pages EXCEPT ![c] = [fd \in Fd |-> NoData]]

\* ipc_send to a server that has ended is a failed assertion, and _user_panic
\* calls exit(): with a file still open it tries to close it, and fails again.
SendFails(c) ==
  /\ pc[c] = "send" /\ srv.st = "dead"
  /\ Return(c)
  /\ exiting' = exiting \cup {c}
  /\ UNCHANGED <<fs, opentab, ff, mapvars, ops, killed, shaken>>

OpenReq(path, mode) == [t |-> "open", path |-> path, mode |-> mode]
MapReq(o, n)        == [t |-> "map", id |-> o, off |-> n * BLOCK_SIZE]
SizeReq(o, size)    == [t |-> "set_size", id |-> o, size |-> size]
DirtyReq(o, n)      == [t |-> "dirty", id |-> o, off |-> n * BLOCK_SIZE]
CloseReq(o)         == [t |-> "close", id |-> o]
RemoveReq(path, ty) == [t |-> "remove", path |-> path, type |-> ty]
SyncReq             == [t |-> "sync"]

\* A library call may begin.
Idle(c) == pc[c] = "idle" /\ c \notin exiting /\ ops < MaxOps /\ ops' = ops + 1

Answered(c, fn) == pc[c] = "run" /\ k[c].fn = fn

\* What only the server, or only a client's system calls, change.
ServerKeeps == UNCHANGED <<opentab, exiting, killed, shaken>>

-----------------------------------------------------------------------------
(* open                                                                    *)

\* The lowest free descriptor of fd_alloc.
OpenCall(c, path, mode) ==
  LET unused == {fd \in Fd : fds[c][fd] = NoSlot}
      fd     == CHOOSE x \in unused : \A y \in unused : x =< y
  IN  /\ Idle(c) /\ unused # {}
      /\ Send(c, OpenReq(path, mode), [NoCall EXCEPT !.fn = "open", !.fd = fd, !.i = -1])
      /\ UNCHANGED <<fs, ff, mapvars>> /\ ServerKeeps

\* Every block of the file, as long as it was when opened, is mapped.  An
\* error leaves the descriptor and the pages as they are.
OpenNext(c) ==
  LET x  == k[c]
      o  == fds[c][x.fd]
      n  == IF x.i = -1 THEN NBlocks(ff[o].size) ELSE x.n
  IN  /\ Answered(c, "open")
      /\ IF x.r = 0 /\ x.i + 1 < n
           THEN Send(c, MapReq(o, x.i + 1), [x EXCEPT !.i = @ + 1, !.n = n])
           ELSE Return(c)
      /\ UNCHANGED <<fs, ff, mapvars, ops>> /\ ServerKeeps

-----------------------------------------------------------------------------
(* read and write of an open file.                                         *)

CanRead(o)  == "WRONLY" \notin ff[o].omode
CanWrite(o) == ff[o].omode \cap {"WRONLY", "RDWR"} # {}

\* The offset is in the Filefd page, for everyone who has it mapped.
Advance(o, n) == ff' = [ff EXCEPT ![o].offset = @ + n]

-----------------------------------------------------------------------------
(* write and ftruncate                                                     *)

\* memcpy into the data pages of fd: a page that is not mapped is a page fault,
\* and the kernel gives the client a page of its own.
Store(c, fd, off, len) ==
  LET hit == {n \in 0 .. NINDIRECT - 1 :
                n \in off \div BLOCK_SIZE .. (off + len - 1) \div BLOCK_SIZE}
      blk == {pages[c][fd][n] : n \in hit} \ {0, Private}
  IN  /\ fs' = [fs EXCEPT !.mem = [b \in Block |-> IF b \in blk THEN Data(c) ELSE @[b]]]
      /\ pages' = [pages EXCEPT ![c][fd] =
                     [n \in DOMAIN @ |-> IF n \in hit /\ @[n] = 0 THEN Private ELSE @[n]]]

\* file_write: the size the descriptor knows decides whether to grow the file.
WriteCall(c, fd, len) ==
  LET o   == fds[c][fd]
      tot == ff[o].offset + len
  IN  /\ o # NoSlot /\ Idle(c)
      /\ CanWrite(o)
      /\ tot =< MAXFILESIZE
      /\ IF tot > ff[o].size
           THEN /\ ff' = [ff EXCEPT ![o].size = tot]
                /\ Send(c, SizeReq(o, tot),
                        [NoCall EXCEPT !.fn = "write", !.fd = fd, !.i = -1, !.n = tot,
                                       !.old = ff[o].size, !.len = len])
                /\ UNCHANGED <<fs, pages>>
           ELSE /\ Store(c, fd, ff[o].offset, len)
                /\ Advance(o, len)
                /\ UNCHANGED ipcvars
      /\ UNCHANGED fds /\ ServerKeeps

TruncateCall(c, fd, size) ==
  LET o == fds[c][fd]
  IN  /\ o # NoSlot /\ Idle(c) /\ size =< MAXFILESIZE
      /\ ff' = [ff EXCEPT ![o].size = size]
      /\ Send(c, SizeReq(o, size), [NoCall EXCEPT !.fn = "ftruncate", !.fd = fd, !.i = -1,
                                                  !.n = size, !.old = ff[o].size])
      /\ UNCHANGED <<fs, mapvars>> /\ ServerKeeps

\* ftruncate after an answer, in file_write too: i is the block that was
\* asked for, -1 after the first set_size and -2 after the one that undoes it.
\* The descriptor's size is not put back.
TruncateNext(c) ==
  LET x    == k[c]
      o    == fds[c][x.fd]
      next == IF x.i = -1 THEN NBlocks(x.old) ELSE x.i + 1
      cut  == {n \in 0 .. NINDIRECT - 1 : n \in NBlocks(x.n) .. NBlocks(x.old) - 1}
  IN  /\ pc[c] = "run" /\ x.fn \in {"write", "ftruncate"}
      /\ \/ /\ x.i = -2 \/ (x.i = -1 /\ x.r < 0)
            /\ Return(c) /\ UNCHANGED <<fs, ff, pages>>
         \/ /\ x.i >= 0 /\ x.r < 0
            /\ Send(c, SizeReq(o, x.old), [x EXCEPT !.i = -2])
            /\ UNCHANGED <<fs, ff, pages>>
         \/ /\ x.i >= -1 /\ x.r = 0 /\ next < NBlocks(x.n)
            /\ Send(c, MapReq(o, next), [x EXCEPT !.i = next])
            /\ UNCHANGED <<fs, ff, pages>>
         \/ /\ x.i >= -1 /\ x.r = 0 /\ next >= NBlocks(x.n)
            /\ Return(c)
            /\ IF x.fn = "write"
                 THEN /\ Store(c, x.fd, x.n - x.len, x.len)
                      /\ Advance(o, x.len)
                 ELSE /\ pages' = [pages EXCEPT ![c][x.fd] =
                                     [n \in DOMAIN @ |-> IF n \in cut THEN 0 ELSE @[n]]]
                      /\ UNCHANGED <<fs, ff>>
      /\ UNCHANGED <<fds, ops>> /\ ServerKeeps

-----------------------------------------------------------------------------
(* read and seek                                                           *)

\* How much there is to read, up to len.
file_read(o, len) ==
  IF ff[o].offset + len > ff[o].size THEN ff[o].size - ff[o].offset ELSE len

\* A page that is not mapped is read as zeros, on a page of the client's own.
ReadCall(c, fd, len) ==
  LET o   == fds[c][fd]
      off == ff[o].offset
      n   == file_read(o, len)
      hit == {m \in 0 .. NINDIRECT - 1 :
                m \in off \div BLOCK_SIZE .. (off + n - 1) \div BLOCK_SIZE}
  IN  /\ o # NoSlot /\ Idle(c)
      /\ CanRead(o)
      /\ off < ff[o].size
      /\ Advance(o, n)
      /\ pages' = [pages EXCEPT ![c][fd] =
                     [m \in DOMAIN @ |-> IF m \in hit /\ @[m] = 0 THEN Private ELSE @[m]]]
      /\ UNCHANGED <<fs, fds, ipcvars>> /\ ServerKeeps

SeekCall(c, fd) ==
  LET o == fds[c][fd]
  IN  /\ o # NoSlot /\ Idle(c) /\ ff[o].offset # 0
      /\ ff' = [ff EXCEPT ![o].offset = 0]
      /\ UNCHANGED <<fs, mapvars, ipcvars>> /\ ServerKeeps

-----------------------------------------------------------------------------
(* close, remove, sync, exit, fork                                         *)

\* Mutant of CloseStep: the last block is not marked.
DirtyButLast(c, x) ==
  LET o == fds[c][x.fd]
      m == IF x.i = x.n - 1 THEN x.n ELSE x.i
  IN  Send(c, IF m < x.n THEN DirtyReq(o, m) ELSE CloseReq(o), [x EXCEPT !.i = m])

\* Every block is marked dirty before the file is closed.
CloseStep(c, x) ==
  LET o == fds[c][x.fd]
  IN  Send(c, IF x.i < x.n THEN DirtyReq(o, x.i) ELSE CloseReq(o), x)

StartClose(c, fd) ==
  CloseStep(c, [NoCall EXCEPT !.fn = "close", !.fd = fd, !.n = NBlocks(ff[fds[c][fd]].size)])

CloseCall(c, fd) ==
  /\ fds[c][fd] # NoSlot /\ Idle(c)
  /\ StartClose(c, fd)
  /\ UNCHANGED <<fs, ff, mapvars>> /\ ServerKeeps

\* An error ends file_close at once, but close() always unmaps the descriptor.
CloseNext(c) ==
  LET x == k[c]
      n == x.n
  IN  /\ Answered(c, "close")
      /\ IF x.r = 0 /\ x.i < n
           THEN CloseStep(c, [x EXCEPT !.i = @ + 1]) /\ UNCHANGED mapvars
           ELSE /\ Return(c)
                /\ fds' = [fds EXCEPT ![c][x.fd] = NoSlot]
                /\ pages' = IF x.r < 0 THEN pages
                              ELSE [pages EXCEPT ![c][x.fd] =
                                      [m \in DOMAIN @ |-> IF m < n THEN 0 ELSE @[m]]]
      /\ UNCHANGED <<fs, ff, ops>> /\ ServerKeeps

\* remove() takes the type from the byte after the path, whatever it is.
RemoveCall(c, path, type) ==
  /\ Idle(c) /\ path # <<>>
  /\ Send(c, RemoveReq(path, type), [NoCall EXCEPT !.fn = "remove"])
  /\ UNCHANGED <<fs, ff, mapvars>> /\ ServerKeeps

SyncCall(c) ==
  /\ Idle(c)
  /\ Send(c, SyncReq, [NoCall EXCEPT !.fn = "sync"])
  /\ UNCHANGED <<fs, ff, mapvars>> /\ ServerKeeps

SimpleNext(c) ==
  /\ pc[c] = "run" /\ k[c].fn \in {"remove", "sync"}
  /\ Return(c)
  /\ UNCHANGED <<fs, ff, mapvars, ops>> /\ ServerKeeps

ExitCall(c) ==
  /\ Idle(c)
  /\ exiting' = exiting \cup {c}
  /\ UNCHANGED <<fs, ff, ipcvars, mapvars, opentab, killed, shaken>>

\* close_all, one descriptor at a time, and then the process ends.
ExitNext(c) ==
  LET open == {fd \in Fd : fds[c][fd] # NoSlot}
      fd   == CHOOSE x \in open : \A y \in open : x =< y
  IN  /\ pc[c] = "idle" /\ c \in exiting
      /\ IF open # {} THEN StartClose(c, fd) /\ UNCHANGED mapvars
                      ELSE Gone(c) /\ UNCHANGED srv
      /\ UNCHANGED <<fs, ff, ops>> /\ ServerKeeps

\* The pages of an open file have PTE_LIBRARY: parent and child share them.
Fork(c, d) ==
  /\ Idle(c) /\ pc[d] = "new"
  /\ pc' = [pc EXCEPT ![d] = "idle"]
  /\ fds' = [fds EXCEPT ![d] = fds[c]]
  /\ pages' = [pages EXCEPT ![d] = pages[c]]
  /\ shaken' = shaken \cup {o \in Slot : \E fd \in Fd : fds[c][fd] = o}
  /\ UNCHANGED <<fs, opentab, ff, srv, req, k, exiting, killed>>

\* The shell's kill ends a process that is RUNNABLE, wherever it is; one that
\* is blocked in ipc_recv it leaves alone.  At most once in a history.
Kill(c) ==
  /\ pc[c] \in {"idle", "send", "sent", "run"} /\ ~ killed
  /\ Gone(c)
  /\ killed' = TRUE
  /\ UNCHANGED <<fs, opentab, ff, srv, exiting, ops, shaken>>

-----------------------------------------------------------------------------
Calls(c) ==
  \/ \E path \in Path, mode \in Mode : OpenCall(c, path, mode)
  \/ \E fd \in Fd : WriteCall(c, fd, BLOCK_SIZE)
  \/ \E fd \in Fd, size \in Size : TruncateCall(c, fd, size)
  \/ \E fd \in Fd : ReadCall(c, fd, BLOCK_SIZE)
  \/ \E fd \in Fd : SeekCall(c, fd)
  \/ \E fd \in Fd : CloseCall(c, fd)
  \/ \E path \in Path, type \in {0, 1} : RemoveCall(c, path, type)
  \/ SyncCall(c)
  \/ ExitCall(c)
  \/ \E d \in Client : Fork(c, d)

\* What a client goes on doing by itself once it is in a call.
Progress(c) ==
  \/ Receive(c) \/ SendFails(c)
  \/ OpenNext(c) \/ TruncateNext(c) \/ CloseNext(c) \/ SimpleNext(c)
  \/ ExitNext(c)

Next ==
  \/ \E c \in Client : Serve(c)
  \/ Reply
  \/ \E c \in Client : Calls(c)
  \/ \E c \in Client : Progress(c)
  \/ \E c \in Client : Kill(c)

Spec == Init /\ [][Next]_vars

\* The server takes the request of one of the clients that are sending.
Accepts ==
  srv.st = "recv" /\ \E c \in Client : pc[c] = "send" /\ pc' = [pc EXCEPT ![c] = "sent"]

\* The scheduler runs every process that can run: the server goes on while it
\* has a request or an answer, and so does a client that is in a call.
\* (Accepts is enabled exactly when Serve is, and only Serve does it.)
FairSpec ==
  /\ Spec
  /\ WF_pc(Accepts)
  /\ WF_vars(Reply)
  /\ \A c \in Client : WF_vars(Progress(c))

-----------------------------------------------------------------------------
(* Properties.                                                             *)

\* The number of the n-th block of the file at p; 0: none.
BlockOf(s, p, n) ==
  LET f == FileAt(s, p)
  IN  IF n < NDIRECT THEN f.direct[n]
        ELSE IF f.indirect = 0 THEN 0 ELSE AsIndex(s.mem[f.indirect])[n]

TypeOK ==
  /\ opentab \in [Slot -> Block \X (0 .. FILE2BLK - 1)]
  /\ srv.st \in {"recv", "reply", "dead"} /\ srv.to \in Client
  /\ pc \in [Client -> {"new", "idle", "send", "sent", "recv", "run", "dead"}]
  /\ fds \in [Client -> [Fd -> Slot \cup {NoSlot}]]
  /\ pages \in [Client -> [Fd -> [0 .. NINDIRECT - 1 -> Block \cup {Private}]]]
  /\ ops \in 0 .. MaxOps /\ shaken \subseteq Slot

\* A slot that a client has open, or that is on its way to one, stays that
\* client's: no other open is given the slot or its Filefd page, although only
\* the number of mappings says that it is in use (open_alloc).
OpenSlotKept ==
  [][\A o \in Slot :
       Holders(o) # {} \/ (srv.st = "reply" /\ srv.page = <<"fd", o>>)
         => opentab'[o] = opentab[o] /\ ff'[o].omode = ff[o].omode]_vars

\* The pages a client has mapped are the file's blocks: when it is between
\* calls, and nobody else opened, removed or inherited the file and no request
\* for it failed, the size it knows is the file's, and each page within that
\* size is the cache page of that block (open, ftruncate, file_write).
MapsItsFile ==
  \A c \in Client, fd \in Fd :
    LET o == fds[c][fd]
        p == opentab[o]
    IN  o # NoSlot /\ pc[c] = "idle" /\ o \notin shaken /\ srv.st # "dead" =>
          /\ ff[o].size = FileAt(fs, p).size
          /\ \A n \in 0 .. NBlocks(ff[o].size) - 1 :
               pages[c][fd][n] = BlockOf(fs, p, n) /\ pages[c][fd][n] # 0

\* The data of a file that is closed is on the disk: when the close of a file
\* that nobody else touched is answered with success, each of its data blocks on
\* the disk is what the client's page holds (file_close of the library, which
\* marks every block dirty, and file_close of the server, which writes them).
\* Its index block, its size and its name are in the cache only.
CloseIsDurable ==
  [][\A c \in Client :
       LET o == fds[c][k[c].fd]
           p == opentab[o]
       IN  /\ pc[c] = "send" /\ pc'[c] = "sent" /\ req[c].t = "close"
           /\ srv'.st = "reply" /\ srv'.r = 0 /\ o \notin shaken
           => \A n \in 0 .. NBlocks(FileAt(fs', p).size) - 1 :
                LET b == BlockOf(fs', p, n)
                IN  /\ b = pages[c][k[c].fd][n]
                    /\ fs'.disk[b] = fs'.mem[b]]_vars

\* The server ends only when a client was killed before it could be answered
\* (the assertion in ipc_send), or in file_truncate, or after it took a reused
\* block for a directory: no order of requests ends it otherwise.
ServerEndsOnlySo ==
  srv.st = "dead" => killed \/ fs.stop \in {"clear", "wild"}

\* Every request that a client hands over is answered, unless the client or
\* the server ends (serve, fsipc).
EveryRequestAnswered ==
  \A c \in Client :
    pc[c] \in {"send", "sent", "recv"} ~> (pc[c] \in {"run", "dead"} \/ srv.st = "dead")

\* A write grows the file or leaves its size: a set_size that file_write asks
\* for never makes the file shorter.
WriteNeverShrinks ==
  [][\A c \in Client :
       /\ pc[c] = "send" /\ pc'[c] = "sent" /\ srv'.st = "reply"
       /\ k[c].fn = "write" /\ k[c].i = -1
       => FileAt(fs', opentab[req[c].id]).size >= FileAt(fs, opentab[req[c].id]).size]_vars

\* Removing a block that a file does not have succeeds silently, so that
\* file_truncate never panics.
ClearNeverFails == fs.stop # "clear"
=============================================================================
