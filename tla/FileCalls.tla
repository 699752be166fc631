------------------------------ MODULE FileCalls ------------------------------
(***************************************************************************)
(* The file operations of fs/fs.c under every sequence of calls: the       *)
(* server opens, creates, grows, truncates, flushes and removes files for  *)
(* its clients, keeps pointers to their File structures in opentab, and    *)
(* gives away pages of its cache, which the clients write as they like.    *)
(***************************************************************************)
EXTENDS FsFormat, FiniteSets

CONSTANTS Items,      \* what fsformat puts on the disk
          Path,       \* paths that are opened, created or removed
          Size,       \* sizes that files are given
          Val,        \* what clients write
          MaxCalls    \* bound: calls in a history

VARIABLES fs,      \* the server's state
          held,    \* File structures that opentab points to
          given,   \* blocks whose cache page a client has mapped
          calls,
          target   \* history: the file the last call cuts off, or Null

vars == <<fs, held, given, calls, target>>

Init ==
  /\ fs = fs_init(finish_fs(Image(Items)))
  /\ held = {} /\ given = {} /\ calls = 0 /\ target = Null

\* A call: the server's state becomes t, opentab gets pointers to the files
\* in opened, clients the pages of the blocks in pages, and the file cut is
\* the one that is shortened or removed.  A call that changes nothing is not
\* counted.
Call(t, opened, pages, cut) ==
  /\ ~ Halted(fs) /\ calls < MaxCalls
  /\ fs' = t
  /\ held' = held \cup opened
  /\ given' = given \cup pages
  /\ IF <<fs, held, given>>' = <<fs, held, given>> THEN UNCHANGED <<calls, target>>
       ELSE calls' = calls + 1 /\ target' = cut

\* A call that gives opentab the file it returns, unless it fails.
Opened(x) ==
  Call(x.s, IF x.r = 0 /\ ~ Halted(x.s) THEN {x.file} ELSE {}, {}, Null)

\* The state after Op, through a pointer that may have become stale.
Through(p, Op(_)) == IF Halted(Deref(fs, p)) THEN Deref(fs, p) ELSE Op(fs)

-----------------------------------------------------------------------------
(* Calls of fs/serv.c.                                                     *)

Create(mode, path) == Opened(file_create(fs, mode, path))

Open(path) == Opened(file_open(fs, path))

\* The page of a regular file's block goes to a client.  (Nothing keeps a
\* client from writing the pages of a directory that it has opened; the
\* programs of this system do not.)
GetBlock(p, n) ==
  LET page(g) == IF ~ Halted(Deref(fs, p)) /\ g.r = 0 /\ FileAt(fs, p).type = FTYPE_REG
                   THEN {g.b} ELSE {}
      give(g) == Call(Through(p, LAMBDA s : g.s), {}, page(g), Null)
  IN  give(file_get_block(fs, p, n))

SetSize(p, size) == Call(Through(p, LAMBDA s : file_set_size(s, p, size)), {}, {}, p)

Dirty(p, offset) == Call(Through(p, LAMBDA s : file_dirty(s, p, offset).s), {}, {}, Null)

Close(p) == Call(file_close(fs, p), {}, {}, Null)

RemovePath(path, type) ==
  LET cut(w) == IF w.r = 0 THEN w.file ELSE Null
  IN  Call(file_remove(fs, path, type).s, {}, {}, cut(walk_path(fs, path)))

Sync == Call(fs_sync(fs), {}, {}, Null)

\* A client writes a page it was once given, whatever the block is now.
Store(b, v) == Call([fs EXCEPT !.mem[b] = Data(v)], {}, {}, Null)

Next ==
  \/ \E path \in Path, mode \in {{"CREAT"}, {"MKDIR"}} : Create(mode, path)
  \/ \E path \in Path : Open(path)
  \/ \E p \in held, n \in 0 .. NINDIRECT : GetBlock(p, n)
  \/ \E p \in held, size \in Size : SetSize(p, size)
  \/ \E p \in held, n \in 0 .. NINDIRECT - 1 : Dirty(p, n * BLOCK_SIZE)
  \/ \E p \in held : Close(p)
  \/ \E path \in Path, type \in {0, 1} : RemovePath(path, type)
  \/ Sync
  \/ \E b \in given, v \in Val : Store(b, v)

Spec == Init /\ [][Next]_vars

-----------------------------------------------------------------------------
(* The blocks that the metadata names.                                     *)

\* What is in a block for the server: the cache before the disk.
Content(s, b) == IF block_is_mapped(s, b) THEN s.mem[b] ELSE s.disk[b]

FileRefs(f) ==
  {<<"direct", n, f.direct[n]>> : n \in 0 .. NDIRECT - 1} \cup {<<"indirect", 0, f.indirect>>}

\* Every place in block b that holds a block number, with the number.
RefsIn(s, b) ==
  LET c == Content(s, b)
  IN  CASE c.kind = "super" -> {<<b, 0, r>> : r \in FileRefs(c.root)}
        [] c.kind = "dir"   -> UNION {{<<b, i, r>> : r \in FileRefs(c.ent[i])} :
                                        i \in 0 .. FILE2BLK - 1}
        [] c.kind = "index" -> {<<b, n, <<"index", n, c.ptr[n]>>>> :
                                  n \in 0 .. NINDIRECT - 1}
        [] OTHER            -> {}

Refs(s) == {x \in UNION {RefsIn(s, b) : b \in Block \ {0}} : x[3][3] # 0}

Named(s) == {x[3][3] : x \in Refs(s)}

\* The files that can be reached from the root, up to a depth of three.
Entries(s, p) ==
  LET f    == FileAt(s, p)
      Blks == {f.direct[n] : n \in {m \in 0 .. NDIRECT - 1 :
                                      m < f.size \div BLOCK_SIZE}} \ {0}
  IN  IF f.type # FTYPE_DIR THEN {}
        ELSE {<<b, i>> : b \in {x \in Blks : block_is_mapped(s, x) /\ IsFiles(s.mem[x])},
                         i \in 0 .. FILE2BLK - 1}

Below(s, p) ==
  LET Kids(P) == {q \in UNION {Entries(s, x) : x \in P} : FileAt(s, q).name # NoName}
      k1 == Kids({p})
      k2 == Kids(k1)
  IN  k1 \cup k2 \cup Kids(k2)

-----------------------------------------------------------------------------
(* Properties.                                                             *)

\* A block belongs to one file: no two block pointers, direct, indirect or in
\* an index block, of files that exist, that were removed with their
\* directory or that a client still has open, name the same block
\* (alloc_block, file_truncate).
OwnedOnce ==
  ~ Halted(fs) => \A x, y \in Refs(fs) : x[3][3] = y[3][3] => x = y

\* A block that a pointer names is used, in the bitmap in memory and in the
\* one on the disk: whenever the machine stops, the next server does not give
\* away a block that a file of this one had (alloc_block_num writes the bitmap
\* before the block has an owner; free_block does not write it).
\* Nor does this server ever fail its own checks that it reads no free block
\* and none beyond the disk, and writes none that is not cached (read_block,
\* write_block).
NamedIsUsed ==
  /\ ~ Halted(fs) => /\ Named(fs) \cap (fs.free \cup fs.dfree) = {}
                     /\ Named(fs) \subseteq 3 .. NBLOCK - 1
  /\ fs.stop \notin {"free", "nonexistent", "unmapped"}

\* A call of the server keeps the files it is not about: whatever is created,
\* grown, cut off or removed, every other file below the root that is not
\* inside the one cut off stays reachable under its name, with its type, its
\* size or more, and the blocks it had (file_remove, file_truncate,
\* dir_alloc_file).
OthersKept ==
  [][~ Halted(fs') /\ ~ (\E b \in given, v \in Val : Store(b, v)) =>
       \A p \in Below(fs, Root) \ ({target'} \cup Below(fs, target')) :
         LET f == FileAt(fs, p)
             g == FileAt(fs', p)
         IN  target' = Root \/
             /\ p \in Below(fs', Root)
             /\ g.name = f.name /\ g.type = f.type /\ g.size >= f.size
             /\ f.indirect # 0 => g.indirect = f.indirect
             /\ \A n \in 0 .. NDIRECT - 1 :
                  f.direct[n] # 0 => g.direct[n] = f.direct[n]]_vars
=============================================================================
