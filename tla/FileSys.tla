------------------------------- MODULE FileSys -------------------------------
(***************************************************************************)
(* Files and directories on the cached blocks (the second half of          *)
(* fs/fs.c).  A struct File is named by where it is, <<block, index>>, as  *)
(* the server's pointers are addresses in the block cache.  An operator    *)
(* returns the new state, the code's result r, and what its out parameters *)
(* get; a call that panics returns -E_PANIC.                               *)
(***************************************************************************)
EXTENDS BlockCache, Sequences, SequencesExt

CONSTANT LongName     \* the names of MAXNAMELEN bytes or more

ASSUME LongNameAssumption == LongName \subseteq Name

\* for (i = lo; i < hi; i++)
Steps(lo, hi) == [i \in 1 .. (IF hi > lo THEN hi - lo ELSE 0) |-> lo + i - 1]

\* Blocks that size units of data take (ROUND(size, BLOCK_SIZE) / BLOCK_SIZE).
NBlocks(size) == (size + BLOCK_SIZE - 1) \div BLOCK_SIZE

-----------------------------------------------------------------------------
(* Pointers to File structures.                                            *)

FileAt(s, p) == IF p = Root THEN s.mem[1].root ELSE AsFiles(s.mem[p[1]])[p[2]]

PutFile(s, p, f) ==
  IF p = Root THEN [s EXCEPT !.mem[1] = Super(f)]
    ELSE [s EXCEPT !.mem[p[1]] = Files([AsFiles(@) EXCEPT ![p[2]] = f])]

\* Following a pointer into a block that no longer holds File structures.
Deref(s, p) ==
  IF p = Root \/ IsFiles(s.mem[p[1]]) THEN s ELSE Halt(s, "wild")

\* A slot for a block number: in f_direct of the file at p, or in a block.
SlotValue(s, slot) ==
  IF slot.ind = 0 THEN FileAt(s, slot.p).direct[slot.n]
    ELSE AsIndex(s.mem[slot.ind])[slot.n]

SetSlot(s, slot, b) ==
  IF slot.ind = 0
    THEN PutFile(s, slot.p, [FileAt(s, slot.p) EXCEPT !.direct[slot.n] = b])
    ELSE [s EXCEPT !.mem[slot.ind] = Index([AsIndex(@) EXCEPT ![slot.n] = b])]

-----------------------------------------------------------------------------
(* The blocks of a file.                                                   *)

\* The file's index block, which is made if there is none and alloc says so.
IndexBlock(s, p, alloc) ==
  LET f == FileAt(s, p)
  IN  CASE f.indirect # 0            -> [s |-> s, r |-> f.indirect]
        [] f.indirect = 0 /\ ~ alloc -> [s |-> s, r |-> -E_NOT_FOUND]
        [] f.indirect = 0 /\ alloc   ->
             Try(alloc_block(s), LAMBDA a :
               [a EXCEPT !.s = PutFile(a.s, p, [f EXCEPT !.indirect = a.r])])

\* The slot of the n-th block.
file_block_walk(s, p, n, alloc) ==
  LET Found(t, ind) == [s |-> t, r |-> 0, slot |-> [p |-> p, ind |-> ind, n |-> n]]
  IN  CASE n < NDIRECT    -> Found(s, 0)
        [] n >= NINDIRECT -> [s |-> s, r |-> -E_INVAL]
        [] n >= NDIRECT /\ n < NINDIRECT ->
             Try(IndexBlock(s, p, alloc), LAMBDA a :
               Try(read_block(a.s, a.r), LAMBDA rd :
                 IF IsIndex(rd.s.mem[a.r]) THEN Found(rd.s, a.r)
                                           ELSE Panic(rd.s, "wild")))

\* The number of the n-th block; alloc: give the file one if it has none.
file_map_block(s, p, n, alloc) ==
  Try(file_block_walk(s, p, n, alloc), LAMBDA w :
    LET b == SlotValue(w.s, w.slot)
    IN  CASE b # 0            -> [s |-> w.s, r |-> 0, b |-> b]
          [] b = 0 /\ ~ alloc -> [s |-> w.s, r |-> -E_NOT_FOUND]
          [] b = 0 /\ alloc   ->
               Try(alloc_block(w.s), LAMBDA a :
                 [s |-> SetSlot(a.s, w.slot, a.r), r |-> 0, b |-> a.r]))

\* Mutant of file_clear_block: *ptr is not reset.
ClearKeepsPtr(s, p, n) ==
  Try(file_block_walk(s, p, n, FALSE), LAMBDA w :
    [s |-> free_block(w.s, SlotValue(w.s, w.slot)), r |-> 0])

\* The block, if there is one, is freed and its slot cleared.  A file without
\* an index block is an error, unlike a slot that is already clear.
file_clear_block(s, p, n) ==
  Try(file_block_walk(s, p, n, FALSE), LAMBDA w :
    LET b == SlotValue(w.s, w.slot)
    IN  [s |-> IF b = 0 THEN w.s ELSE SetSlot(free_block(w.s, b), w.slot, 0), r |-> 0])

file_get_block(s, p, n) ==
  Try(file_map_block(s, p, n, TRUE), LAMBDA m :
    Try(read_block(m.s, m.b), LAMBDA rd : [s |-> rd.s, r |-> 0, b |-> m.b]))

file_dirty(s, p, offset) ==
  Try(file_map_block(s, p, offset \div BLOCK_SIZE, FALSE),
      LAMBDA m : dirty_block(m.s, m.b))

-----------------------------------------------------------------------------
(* Directories.                                                            *)

\* A block of a directory; its bytes are taken for File structures.
DirBlock(s, p, i) ==
  Try(file_get_block(s, p, i), LAMBDA g :
    IF IsFiles(g.s.mem[g.b]) THEN g ELSE Panic(g.s, "wild"))

\* The first structure of a block that satisfies P, or -1.
FirstEntry(s, b, P(_)) ==
  LET hit == {i \in 0 .. FILE2BLK - 1 : P(AsFiles(s.mem[b])[i])}
  IN  IF hit = {} THEN -1 ELSE CHOOSE i \in hit : \A j \in hit : i =< j

\* The first structure satisfying P in the directory's blocks: done is TRUE
\* when there is one, and r is 0, or when a block gives an error.
ScanDir(s, p, P(_)) ==
  LET look(acc, g) ==
        LET k == FirstEntry(g.s, g.b, P)
        IN  CASE g.r < 0 -> [acc EXCEPT !.s = g.s, !.r = g.r, !.done = TRUE]
              [] g.r = 0 /\ k < 0  -> [acc EXCEPT !.s = g.s]
              [] g.r = 0 /\ k >= 0 -> [s |-> g.s, r |-> 0, file |-> <<g.b, k>>,
                                       done |-> TRUE]
      step(acc, i) == IF acc.done THEN acc ELSE look(acc, DirBlock(acc.s, p, i))
  IN  FoldLeft(step, [s |-> s, r |-> -E_NOT_FOUND, file |-> Null, done |-> FALSE],
               Steps(0, FileAt(s, p).size \div BLOCK_SIZE))

\* Finds a name and tells the file which directory it is in.
dir_lookup(s, p, name) ==
  Try(ScanDir(s, p, LAMBDA f : f.name = name), LAMBDA d :
    [d EXCEPT !.s = PutFile(d.s, d.file, [FileAt(d.s, d.file) EXCEPT !.dir = p])])

\* One more block for a directory: the size grows before there is a block, and
\* the new block may hold anything.
GrowDir(s, p) ==
  LET f == FileAt(s, p)
  IN  Try(DirBlock(PutFile(s, p, [f EXCEPT !.size = @ + BLOCK_SIZE]), p,
                   f.size \div BLOCK_SIZE),
          LAMBDA g : [s |-> g.s, r |-> 0, file |-> <<g.b, 0>>])

\* Mutant of dir_alloc_file: any structure will do.
AllocAnyEntry(s, p) ==
  LET found(d) == IF d.done THEN d ELSE GrowDir(d.s, p)
  IN  found(ScanDir(s, p, LAMBDA f : TRUE))

\* An unused structure, or the first one of a new block.
dir_alloc_file(s, p) ==
  LET found(d) == IF d.done THEN d ELSE GrowDir(d.s, p)
  IN  found(ScanDir(s, p, LAMBDA f : f.name = NoName))

-----------------------------------------------------------------------------
(* Paths.  A path is the sequence of its elements.                         *)

\* dir is Null unless the directory the last element belongs in was found.
walk_path(s, path) ==
  LET enter(acc, i, d) ==
        [s |-> d.s, r |-> d.r, file |-> d.file,
         dir |-> IF d.r = 0 \/ (d.r = -E_NOT_FOUND /\ i = Len(path))
                   THEN acc.file ELSE Null]
      fail(acc, r) == [acc EXCEPT !.r = r, !.dir = Null, !.file = Null]
      step(acc, i) ==
        CASE acc.r < 0                         -> acc
          [] acc.r = 0 /\ path[i] \in LongName -> fail(acc, -E_BAD_PATH)
          [] acc.r = 0 /\ path[i] \notin LongName ->
               IF FileAt(acc.s, acc.file).type # FTYPE_DIR
                 THEN fail(acc, -E_NOT_FOUND)
                 ELSE enter(acc, i, dir_lookup(acc.s, acc.file, path[i]))
  IN  FoldLeft(step, [s |-> s, r |-> 0, dir |-> Null, file |-> Root],
               Steps(1, Len(path) + 1))

file_open(s, path) == walk_path(s, path)

\* Only the type and the name are set.  When the directory has no room the
\* result is still that of the walk, -E_NOT_FOUND.
file_create(s, mode, path) ==
  LET made(w, d) ==
        IF d.r < 0 THEN [s |-> d.s, r |-> w.r, file |-> Null]
          ELSE [s |-> PutFile(d.s, d.file, [FileAt(d.s, d.file) EXCEPT
                        !.type = IF mode = {"MKDIR"} THEN FTYPE_DIR ELSE FTYPE_REG,
                        !.name = path[Len(path)]]),
                r |-> 0, file |-> d.file]
      at(w) ==
        CASE w.r = 0 -> [s |-> w.s, r |-> -E_FILE_EXISTS, file |-> Null]
          [] w.r # 0 /\ (w.r # -E_NOT_FOUND \/ w.dir = Null) ->
               [s |-> w.s, r |-> w.r, file |-> Null]
          [] w.r = -E_NOT_FOUND /\ w.dir # Null -> made(w, dir_alloc_file(w.s, w.dir))
  IN  at(walk_path(s, path))

-----------------------------------------------------------------------------
(* Sizes, flushing and removal.                                            *)

file_flush(s, p) ==
  LET write(m) ==
        IF m.r = 0 /\ block_is_dirty(m.s, m.b) THEN write_block(m.s, m.b) ELSE m.s
      flush(t) ==
        IF Halted(t) THEN t
          ELSE FoldLeft(LAMBDA u, n : write(file_map_block(u, p, n, FALSE)), t,
                        Steps(0, NBlocks(FileAt(t, p).size)))
  IN  flush(Deref(s, p))

\* if (f->f_dir) file_flush(f->f_dir)
FlushDir(s, p) ==
  IF Halted(s) \/ FileAt(s, p).dir = Null THEN s ELSE file_flush(s, FileAt(s, p).dir)

\* A block that cannot be cleared is a panic.
file_truncate(s, p, newsize) ==
  LET new      == NBlocks(newsize)
      check(c) == IF c.r < 0 THEN Halt(c.s, "clear") ELSE c.s
      step(t, n) == IF Halted(t) THEN t ELSE check(file_clear_block(t, p, n))
      cut(t, f) ==
        PutFile(IF new =< NDIRECT THEN free_block(t, f.indirect) ELSE t, p,
                [f EXCEPT !.size = newsize, !.indirect = IF new =< NDIRECT THEN 0 ELSE @])
      finish(t) == IF Halted(t) THEN t ELSE cut(t, FileAt(t, p))
  IN  finish(FoldLeft(step, s, Steps(new, NBlocks(FileAt(s, p).size))))

\* Mutant of file_set_size: only a shorter file gets its new size.
SetSizeDown(s, p, newsize) ==
  FlushDir(IF FileAt(s, p).size > newsize THEN file_truncate(s, p, newsize) ELSE s, p)

\* The directory is flushed, not the file.
file_set_size(s, p, newsize) ==
  LET resize(t) ==
        IF Halted(t) THEN t
          ELSE FlushDir(PutFile(t, p, [FileAt(t, p) EXCEPT !.size = newsize]), p)
  IN  resize(IF FileAt(s, p).size > newsize THEN file_truncate(s, p, newsize) ELSE s)

file_close(s, p) == FlushDir(file_flush(s, p), p)

\* type: whether a directory may be removed.  The files in it keep their
\* blocks.
file_remove(s, path, type) ==
  LET unname(t, p) == PutFile(t, p, [FileAt(t, p) EXCEPT !.name = NoName])
      drop(t, p) ==
        IF Halted(t) THEN [s |-> t, r |-> -E_PANIC]
          ELSE [s |-> FlushDir(file_flush(unname(t, p), p), p), r |-> 0]
  IN  Try(walk_path(s, path), LAMBDA w :
        IF FileAt(w.s, w.file).type = FTYPE_DIR /\ type = 0
          THEN [s |-> w.s, r |-> -E_IS_DIR]
          ELSE drop(file_truncate(w.s, w.file, 0), w.file))

\* Writes the blocks marked dirty, whether in use or not.
fs_sync(s) ==
  [s EXCEPT !.disk = [b \in Block |-> IF block_is_dirty(s, b) THEN s.mem[b] ELSE @[b]]]
=============================================================================
