------------------------------ MODULE FsFormat -------------------------------
(***************************************************************************)
(* The disk image that tools/fsformat.c makes: the state every history of  *)
(* the file server starts from.  Its state is a record: the blocks, the    *)
(* next unused one, and the root directory's structure, which goes to      *)
(* block 1 at the end.                                                     *)
(*                                                                         *)
(* What is put on the disk is a sequence of items, directories before what *)
(* they hold, as write_directory visits them:                              *)
(*   [path |-> a sequence of names, type |-> FTYPE_REG or FTYPE_DIR,       *)
(*    data |-> the values of the file's blocks]                            *)
(* with whole blocks of data.  The image has room for them: fsformat does  *)
(* not check.                                                              *)
(***************************************************************************)
EXTENDS FileSys

\* Block 0 boot, 1 super, 2 bitmap; the root directory is empty.
init_disk ==
  [disk |-> [b \in Block |-> Zero], nextbno |-> 3,
   root |-> [EmptyFile EXCEPT !.name = "/", !.type = FTYPE_DIR]]

FileOn(d, p) == IF p = Root THEN d.root ELSE AsFiles(d.disk[p[1]])[p[2]]

PutOn(d, p, f) ==
  IF p = Root THEN [d EXCEPT !.root = f]
    ELSE [d EXCEPT !.disk[p[1]] = Files([AsFiles(@) EXCEPT ![p[2]] = f])]

next_block(d) == [d EXCEPT !.nextbno = @ + 1]

\* The index block, when it is needed, comes after the block it points to.
save_block_link(d, p, nblk, bno) ==
  LET f   == FileOn(d, p)
      ind == IF f.indirect = 0 THEN d.nextbno ELSE f.indirect
      d1  == IF f.indirect = 0
               THEN PutOn(next_block(d), p, [f EXCEPT !.indirect = ind]) ELSE d
  IN  IF nblk < NDIRECT THEN PutOn(d, p, [f EXCEPT !.direct[nblk] = bno])
        ELSE [d1 EXCEPT !.disk[ind] = Index([AsIndex(@) EXCEPT ![nblk] = bno])]

\* One more block of File structures for a directory.
make_link_block(d, p, nblk) ==
  LET d1 == save_block_link(next_block(d), p, nblk, d.nextbno)
  IN  PutOn(d1, p, [FileOn(d1, p) EXCEPT !.size = @ + BLOCK_SIZE])

\* The first unused structure of the directory's blocks, or of a new one.
create_file(d, p) ==
  LET dirf == FileOn(d, p)
      nblk == dirf.size \div BLOCK_SIZE
      Bno(i) == IF i < NDIRECT THEN dirf.direct[i] ELSE AsIndex(d.disk[dirf.indirect])[i]
      unused == {x \in (0 .. nblk - 1) \X (0 .. FILE2BLK - 1) :
                   AsFiles(d.disk[Bno(x[1])])[x[2]].name = NoName}
      u == CHOOSE x \in unused : \A y \in unused :
             x[1] < y[1] \/ (x[1] = y[1] /\ x[2] =< y[2])
  IN  IF unused # {} THEN [d |-> d, file |-> <<Bno(u[1]), u[2]>>]
        ELSE [d |-> make_link_block(d, p, nblk), file |-> <<d.nextbno, 0>>]

write_file(d, p, name, data) ==
  LET c  == create_file(d, p)
      d1 == PutOn(c.d, c.file, [FileOn(c.d, c.file) EXCEPT
                                  !.name = name, !.type = FTYPE_REG,
                                  !.size = Len(data) * BLOCK_SIZE])
      step(e, i) == save_block_link(
                      next_block([e EXCEPT !.disk[e.nextbno] = Data(data[i])]),
                      c.file, i - 1, e.nextbno)
  IN  [d |-> FoldLeft(step, d1, Steps(1, Len(data) + 1)), file |-> c.file]

\* The structure of the directory; what is in it follows as items.
write_directory(d, p, name) ==
  LET c == create_file(d, p)
  IN  [d |-> PutOn(c.d, c.file, [FileOn(c.d, c.file) EXCEPT
                                   !.name = name, !.type = FTYPE_DIR]),
       file |-> c.file]

\* The whole image; at remembers where each directory is.
Image(items) ==
  LET step(acc, it) ==
        LET p    == acc.at[Front(it.path)]
            name == Last(it.path)
            w    == IF it.type = FTYPE_DIR THEN write_directory(acc.d, p, name)
                                           ELSE write_file(acc.d, p, name, it.data)
        IN  [d |-> w.d, at |-> [x \in DOMAIN acc.at \cup {it.path} |->
                                  IF x = it.path THEN w.file ELSE acc.at[x]]]
  IN  FoldLeft(step, [d |-> init_disk, at |-> [x \in {<<>>} |-> Root]], items).d

\* The bits of the used blocks are cleared; the others were set at first.
flush_bitmap(d) == {b \in Block : b >= d.nextbno}

finish_fs(d) == Loaded([d.disk EXCEPT ![1] = Super(d.root)], flush_bitmap(d))
=============================================================================
