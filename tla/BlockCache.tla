----------------------------- MODULE BlockCache ------------------------------
(***************************************************************************)
(* The block layer of the file system server: the IDE disk, the cache of   *)
(* its blocks in the server's address space, the bitmap of free blocks     *)
(* (fs/ide.c and the first half of fs/fs.c).                               *)
(*                                                                         *)
(* Every operation is an operator on the server's state, a record s:       *)
(*   disk, dfree  the blocks on the disk; the set of blocks whose bit is   *)
(*                set in the bitmap block of the disk                      *)
(*   mem, free    the cached blocks (Unmapped: no cache page) and the      *)
(*                bitmap in memory                                         *)
(*   dirty        the blocks whose cache page has PTE_DIRTY                *)
(*   stop         "no", or why the server does not go on: it panicked      *)
(*                ("nonexistent", "free", "unmapped", "clear"), or it took *)
(*                bytes of another kind for a directory or an index block  *)
(*                ("wild"), after which anything may happen                *)
(*                                                                         *)
(* A block is not its bytes but what they mean: a zeroed page, a client's  *)
(* data, the File structures of a directory, the pointers of an index      *)
(* block, the super block.  There is memory for every cache page: the disk *)
(* has 4 MB and the machine 64.                                            *)
(***************************************************************************)
EXTENDS Integers

CONSTANTS NBLOCK,      \* blocks of the disk; 0 boot, 1 super, 2 bitmap
          NDIRECT,     \* block pointers in a struct File
          NINDIRECT,   \* blocks of the largest file
          FILE2BLK,    \* File structures in a block
          BLOCK_SIZE,  \* units of data in a block
          Name         \* path elements, strings

ASSUME GeometryAssumption ==
  /\ NBLOCK \in Nat /\ NBLOCK > 3
  /\ NDIRECT \in Nat \ {0} /\ NINDIRECT \in Nat /\ NINDIRECT >= NDIRECT
  /\ FILE2BLK \in Nat \ {0}
  /\ BLOCK_SIZE \in Nat \ {0}
  /\ Name \cap {"", "/"} = {}

E_INVAL       == 3
E_NO_DISK     == 8
E_MAX_OPEN    == 9
E_NOT_FOUND   == 10
E_BAD_PATH    == 11
E_FILE_EXISTS == 12
E_IS_DIR      == 14
E_PANIC       == 99      \* not a code of the program: the call did not return

FTYPE_REG == 0
FTYPE_DIR == 1

Block == 0 .. NBLOCK - 1

NoName == ""           \* the f_name of an unused File

-----------------------------------------------------------------------------
(* What a block can hold.  A struct File is at <<block, index>>; the root  *)
(* directory's is in the super block.                                      *)

Root == <<1, 0>>
Null == <<0, 0>>

EmptyFile ==
  [name |-> NoName, size |-> 0, type |-> FTYPE_REG,
   direct |-> [n \in 0 .. NDIRECT - 1 |-> 0], indirect |-> 0, dir |-> Null]

Unmapped   == [kind |-> "unmapped"]
Zero       == [kind |-> "zero"]
Data(v)    == [kind |-> "data", v |-> v]
Files(ent) == [kind |-> "dir", ent |-> ent]
Index(ptr) == [kind |-> "index", ptr |-> ptr]
Super(f)   == [kind |-> "super", root |-> f]

NoFiles == [i \in 0 .. FILE2BLK - 1 |-> EmptyFile]
NoPtrs  == [n \in 0 .. NINDIRECT - 1 |-> 0]

\* The bytes of a block taken for File structures, and for block pointers.
AsFiles(c) == IF c.kind = "dir" THEN c.ent ELSE NoFiles
AsIndex(c) == IF c.kind = "index" THEN c.ptr ELSE NoPtrs

\* Only zeros and the right kind of block mean what is read into them.
IsFiles(c) == c.kind \in {"zero", "dir"}
IsIndex(c) == c.kind \in {"zero", "index"}

Halted(s)    == s.stop # "no"
Halt(s, why) == IF Halted(s) THEN s ELSE [s EXCEPT !.stop = why]

\* A call gives its state and its result.  An error, or a panic, is returned
\* at once; otherwise Then goes on.
Panic(s, why)  == [s |-> Halt(s, why), r |-> -E_PANIC]
Try(x, Then(_)) == IF x.r < 0 THEN x ELSE Then(x)

-----------------------------------------------------------------------------
(* The disk and the cache.                                                 *)

\* ide_read and ide_write move the sectors of one block.
ide_read(s, b)  == [s EXCEPT !.mem[b] = s.disk[b]]
ide_write(s, b) == [s EXCEPT !.disk[b] = s.mem[b]]

block_is_mapped(s, b) == s.mem[b] # Unmapped
block_is_dirty(s, b)  == block_is_mapped(s, b) /\ b \in s.dirty

\* Marks the page, with PTE_DIRTY, of a block that is in the cache.
dirty_block(s, b) ==
  IF ~ block_is_mapped(s, b)
    THEN [s |-> s, r |-> -E_NOT_FOUND]
    ELSE [s |-> [s EXCEPT !.dirty = @ \cup {b}], r |-> 0]

\* The dirty bit stays set: a block once dirty is written by every flush.
write_block(s, b) ==
  IF ~ block_is_mapped(s, b) THEN Halt(s, "unmapped") ELSE ide_write(s, b)

block_is_free(s, b) == b < NBLOCK /\ b \in s.free

\* A block of a file comes into the cache when it is first used.
read_block(s, b) ==
  CASE b >= NBLOCK         -> Panic(s, "nonexistent")
    [] block_is_free(s, b) -> Panic(s, "free")
    [] OTHER -> [s |-> IF block_is_mapped(s, b) THEN s ELSE ide_read(s, b), r |-> 0]

\* The cache page of a block is cleared only when it is new.
map_block(s, b) ==
  IF block_is_mapped(s, b) THEN s ELSE [s EXCEPT !.mem[b] = Zero]

free_block(s, b) ==
  IF b = 0 \/ b >= NBLOCK THEN s ELSE [s EXCEPT !.free = @ \cup {b}]

\* Mutant of alloc_block_num: the bitmap block is not written.
AllocUnwritten(s) ==
  LET cand == {b \in 3 .. NBLOCK - 1 : b \in s.free}
      b    == CHOOSE x \in cand : \A y \in cand : x =< y
  IN  IF cand = {} THEN [s |-> s, r |-> -E_NO_DISK]
        ELSE [s |-> [s EXCEPT !.free = @ \ {b}], r |-> b]

\* The lowest free block; the bitmap block goes to the disk at once.
alloc_block_num(s) ==
  LET cand == {b \in 3 .. NBLOCK - 1 : b \in s.free}
      b    == CHOOSE x \in cand : \A y \in cand : x =< y
  IN  IF cand = {}
        THEN [s |-> s, r |-> -E_NO_DISK]
        ELSE [s |-> [s EXCEPT !.free = @ \ {b}, !.dfree = s.free \ {b}], r |-> b]

alloc_block(s) ==
  Try(alloc_block_num(s), LAMBDA a : [a EXCEPT !.s = map_block(a.s, a.r)])

-----------------------------------------------------------------------------
(* Starting the server on a disk.                                          *)

\* The state before any block is in the cache.
Loaded(disk, dfree) ==
  [disk |-> disk, dfree |-> dfree, mem |-> [b \in Block |-> Unmapped],
   free |-> {}, dirty |-> {}, stop |-> "no"]

read_super(s) == read_block(s, 1).s

\* The super block is overwritten, read back and restored; what is left is
\* its copy in the cache page of block 0.
check_write_block(s) ==
  LET s0      == read_block(s, 0).s
      smashed == write_block([s0 EXCEPT !.mem[0] = s0.mem[1],
                                        !.mem[1] = Zero], 1)
      again   == ide_read([smashed EXCEPT !.mem[1] = Unmapped], 1)
  IN  write_block([again EXCEPT !.mem[1] = again.mem[0]], 1)

\* The bitmap itself is the field free; its block is in the cache.
read_bitmap(s) ==
  [read_block(s, 2).s EXCEPT !.free = s.dfree,
                             !.stop = IF {0, 1, 2} \cap s.dfree # {} THEN "free"
                                                                   ELSE "no"]

fs_init(s) == read_bitmap(check_write_block(read_super(s)))
=============================================================================
