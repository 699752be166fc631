----------------------------- MODULE MCFileCalls -----------------------------
(***************************************************************************)
(* FileCalls for TLC: six calls on a disk of nine blocks whose image holds *)
(* a file of two blocks (data, index block and data) and an empty          *)
(* directory; two blocks are left, so that the disk fills up.              *)
(* A block has room for two File structures, so that directories grow; a   *)
(* size may be part of a block (1 of 2), and 4 is beyond the direct        *)
(* pointer.  "l" is a name that is too long.                               *)
(***************************************************************************)
EXTENDS FileCalls

MCItems == <<[path |-> <<"a">>, type |-> FTYPE_REG, data |-> <<"v", "v">>],
             [path |-> <<"d">>, type |-> FTYPE_DIR, data |-> <<>>]>>

MCPath == {<<>>, <<"a">>, <<"d">>, <<"d", "a">>, <<"l">>}
=============================================================================
