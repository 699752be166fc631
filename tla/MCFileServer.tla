---------------------------- MODULE MCFileServer -----------------------------
(***************************************************************************)
(* FileServer for TLC: two clients that both run at first, or one that may *)
(* fork the other, and four library calls between them.                    *)
(*                                                                         *)
(* A disk of seven blocks, one direct pointer and files of two blocks: a   *)
(* file of two blocks needs an index block.  The image holds one file of   *)
(* one block and leaves two blocks: enough to grow this one, not enough to *)
(* create "b" and give it two.  Two slots in opentab, one descriptor per   *)
(* client.                                                                 *)
(***************************************************************************)
EXTENDS FileServer

MCItems == <<[path |-> <<"a">>, type |-> FTYPE_REG, data |-> <<"v">>]>>
MCBegins == {{"c1"}, {"c1", "c2"}}
MCPath  == {<<"a">>, <<"b">>}
MCMode  == {{"RDWR", "CREAT"}, {"RDWR", "TRUNC"}}
=============================================================================
