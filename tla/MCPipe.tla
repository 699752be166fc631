-------------------------------- MODULE MCPipe -------------------------------
(***************************************************************************)
(* Pipe for TLC.                                                           *)
(*                                                                         *)
(* The safety properties are checked with three processes, so that one is  *)
(* forked or spawned by a second one while a third uses the end they       *)
(* share, as in  a | b & c ; up to four descriptors, as many as two        *)
(* readers, a writer and a dup need; a ring of one byte and two bytes to   *)
(* send, so that the writer finds it full, waits and goes round it.  There *)
(* are more values of a position than bytes to send: the full test is done *)
(* modulo a word while the positions never wrap, as in any pipe that       *)
(* carries less than 2^32 bytes.  The liveness properties are checked with *)
(* two processes and reads and writes of up to two bytes.                  *)
(***************************************************************************)
EXTENDS Pipe, TLC

\* The processes other than the first are alike.
Alike == Permutations(Proc \ {Creator})
=============================================================================
