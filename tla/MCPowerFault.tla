---------------------------- MODULE MCPowerFault ----------------------------
(* PowerFault with three kinds of write on a disk of three cells: one longer  *)
(* than the block size, one inside it, one of exactly a block.                *)
EXTENDS PowerFault

CONSTANTS w1, w2

MCWorkers == {w1, w2}
MCRequests == {[off |-> 0, len |-> 3], [off |-> 1, len |-> 1], [off |-> 1, len |-> 2]}
=============================================================================
