----------------------------- MODULE MCXfsCache -----------------------------
(* XfsCache for TLC: two threads and two keys on one hash chain. *)
EXTENDS XfsCache

CONSTANTS t1, t2, k1, k2

OneChain(k) == 0
=============================================================================
