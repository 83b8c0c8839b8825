----------------------------- MODULE BlockStore -----------------------------
(***************************************************************************)
(* What a checker may expect of its I/O channel: an array of blocks that   *)
(* hold what was written last, and a flush after which all of it survives. *)
(* Contents are version numbers: the number of the write, 0 for what the   *)
(* checker found.                                                          *)
(*                                                                         *)
(* A channel that defers its updates (the redo log of rfsck) promises less *)
(* of reads: one may return the block as it was before the run.  Nothing   *)
(* is promised once a system call has failed.                              *)
(***************************************************************************)
EXTENDS Integers

CONSTANT Block

VARIABLES
    clock,      \* number of writes
    store,      \* the blocks
    stable,     \* the blocks as of the last flush
    got,        \* what the current call returned of each block it read
    deferred,   \* the channel defers its updates
    broken      \* nothing is promised

svars == <<clock, store, stable, got, deferred, broken>>

Unread == -1

Init ==
    /\ clock = 0 /\ store = [b \in Block |-> 0] /\ stable = store
    /\ got = [b \in Block |-> Unread]
    /\ deferred \in BOOLEAN /\ broken \in BOOLEAN

Write(S) ==
    /\ clock' = clock + 1
    /\ store' = [b \in Block |-> IF b \in S THEN clock' ELSE store[b]]
    /\ UNCHANGED <<stable, got, deferred, broken>>

Read(S) ==
    /\ \A b \in Block \ S : got'[b] \in {got[b], Unread}
    /\ \A b \in S : got'[b] = store[b] \/ (deferred /\ got'[b] = 0)
    /\ UNCHANGED <<clock, store, stable, deferred, broken>>

Flush ==
    /\ stable' = store /\ \A b \in Block : got'[b] = Unread
    /\ UNCHANGED <<clock, store, deferred, broken>>

Fail == broken' /\ UNCHANGED deferred

Next ==
    \/ Fail
    \/ Flush
    \/ \E S \in SUBSET Block : Write(S) \/ Read(S)

Spec == Init /\ [][Next]_svars
=============================================================================
