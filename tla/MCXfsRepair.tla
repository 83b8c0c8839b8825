---------------------------- MODULE MCXfsRepair ----------------------------
(***************************************************************************)
(* Instances of XfsRepair for TLC.                                         *)
(***************************************************************************)
EXTENDS XfsRepair

\* a payload cell that is taken for a key block reads as one without tags
NoAlias == NoTags

\* a block holds a set of updates
Blocks == SUBSET (1..MaxUpdates)
AnyBlock(n) == {<<b>> : b \in Blocks}

\* bound: one failing call, kill, power loss or garbage retval; after a power
\* loss the next process recovers the log and goes no further
Troubles == faults + kills + losses + (IF early THEN 1 ELSE 0)
OneTrouble == Troubles <= 1 /\ (losses > 0 => runs = 1 \/ st \in {"open", "phase1"})

\* what the kernel writes back matters only if a power loss may still come,
\* and that comes in the first process
WriteBackMatters == WriteBack /\ UNCHANGED driver => Troubles = 0 /\ runs = 1
=============================================================================
