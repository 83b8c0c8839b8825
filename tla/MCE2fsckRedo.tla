---------------------------- MODULE MCE2fsckRedo ----------------------------
(***************************************************************************)
(* Instances of E2fsckRedo for TLC.                                        *)
(***************************************************************************)
EXTENDS E2fsckRedo, MCRedoLog

\* bound: two repairs in one log
FewRepairs == Len(SelectSeq(hist, LAMBDA c : c.op = "W")) <= 2

\* only the first process repairs, the later ones recover its log
FirstRepairs == FewRepairs /\ (runs > 1 => hist # <<>>)
=============================================================================
