----------------------------- MODULE MCRedoLog -----------------------------
(***************************************************************************)
(* Instances of RedoLog for TLC.                                           *)
(***************************************************************************)
EXTENDS RedoLog

\* a payload cell that is taken for a key block reads as one without tags
NoAlias == NoTags

\* Every cell of every record has a payload of its own: the code never looks
\* at payloads, and a cell copied from the wrong place shows.
OwnPayload(n) == {[k \in 1..s |-> n * MaxSize + k] : s \in 1..MaxSize}
Payloads == 1..(MaxTags * MaxSize)

\* for the runs about clients that bracket their updates as documented
Bracketed == WellBracketed(hist) /\ ~early

\* only the first process writes a log, the later ones recover it
OneLog == Bracketed /\ (runs > 1 => hist # <<>>)

\* clients that misuse the library are tried on short logs without crashes
OneLogOrMisuse ==
    /\ runs > 1 => hist # <<>>
    /\ Bracketed \/ (Len(hist) <= 2 /\ kills = 0 /\ losses = 0)
=============================================================================
