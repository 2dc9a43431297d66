----------------------------- MODULE LedgerSpec -----------------------------
(***************************************************************************)
(* What a node's ledger promises, whatever its pool did on the way: it     *)
(* grows by one sequencer at a time, each one height above the last, and a *)
(* sequencer brings in exactly its ancestors.  Two nodes that confirm the  *)
(* same sequencers therefore hold the same ledger.                         *)
(***************************************************************************)
EXTENDS Txi

VARIABLES confirmed, head

Init ==
    /\ confirmed = {Genesis}
    /\ head = Genesis

Confirm(s) ==
    /\ s \notin confirmed
    /\ tx[s].height = tx[head].height + 1
    /\ head' = s
    /\ confirmed' = confirmed \cup Ancestors(s) \cup {s}

Next == \E s \in Sequencers : Confirm(s)

Spec == Init /\ [][Next]_<<confirmed, head>>
=============================================================================
