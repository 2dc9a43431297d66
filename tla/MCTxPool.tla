------------------------------ MODULE MCTxPool ------------------------------
(***************************************************************************)
(* Small transaction universes for TxPool.  Alice (A) and Bob (B) trade,   *)
(* Paul (P) and Quinn (Q) propose sequencers, "g" is genesis.              *)
(***************************************************************************)
EXTENDS TxPool

Base(type, sender, nonce, parents, weight, hash) ==
    [type |-> type, sender |-> sender, nonce |-> nonce, parents |-> parents,
     weight |-> weight, hash |-> hash, height |-> 0, token |-> 0, value |-> 0,
     to |-> "nobody", reIssuable |-> TRUE, vmOk |-> TRUE]

Pay(sender, nonce, parents, weight, hash, token, value, to) ==
    [Base("Normal", sender, nonce, parents, weight, hash)
        EXCEPT !.token = token, !.value = value, !.to = to]

Action(action, nonce, parents, weight, hash, token) ==
    [Base(action, "A", nonce, parents, weight, hash)
        EXCEPT !.token = token, !.value = 2]

Seqr(sender, nonce, parents, weight, hash, height) ==
    [Base("Sequencer", sender, nonce, parents, weight, hash) EXCEPT !.height = height]

MCGenesis == "g" :> Base("Sequencer", "P", 0, << >>, 0, 0)
MCAccounts == {"A", "B", "P", "Q"}
MCGenesisBalance == [a \in MCAccounts |-> IF a = "A" THEN 3 ELSE 0]

CallerSymmetry == Permutations(Callers)

\* TLC evaluates a definition like ConflictUniverse once, but the body of the
\* definition a cfg gives to a constant each time: hence two definitions.

(* Two payments of Alice with the same nonce, one of Bob's account
   that spends what the first brings it and whose contract ends with an error, a
   campaign, an archive, and sequencers of two proposers that compete for a height
   and confirm different payments; s2b is accepted by the pool and fails to push. *)
ConflictUniverse ==
    MCGenesis @@
    "a1"  :> Pay("A", 1, <<"g">>, 1, 1, 0, 2, "B") @@
    "a1x" :> Pay("A", 1, <<"g">>, 1, 2, 0, 1, "B") @@
    "a2"  :> Pay("A", 2, <<"a1", "g">>, 2, 3, 0, 1, "B") @@
    "b1"  :> [Pay("B", 1, <<"a1">>, 2, 4, 0, 2, "A") EXCEPT !.vmOk = FALSE] @@
    "p1"  :> Base("Campaign", "P", 1, <<"a1">>, 2, 9) @@
    "ar"  :> Base("Archive", "A", 0, <<"a1">>, 2, 5) @@
    "s1"  :> Seqr("P", 1, <<"a1">>, 2, 6, 1) @@
    "s1p" :> Seqr("P", 2, <<"p1">>, 3, 10, 1) @@
    "s1x" :> Seqr("Q", 1, <<"a1x">>, 2, 7, 1) @@
    "s2"  :> Seqr("Q", 1, <<"s1", "a2">>, 3, 8, 2) @@
    "s2b" :> Seqr("Q", 1, <<"s1", "b1">>, 3, 11, 2)
ConflictTx == ConflictUniverse
ConflictTxs == DOMAIN ConflictUniverse

(* Alice offers a token, pays with it (twice more than she can), issues more of
   it, destroys it and tries to issue more again. *)
TokenUniverse ==
    MCGenesis @@
    "ipo"  :> Action("IPO", 1, <<"g">>, 1, 1, 0) @@
    "s1"   :> Seqr("P", 1, <<"ipo">>, 2, 2, 1) @@
    "t2"   :> Pay("A", 2, <<"s1">>, 3, 3, 1, 2, "B") @@
    "t3"   :> Pay("A", 3, <<"t2">>, 4, 4, 1, 1, "B") @@
    "spo3" :> Action("SPO", 3, <<"t2", "s1">>, 4, 5, 1) @@
    "d4"   :> Action("Destroy", 4, <<"spo3">>, 5, 6, 1) @@
    "spo5" :> Action("SPO", 5, <<"s2d">>, 7, 11, 1) @@
    "b1"   :> Pay("B", 1, <<"s1">>, 3, 7, 1, 1, "A") @@
    "s2"   :> Seqr("P", 2, <<"t2">>, 4, 8, 2) @@
    "s2d"  :> Seqr("Q", 1, <<"d4">>, 6, 9, 2) @@
    "s3"   :> Seqr("P", 3, <<"s2", "b1">>, 5, 10, 3)
TokenTx == TokenUniverse
TokenTxs == DOMAIN TokenUniverse

(* Alice destroys her token and goes on to issue more of it before the
   destruction is confirmed. *)
DestroyedUniverse ==
    MCGenesis @@
    "ipo"  :> Action("IPO", 1, <<"g">>, 1, 1, 0) @@
    "s1"   :> Seqr("P", 1, <<"ipo">>, 2, 2, 1) @@
    "d2"   :> Action("Destroy", 2, <<"s1">>, 3, 3, 1) @@
    "spo3" :> Action("SPO", 3, <<"d2">>, 4, 4, 1)
DestroyedTx == DestroyedUniverse
DestroyedTxs == DOMAIN DestroyedUniverse
=============================================================================
