----------------------------- MODULE MCTxBuffer -----------------------------
(***************************************************************************)
(* Small graphs for TxBuffer.  "g" is local from the start.                *)
(***************************************************************************)
EXTENDS TxBuffer, TLC

One(t) == [batch |-> FALSE, txs |-> {t}]
Batch(ts) == [batch |-> TRUE, txs |-> ts]

(* A diamond g <- a, b <- c with a further d on a and c: c and d come first,
   their parents are fetched or come late in a batch; v has an invalid format. *)
DiamondTx == {"g", "a", "b", "c", "d", "v"}
DiamondParents ==
  "g" :> {} @@ "a" :> {"g"} @@ "b" :> {"g"} @@ "c" :> {"a", "b"} @@
  "d" :> {"a", "c"} @@ "v" :> {"c"}
DiamondWeight == "g" :> 0 @@ "a" :> 1 @@ "b" :> 1 @@ "c" :> 2 @@ "d" :> 3 @@ "v" :> 3
DiamondArrivals == 
  {One("d"), One("c"), One("v"), Batch({"b", "d"}), Batch({"a", "c"})}

(* Transactions that are refused: f by the pool, i by the graph verifier; h is a
   child of f, the proposal s one of c. *)
RefusedTx == {"g", "a", "b", "c", "f", "h", "i", "s"}
RefusedParents ==
  "g" :> {} @@ "a" :> {"g"} @@ "b" :> {"g"} @@ "c" :> {"a", "b"} @@ "f" :> {"g"} @@
  "h" :> {"f"} @@ "i" :> {"b"} @@ "s" :> {"c"}
RefusedWeight ==
  "g" :> 0 @@ "a" :> 1 @@ "b" :> 1 @@ "c" :> 2 @@ "f" :> 1 @@ "h" :> 2 @@ "i" :> 2 @@
  "s" :> 3
RefusedArrivals == {One("s"), One("i"), Batch({"c", "h"})}

(* A transaction c with two missing parents. *)
ForkTx == {"g", "a", "b", "c"}
ForkParents == "g" :> {} @@ "a" :> {"g"} @@ "b" :> {"g"} @@ "c" :> {"a", "b"}
ForkWeight == "g" :> 0 @@ "a" :> 1 @@ "b" :> 1 @@ "c" :> 2
ForkArrivals == {One("c"), Batch({"c"})}

(* A batch with a transaction of an invalid format. *)
BatchArrivals == {Batch({"a", "b"})}
=============================================================================
