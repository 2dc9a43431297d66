---------------------------- MODULE TxPoolProofs ----------------------------
(***************************************************************************)
(* Proofs about TxPool, for every transaction universe, account set,       *)
(* rejudge threshold and number of callers.                                *)
(***************************************************************************)
EXTENDS TxPool, SequenceTheorems, FiniteSetTheorems, TLAPS

-----------------------------------------------------------------------------
(* The order of the pool is a sequence without repetitions *)

\* Appending a new element, as txLookUp.add does, keeps a sequence free of
\* repetitions and adds that element to its range.
LEMMA AppendDistinct ==
    ASSUME NEW S, NEW s \in Seq(S), IsInjective(s), NEW e \in S, e \notin Range(s)
    PROVE  /\ Append(s, e) \in Seq(S)
           /\ IsInjective(Append(s, e))
           /\ Range(Append(s, e)) = Range(s) \cup {e}
<1> DEFINE r == Append(s, e)
<1>1. r \in Seq(S) /\ Len(r) = Len(s) + 1 /\ r[Len(s) + 1] = e
      /\ \A i \in 1 .. Len(s) : r[i] = s[i]
  OBVIOUS
<1>2. DOMAIN r = 1 .. Len(s) + 1 /\ DOMAIN s = 1 .. Len(s) /\ Len(s) \in Nat
  BY <1>1
<1> HIDE DEF r
<1>3. IsInjective(r)
  BY <1>1, <1>2 DEF IsInjective, Range
<1>4. Range(r) = Range(s) \cup {e}
  BY <1>1, <1>2 DEF Range
<1> QED  BY <1>1, <1>3, <1>4 DEF r

\* Dropping the first element, as solveConflicts' loop does.
LEMMA TailDistinct ==
    ASSUME NEW S, NEW s \in Seq(S), IsInjective(s), s # << >>
    PROVE  /\ Tail(s) \in Seq(S)
           /\ Head(s) \in S
           /\ Head(s) \in Range(s)
           /\ IsInjective(Tail(s))
           /\ Range(Tail(s)) = Range(s) \ {Head(s)}
<1> DEFINE r == Tail(s)
<1>1. /\ r \in Seq(S) /\ Len(s) \in Nat \ {0} /\ Len(r) = Len(s) - 1
      /\ Head(s) = s[1] /\ \A i \in 1 .. Len(r) : r[i] = s[i + 1]
  OBVIOUS
<1>2. DOMAIN r = 1 .. Len(s) - 1 /\ DOMAIN s = 1 .. Len(s)
  BY <1>1
<1> HIDE DEF r
<1>3. Head(s) \in S /\ Head(s) \in Range(s)
  BY <1>1, <1>2 DEF Range
<1>4. IsInjective(r)
  <2>1. SUFFICES ASSUME NEW i \in DOMAIN r, NEW j \in DOMAIN r, r[i] = r[j]
                 PROVE  i = j
    BY DEF IsInjective
  <2>2. /\ i \in Int /\ j \in Int
        /\ i + 1 \in DOMAIN s /\ j + 1 \in DOMAIN s
    BY <1>1, <1>2
  <2>3. s[i + 1] = s[j + 1]
    BY <2>1, <1>1, <1>2
  <2>4. i + 1 = j + 1
    BY <2>2, <2>3 DEF IsInjective
  <2> QED  BY <2>2, <2>4
<1>5. Range(r) = Range(s) \ {Head(s)}
  <2>1. ASSUME NEW x \in Range(r) PROVE x \in Range(s) \ {Head(s)}
    <3>1. PICK i \in 1 .. Len(s) - 1 : x = r[i]
      BY <1>2 DEF Range
    <3>2. x = s[i + 1] /\ i + 1 \in DOMAIN s /\ i + 1 # 1 /\ 1 \in DOMAIN s
      BY <3>1, <1>1, <1>2
    <3> QED  BY <3>2, <1>1 DEF Range, IsInjective
  <2>2. ASSUME NEW x \in Range(s), x # Head(s) PROVE x \in Range(r)
    <3>1. PICK i \in 1 .. Len(s) : x = s[i]
      BY <1>2 DEF Range
    <3>2. i - 1 \in 1 .. Len(s) - 1 /\ (i - 1) + 1 = i
      BY <3>1, <2>2, <1>1
    <3>3. x = r[i - 1]
      BY <3>1, <3>2, <1>1
    <3> QED  BY <3>2, <3>3, <1>2 DEF Range
  <2> QED  BY <2>1, <2>2
<1> QED  BY <1>1, <1>3, <1>4, <1>5 DEF r

\* Cutting out one element, as txLookUp.remove does.
LEMMA RemoveAtDistinct ==
    ASSUME NEW S, NEW s \in Seq(S), IsInjective(s), NEW k \in DOMAIN s
    PROVE  /\ RemoveAt(s, k) \in Seq(S)
           /\ IsInjective(RemoveAt(s, k))
           /\ Range(RemoveAt(s, k)) = Range(s) \ {s[k]}
<1> DEFINE n == Len(s)
           p == SubSeq(s, 1, k - 1)
           q == SubSeq(s, k + 1, n)
           r == p \o q
<1>1. n \in Nat /\ DOMAIN s = 1 .. n /\ k \in 1 .. n
  OBVIOUS
<1>2. /\ p \in Seq(S) /\ Len(p) = k - 1
      /\ \A i \in 1 .. k - 1 : p[i] = s[i]
  BY <1>1, SubSeqProperties
<1>3. /\ q \in Seq(S) /\ Len(q) = n - k
      /\ \A i \in 1 .. n - k : q[i] = s[k + i]
  BY <1>1, SubSeqProperties
<1>4. /\ r \in Seq(S) /\ Len(r) = n - 1
      /\ \A i \in 1 .. n - 1 : r[i] = IF i < k THEN s[i] ELSE s[i + 1]
  <2> HIDE DEF p, q
  <2>1. r \in Seq(S) /\ Len(r) = Len(p) + Len(q)
    BY <1>2, <1>3, ConcatProperties
  <2>2. ASSUME NEW i \in 1 .. n - 1 PROVE r[i] = IF i < k THEN s[i] ELSE s[i + 1]
    <3>1. r[i] = IF i <= Len(p) THEN p[i] ELSE q[i - Len(p)]
      BY <1>1, <1>2, <1>3, ConcatProperties
    <3> HIDE DEF r, n
    <3>2. CASE i < k
      BY <3>1, <3>2, <1>1, <1>2
    <3>3. CASE ~(i < k)
      <4>1. i - Len(p) \in 1 .. n - k /\ k + (i - Len(p)) = i + 1 /\ ~(i <= Len(p))
        BY <3>3, <1>1, <1>2
      <4>2. r[i] = q[i - Len(p)]
        BY <4>1, <3>1
      <4>3. q[i - Len(p)] = s[i + 1]
        BY <4>1, <1>3
      <4> QED  BY <4>2, <4>3, <3>3
    <3> QED  BY <3>2, <3>3
  <2> HIDE DEF r, n
  <2> QED  BY <2>1, <2>2, <1>1, <1>2, <1>3
<1> HIDE DEF n, p, q, r
<1>5. DOMAIN r = 1 .. n - 1
  BY <1>1, <1>4
<1>6. ASSUME NEW i \in 1 .. n - 1
      PROVE  \E j \in 1 .. n : /\ j # k
                               /\ j = IF i < k THEN i ELSE i + 1
                               /\ r[i] = s[j]
  BY <1>1, <1>4
<1>7. IsInjective(r)
  <2> SUFFICES ASSUME NEW i \in 1 .. n - 1, NEW j \in 1 .. n - 1, r[i] = r[j]
               PROVE  i = j
    BY <1>5 DEF IsInjective
  <2>1. PICK c \in 1 .. n : c = (IF i < k THEN i ELSE i + 1) /\ r[i] = s[c]
    BY <1>6
  <2>2. PICK d \in 1 .. n : d = (IF j < k THEN j ELSE j + 1) /\ r[j] = s[d]
    BY <1>6
  <2>3. c = d
    BY <2>1, <2>2, <1>1 DEF IsInjective
  <2> QED  BY <2>1, <2>2, <2>3, <1>1
<1>8. Range(r) = Range(s) \ {s[k]}
  <2>1. ASSUME NEW x \in Range(r) PROVE x \in Range(s) \ {s[k]}
    <3>1. PICK i \in 1 .. n - 1 : x = r[i]
      BY <1>5 DEF Range
    <3>2. PICK j \in 1 .. n : j # k /\ x = s[j]
      BY <1>6, <3>1
    <3>3. s[j] # s[k]
      BY <3>2, <1>1 DEF IsInjective
    <3> QED  BY <3>2, <3>3, <1>1 DEF Range
  <2>2. ASSUME NEW x \in Range(s), x # s[k] PROVE x \in Range(r)
    <3>1. PICK i \in 1 .. n : x = s[i]
      BY <1>1 DEF Range
    <3>2. CASE i < k
      BY <3>1, <3>2, <1>1, <1>4, <1>5 DEF Range
    <3>3. CASE i > k
      <4>1. i - 1 \in 1 .. n - 1 /\ ~(i - 1 < k) /\ (i - 1) + 1 = i
        BY <3>3, <1>1
      <4>2. x = r[i - 1]
        BY <4>1, <3>1, <1>4
      <4> QED  BY <4>1, <4>2, <1>5 DEF Range
    <3> QED  BY <2>2, <3>1, <3>2, <3>3, <1>1
  <2> QED  BY <2>1, <2>2
<1>9. RemoveAt(s, k) = r
  BY DEF RemoveAt, r, p, q, n
<1> QED  BY <1>4, <1>7, <1>8, <1>9

-----------------------------------------------------------------------------
(* The inductive invariant *)

PoolTypeOK ==
    /\ dag \subseteq Txs
    /\ latest \in Sequencers
    /\ nonces \in [Accounts -> Nat]
    /\ status \in [Txs -> Statuses]
    /\ order \in Seq(Txs)
    /\ tips \subseteq Txs
    /\ badtxs \subseteq Txs
    /\ pendings \subseteq Txs
    /\ flow \subseteq Txs
    /\ calls \in [Callers -> Txs \cup {NoTx}]
    /\ confirming \in Sequencers \cup {NoTx}
    /\ todo \in Seq(Txs)

\* The account nonce of the state database is no lower than any confirmed one.
NoncesCoverLedger ==
    \A t \in dag : ~IsArchive(t) => tx[t].nonce <= nonces[tx[t].sender]

\* What solveConflicts has still to judge is not in the pool yet, and the
\* sequencer it runs for is the latest one.
ConfirmState ==
    /\ confirming = NoTx => todo = << >>
    /\ confirming # NoTx => confirming = latest /\ Pool \cap Sequencers = {}
    /\ IsInjective(todo)
    /\ Range(todo) \cap Pool = {}

PoolInv ==
    /\ PoolPartition
    /\ GoodParents
    /\ OnlyLatestSequencer

\* Two confirmed transactions in one (sender, nonce) slot can only have come with
\* one batch, and so with one sequencer: verifyConfirmBatch compares a batch with
\* the ledger, not its transactions with each other (TxList.put).
SlotSharedInBatchOnly ==
    \A t, u \in dag :
        SameSlot(t, u) =>
            \/ t = u
            \/ \E h \in DOMAIN indexed, s \in Sequencers :
                 {t, u} \subseteq indexed[h] \cap Ancestors(s)

LedgerInv ==
    /\ indexed \in Seq(SUBSET Txs)
    /\ latest \in dag
    /\ LedgerAncestorClosed
    /\ SlotSharedInBatchOnly
    /\ NoncesCoverLedger

IInv ==
    /\ PoolTypeOK
    /\ LedgerInv
    /\ PoolInv
    /\ TipsNeverEmpty
    /\ ConfirmState

-----------------------------------------------------------------------------
(* Committing one transaction *)

\* The parents a transaction names are transactions (tx_types: ParentsHash).
LEMMA ParentsAreTxs ==
    ASSUME NEW t \in Txs
    PROVE  ParentSet(t) \subseteq Txs
<1>1. tx[t].parents \in Seq(Txs)
  BY TxAssumption DEF Contents
<1> QED  BY <1>1 DEF ParentSet

\* A transaction without blocking parents stands on good or confirmed ones.
LEMMA NoBlockingParents ==
    ASSUME NEW t \in Txs, PoolTypeOK, PoolPartition, BlockingParents(t) = {}
    PROVE  \A p \in ParentSet(t) : p \in dag \/ status[p] \in {"Tip", "Pending"}
<1> SUFFICES ASSUME NEW i \in DOMAIN tx[t].parents
             PROVE  LET p == tx[t].parents[i]
                    IN  p \in dag \/ status[p] \in {"Tip", "Pending"}
  BY DEF ParentSet
<1> DEFINE p == tx[t].parents[i]
<1>1. p \in Txs
  BY ParentsAreTxs DEF ParentSet
<1>2. status[p] # "BadTx" /\ IsLocalHash(p)
  BY DEF BlockingParents
<1>3. status[p] \in Statuses /\ status[p] # "Queue"
  BY <1>1 DEF PoolTypeOK, PoolPartition
<1> QED  BY <1>2, <1>3 DEF IsLocalHash, Has, Statuses

\* Only what has no blocking parent is judged good (isBadTx).
LEMMA GoodHasNoBlockingParents ==
    ASSUME NEW t \in Txs, Quality(t) = "Good"
    PROVE  BlockingParents(t) = {}
BY DEF Quality

\* commit of a transaction that is not in the pool keeps the pool's structures
\* in agreement; it takes at most the latest sequencer out of the pool.
LEMMA CommitKeepsPool ==
    ASSUME PoolTypeOK, PoolInv, LedgerInv,
           NEW t \in Txs, t \notin Pool, ~IsSequencer(t), NEW num, Commit(t, num),
           UNCHANGED <<dag, latest>>
    PROVE  /\ status' \in [Txs -> Statuses]
           /\ order' \in Seq(Txs)
           /\ tips' \subseteq Txs /\ badtxs' \subseteq Txs /\ pendings' \subseteq Txs
           /\ flow' \subseteq Txs
           /\ PoolInv'
           /\ Pool' \subseteq Pool \cup {t}
           /\ tips # {} => tips' # {}
<1> USE DEF PoolTypeOK, PoolInv
<1>0. Range(order) = Pool /\ IsInjective(order) /\ status[t] = "NotExist"
  BY DEF PoolPartition, Pool, Has
<1>1. CASE CommitFatal(t)
  BY <1>1 DEF CommitFatal, PoolPartition, GoodParents, OnlyLatestSequencer, Pool, Has
<1>2. CASE CommitBad(t, num)
  <2>1. /\ status' = [status EXCEPT ![t] = "BadTx"]
        /\ badtxs' = badtxs \cup {t}
        /\ order' = Append(order, t)
        /\ UNCHANGED <<tips, pendings, flow>>
    BY <1>2 DEF CommitBad
  <2>2. /\ status' \in [Txs -> Statuses] /\ badtxs' \subseteq Txs
        /\ status'[t] = "BadTx" /\ \A u \in Txs \ {t} : status'[u] = status[u]
    BY <2>1 DEF Statuses
  <2>3. Pool' = Pool \cup {t}
    BY <2>2 DEF Pool, Has
  <2>4. order' \in Seq(Txs) /\ IsInjective(order') /\ Range(order') = Pool'
    BY <2>1, <2>3, <1>0, AppendDistinct
  <2>5. PoolPartition'
    BY <2>1, <2>2, <2>4, <1>0 DEF PoolPartition
  <2>6. GoodParents'
    <3> SUFFICES ASSUME NEW u \in Txs, status'[u] \in {"Tip", "Pending"},
                        NEW p \in ParentSet(u)
                 PROVE  p \in dag' \/ status'[p] \in {"Tip", "Pending"}
      BY DEF GoodParents
    <3>1. u # t /\ status[u] \in {"Tip", "Pending"} /\ p \in Txs
      BY <2>2, ParentsAreTxs
    <3>2. p \in dag \/ status[p] \in {"Tip", "Pending"}
      BY <3>1 DEF GoodParents
    <3> QED  BY <3>1, <3>2, <2>2, <1>0
  <2>7. OnlyLatestSequencer'
    BY <2>3 DEF OnlyLatestSequencer, Sequencers
  <2> QED  BY <2>1, <2>2, <2>3, <2>4, <2>5, <2>6, <2>7
<1>3. CASE CommitGood(t, num)
  <2> DEFINE proved   == {p \in ParentSet(t) : status[p] = "Tip" /\ p \in tips}
             leaving  == {p \in proved : IsSequencer(p)}
             shadowed == proved \ leaving
  <2>1. /\ Quality(t) = "Good"
        /\ tips' = (tips \ proved) \cup {t}
        /\ pendings' = pendings \cup shadowed
        /\ status' = [u \in Txs |-> CASE u = t           -> "Tip"
                                      [] u \in leaving  -> "NotExist"
                                      [] u \in shadowed -> "Pending"
                                      [] OTHER          -> status[u]]
        /\ order' = Append(OrderWithout(leaving), t)
        /\ flow' \subseteq flow \cup {t}
        /\ badtxs' = badtxs
    BY <1>3 DEF CommitGood, FlowAdded
  <2>2. /\ proved \subseteq Txs /\ t \notin proved
        /\ \A p \in proved : status[p] = "Tip"
        /\ leaving \subseteq proved
        /\ leaving \subseteq {latest}
    BY <1>0, ParentsAreTxs DEF OnlyLatestSequencer, Sequencers, Pool, Has
  <2> HIDE DEF proved, leaving
  <2>3. /\ status' \in [Txs -> Statuses]
        /\ status'[t] = "Tip"
        /\ \A u \in leaving : status'[u] = "NotExist"
        /\ \A u \in shadowed : status'[u] = "Pending"
        /\ \A u \in Txs : u # t /\ u \notin proved => status'[u] = status[u]
    BY <2>1, <2>2 DEF Statuses
  <2>4. Pool' = (Pool \ leaving) \cup {t}
    BY <2>2, <2>3 DEF Pool, Has
  <2>5. /\ OrderWithout(leaving) \in Seq(Txs)
        /\ IsInjective(OrderWithout(leaving))
        /\ Range(OrderWithout(leaving)) = Pool \ leaving
    <3>1. CASE Range(order) \cap leaving = {}
      BY <3>1, <1>0 DEF OrderWithout
    <3>2. CASE Range(order) \cap leaving # {}
      <4> DEFINE k == CHOOSE i \in DOMAIN order : order[i] \in leaving
      <4>1. k \in DOMAIN order /\ order[k] \in leaving
        BY <3>2 DEF Range
      <4>2. OrderWithout(leaving) = RemoveAt(order, k)
        BY <3>2 DEF OrderWithout
      <4> HIDE DEF k
      <4>3. leaving = {order[k]}
        BY <4>1, <2>2
      <4> QED  BY <4>1, <4>2, <4>3, <1>0, RemoveAtDistinct
    <3> QED  BY <3>1, <3>2
  <2>6. order' \in Seq(Txs) /\ IsInjective(order') /\ Range(order') = Pool'
    BY <2>1, <2>4, <2>5, <1>0, AppendDistinct
  <2>7. PoolPartition'
    BY <2>1, <2>2, <2>3, <2>6, <1>0 DEF PoolPartition
  <2>8. GoodParents'
    <3>1. ASSUME NEW p \in Txs, p \in dag \/ status[p] \in {"Tip", "Pending"}
          PROVE  p \in dag' \/ status'[p] \in {"Tip", "Pending"}
      <4>1. CASE p \in leaving
        BY <4>1, <2>2 DEF LedgerInv
      <4>2. CASE p \in shadowed \/ p = t
        BY <4>2, <2>3
      <4>3. CASE p # t /\ p \notin proved
        BY <4>3, <3>1, <2>3
      <4> QED  BY <4>1, <4>2, <4>3
    <3>2. ASSUME NEW u \in Txs, status'[u] \in {"Tip", "Pending"}, NEW p \in ParentSet(u)
          PROVE  p \in dag \/ status[p] \in {"Tip", "Pending"}
      <4>1. CASE u = t
        BY <4>1, <2>1, GoodHasNoBlockingParents, NoBlockingParents
      <4>2. CASE u # t
        <5>1. status[u] \in {"Tip", "Pending"}
          BY <4>2, <3>2, <2>2, <2>3
        <5> QED  BY <5>1 DEF GoodParents
      <4> QED  BY <4>1, <4>2
    <3> QED  BY <3>1, <3>2, ParentsAreTxs DEF GoodParents
  <2>9. OnlyLatestSequencer'
    BY <2>4 DEF OnlyLatestSequencer, Sequencers
  <2> QED  BY <2>1, <2>2, <2>3, <2>4, <2>6, <2>7, <2>8, <2>9
<1> QED  BY <1>1, <1>2, <1>3 DEF Commit

-----------------------------------------------------------------------------
(* Pushing a batch *)

\* seekElders returns what it was started from as far as the pool has it, with
\* each transaction its parents as far as the pool has them, and only ancestors.
LEMMA EldersAreAncestors ==
    ASSUME NEW s \in Txs
    PROVE  LET elders == Elders(ParentSet(s))
           IN  /\ elders \subseteq Pool
               /\ elders \subseteq Ancestors(s)
               /\ ParentSet(s) \cap Pool \subseteq elders
               /\ \A u \in elders : ParentSet(u) \cap Pool \subseteq elders
<1> DEFINE elders == Elders(ParentSet(s))
           Walk(E) == /\ ParentSet(s) \cap Pool \subseteq E
                      /\ \A u \in E : ParentSet(u) \cap Pool \subseteq E
<1>1. elders = {t \in Pool : \A E \in {F \in SUBSET Pool : Walk(F)} : t \in E}
  BY DEF Elders
<1> HIDE DEF elders
<1>2. elders \subseteq Ancestors(s)
  <2> SUFFICES ASSUME NEW t \in elders, NEW C \in SUBSET Txs,
                      ParentSet(s) \subseteq C, AncestorClosed(C)
               PROVE  t \in C
    BY <1>1 DEF Ancestors, Pool
  <2>1. Walk(C \cap Pool)
    BY DEF AncestorClosed
  <2> QED  BY <2>1, <1>1
<1>3. ParentSet(s) \cap Pool \subseteq elders
  BY <1>1
<1>4. ASSUME NEW u \in elders PROVE ParentSet(u) \cap Pool \subseteq elders
  BY <1>1
<1> QED  BY <1>1, <1>2, <1>3, <1>4 DEF elders

\* ProcessTransaction never lowers an account nonce and raises it to the nonces
\* of the batch: what verifyNonce has seen has a highest one.
LEMMA HighestNonceBounds ==
    ASSUME PoolTypeOK, NEW elders \in SUBSET Txs, BatchVerified(elders),
           NEW s \in Sequencers, NEW a \in Accounts
    PROVE  LET batch == {t \in elders : ~IsSequencer(t)}
               h     == HighestNonce(a, batch \cup {s})
           IN  /\ h \in Nat
               /\ nonces[a] <= h
               /\ \A t \in batch \cup {s} :
                     (~IsArchive(t) /\ tx[t].sender = a) => tx[t].nonce <= h
               /\ \A t \in batch :
                     (~IsArchive(t) /\ tx[t].sender = a) => nonces[a] < tx[t].nonce
<1> DEFINE batch == {t \in elders : ~IsSequencer(t)}
           x == nonces[a]
           M == {tx[t].nonce : t \in SentBy(a, elders)}
           c == Cardinality(M)
           mine == {u \in batch \cup {s} : ~IsArchive(u) /\ tx[u].sender = a}
           N == {x} \cup {tx[t].nonce : t \in mine}
<1>1. x \in Nat
  BY DEF PoolTypeOK
<1>2. \A t \in Txs : tx[t].nonce \in Nat /\ tx[t].type \in TxTypes
  BY TxAssumption DEF Contents
<1>3. /\ SentBy(a, elders) = {t \in batch : ~IsArchive(t) /\ tx[t].sender = a}
      /\ SentBy(a, elders) \subseteq Txs
  BY DEF SentBy, IsSequencer, IsArchive
<1>4. s \in Txs /\ ~IsArchive(s)
  BY DEF Sequencers, IsSequencer, IsArchive
<1>5. N = {x} \cup M \cup (IF tx[s].sender = a THEN {tx[s].nonce} ELSE {})
  BY <1>3, <1>4
<1>6. c \in Nat
  <2>1. IsFiniteSet(SentBy(a, elders))
    BY <1>3, TxAssumption, FS_Subset
  <2>2. IsFiniteSet(M)
    <3> DEFINE f == [t \in SentBy(a, elders) |-> tx[t].nonce]
    <3>1. f \in Surjection(SentBy(a, elders), M)
      BY DEF Surjection
    <3> QED  BY <2>1, <3>1, FS_Surjection
  <2> QED  BY <2>2, FS_CardinalityType
<1>7. M # {} => M = x + 1 .. x + c
  BY DEF BatchVerified, NonceOrder
<1> HIDE DEF M, N, c, x
<1>8. \E m \in N : m \in Nat /\ \A n \in N : n <= m
  <2>1. PICK m \in {x} \cup M : m \in Nat /\ \A n \in {x} \cup M : n \in Nat /\ n <= m
    <3>1. CASE M = {}
      BY <3>1, <1>1
    <3>2. CASE M # {}
      <4>1. x + c \in M /\ x + c \in Nat
        BY <3>2, <1>1, <1>6, <1>7
      <4> QED  BY <4>1, <3>2, <1>1, <1>6, <1>7
    <3> QED  BY <3>1, <3>2
  <2>2. CASE tx[s].sender = a
    <3>1. tx[s].nonce \in Nat
      BY <1>2, <1>4
    <3>2. CASE tx[s].nonce <= m
      BY <3>2, <2>1, <2>2, <1>5
    <3>3. CASE ~(tx[s].nonce <= m)
      <4>1. \A n \in N : n <= tx[s].nonce
        BY <3>1, <3>3, <2>1, <2>2, <1>5
      <4> QED  BY <4>1, <3>1, <2>2, <1>5
    <3> QED  BY <3>2, <3>3
  <2>3. CASE tx[s].sender # a
    BY <2>1, <2>3, <1>5
  <2> QED  BY <2>2, <2>3
<1> DEFINE h == HighestNonce(a, batch \cup {s})
<1>9. h = CHOOSE m \in N : \A n \in N : n <= m
  BY DEF HighestNonce, N, x
<1>10. h \in N /\ \A n \in N : n <= h
  <2> HIDE DEF h
  <2> QED  BY <1>8, <1>9
<1>11. N \subseteq Nat
  <2>1. mine \subseteq Txs
    BY <1>4
  <2> QED  BY <2>1, <1>1, <1>2 DEF N
<1>12. x \in N /\ \A t \in mine : tx[t].nonce \in N
  BY DEF N
<1>13. ASSUME NEW t \in batch, ~IsArchive(t), tx[t].sender = a
       PROVE  x < tx[t].nonce
  <2>1. tx[t].nonce \in M
    BY <1>3, <1>13 DEF M
  <2> QED  BY <2>1, <1>1, <1>6, <1>7
<1> HIDE DEF h
<1> QED  BY <1>10, <1>11, <1>12, <1>13 DEF x, h

\* A push accepted by confirmHelper keeps the ledger ancestor-closed, takes no
\* slot that is confirmed already, and is exactly a step of LedgerSpec.
LEMMA PushKeepsLedger ==
    ASSUME IInv, NEW s \in Sequencers,
           NEW elders, elders = Elders(ParentSet(s)),
           NEW batch, batch = {t \in elders : ~IsSequencer(t)},
           BatchAccepted(s, elders), Push(s, batch)
    PROVE  /\ dag' \subseteq Txs /\ latest' = s /\ nonces' \in [Accounts -> Nat]
           /\ dag \subseteq dag' /\ batch \subseteq dag'
           /\ LedgerInv'
           /\ Ledger!Confirm(s)
<1>1. /\ dag' = dag \cup batch \cup {s}
      /\ latest' = s
      /\ nonces' = [a \in Accounts |-> HighestNonce(a, batch \cup {s})]
  BY DEF Push
<1>2. /\ s \in Txs /\ ~IsArchive(s) /\ dag \subseteq Txs /\ latest \in dag
      /\ Pool \subseteq Txs /\ Pool \cap Sequencers \subseteq {latest}
      /\ \A t \in Txs : tx[t].nonce \in Nat /\ tx[t].sender \in Accounts
  <2>1. s \in Txs /\ ~IsArchive(s)
    BY DEF Sequencers, IsSequencer, IsArchive
  <2>2. dag \subseteq Txs /\ latest \in dag
    BY DEF IInv, PoolTypeOK, LedgerInv
  <2>3. Pool \subseteq Txs /\ Pool \cap Sequencers \subseteq {latest}
    BY DEF IInv, PoolInv, OnlyLatestSequencer, Sequencers, Pool
  <2>4. ASSUME NEW t \in Txs PROVE tx[t].nonce \in Nat /\ tx[t].sender \in Accounts
    BY TxAssumption DEF Contents
  <2> QED  BY <2>1, <2>2, <2>3, <2>4
<1>3. /\ elders \subseteq Pool
      /\ elders \subseteq Ancestors(s)
      /\ ParentSet(s) \cap Pool \subseteq elders
      /\ \A u \in elders : ParentSet(u) \cap Pool \subseteq elders
  BY <1>2, EldersAreAncestors
<1>4. \A p \in ParentSet(s) \cup UNION {ParentSet(u) : u \in elders} : p \in Pool \/ p \in dag
  <2>1. EldersFound(ParentSet(s), elders)
    BY DEF BatchAccepted
  <2>2. \A p \in ParentSet(s) \cup UNION {ParentSet(u) : u \in elders} : p \in Txs
    BY <1>2, <1>3, ParentsAreTxs
  <2> QED  BY <2>1, <2>2 DEF EldersFound, IsLocalHash, Pool
<1>5. dag' = dag \cup elders \cup {s}
  BY <1>1, <1>2, <1>3 DEF Sequencers
<1>6. AncestorClosed(dag \cup elders) /\ ParentSet(s) \subseteq dag \cup elders
  <2>1. AncestorClosed(dag)
    BY DEF IInv, LedgerInv, LedgerAncestorClosed
  <2> QED  BY <2>1, <1>3, <1>4 DEF AncestorClosed
<1>7. LedgerAncestorClosed'
  BY <1>5, <1>6 DEF LedgerAncestorClosed, AncestorClosed
<1>8. s \notin dag /\ tx[s].height = tx[latest].height + 1
  BY <1>2 DEF BatchAccepted, IsBadSeq, HasTxByNonce, LatestHeight
<1>9. Ancestors(s) \subseteq dag \cup elders
  BY <1>2, <1>3, <1>6 DEF Ancestors
<1>10. Ledger!Confirm(s)
  <2>1. dag' = dag \cup Ancestors(s) \cup {s}
    BY <1>3, <1>5, <1>9
  <2>2. Ledger!Ancestors(s) = Ancestors(s)
    BY DEF Ledger!Ancestors, Ancestors, Ledger!AncestorClosed, AncestorClosed, Ledger!ParentSet, ParentSet
  <2> QED  BY <2>1, <2>2, <1>1, <1>8 DEF Ledger!Confirm
<1>11. batch \subseteq Txs /\ elders \in SUBSET Txs
  BY <1>2, <1>3
<1>12. PoolTypeOK /\ BatchVerified(elders)
  BY DEF IInv, BatchAccepted
<1>13. ASSUME NEW a \in Accounts
       PROVE  /\ nonces[a] \in Nat /\ nonces'[a] \in Nat
              /\ nonces[a] <= nonces'[a]
              /\ \A t \in batch \cup {s} :
                    (~IsArchive(t) /\ tx[t].sender = a) => tx[t].nonce <= nonces'[a]
              /\ \A t \in batch :
                    (~IsArchive(t) /\ tx[t].sender = a) => nonces[a] < tx[t].nonce
  <2>1. nonces'[a] = HighestNonce(a, batch \cup {s})
    BY <1>1
  <2>2. nonces[a] \in Nat
    BY <1>12 DEF PoolTypeOK
  <2> DEFINE h == HighestNonce(a, batch \cup {s})
  <2> HIDE DEF h
  <2>3. /\ h \in Nat /\ nonces[a] <= h
        /\ \A t \in batch \cup {s} :
              (~IsArchive(t) /\ tx[t].sender = a) => tx[t].nonce <= h
        /\ \A t \in batch :
              (~IsArchive(t) /\ tx[t].sender = a) => nonces[a] < tx[t].nonce
    BY <1>11, <1>12, HighestNonceBounds DEF h
  <2> QED  BY <2>1, <2>2, <2>3 DEF h
<1>14. nonces' \in [Accounts -> Nat]
  BY <1>1, <1>13
<1>15. \A t \in dag : ~IsArchive(t) => tx[t].nonce <= nonces[tx[t].sender]
  BY DEF IInv, LedgerInv, NoncesCoverLedger
<1>16. NoncesCoverLedger'
  <2> SUFFICES ASSUME NEW t \in dag', ~IsArchive(t)
               PROVE  tx[t].nonce <= nonces'[tx[t].sender]
    BY DEF NoncesCoverLedger
  <2>1. t \in Txs /\ tx[t].nonce \in Nat /\ tx[t].sender \in Accounts
    BY <1>1, <1>2, <1>11
  <2>2. CASE t \in dag
    <3>1. tx[t].nonce <= nonces[tx[t].sender]
      BY <1>15, <2>2
    <3> QED  BY <3>1, <2>1, <1>13
  <2>3. CASE t \in batch \cup {s}
    BY <2>1, <2>3, <1>13
  <2> QED  BY <2>2, <2>3, <1>1
<1>17. /\ indexed \in Seq(SUBSET Txs) /\ indexed' = Append(indexed, batch)
       /\ batch \in SUBSET Txs
  BY <1>11 DEF IInv, LedgerInv, Push
<1>18. /\ indexed' \in Seq(SUBSET Txs) /\ Len(indexed) + 1 \in DOMAIN indexed'
       /\ indexed'[Len(indexed) + 1] = batch
       /\ \A h \in DOMAIN indexed : h \in DOMAIN indexed' /\ indexed'[h] = indexed[h]
  BY <1>17
<1>19. SlotSharedInBatchOnly'
  <2> DEFINE Shared(t, u) == \E h \in DOMAIN indexed', r \in Sequencers :
                               {t, u} \subseteq indexed'[h] \cap Ancestors(r)
  <2>1. ASSUME NEW t \in batch, NEW u \in dag PROVE ~SameSlot(t, u)
    <3> SUFFICES ASSUME SameSlot(t, u) PROVE FALSE
      OBVIOUS
    <3> DEFINE a == tx[t].sender
    <3>1. /\ ~IsArchive(t) /\ ~IsArchive(u) /\ tx[u].sender = a /\ a \in Accounts
          /\ tx[t].nonce = tx[u].nonce /\ tx[u].nonce \in Nat
      BY <1>2, <1>11 DEF SameSlot
    <3> HIDE DEF a
    <3>2. nonces[a] \in Nat /\ nonces[a] < tx[t].nonce
      BY <3>1, <1>13 DEF a
    <3>3. tx[u].nonce <= nonces[a]
      BY <3>1, <1>15
    <3> QED  BY <3>1, <3>2, <3>3
  <2>2. ASSUME NEW t \in batch, NEW u \in batch PROVE Shared(t, u)
    <3>1. {t, u} \subseteq indexed'[Len(indexed) + 1] \cap Ancestors(s)
      BY <1>3, <1>18
    <3> QED  BY <3>1, <1>18
  <2>3. ASSUME NEW u \in dag PROVE ~SameSlot(s, u)
    BY <2>3 DEF BatchAccepted, IsBadSeq, HasTxByNonce, SameSlot
  <2>4. ASSUME NEW u \in batch PROVE ~SameSlot(s, u)
    BY <2>4 DEF BatchAccepted, SeqNonceFits, SameSlot
  <2>5. ASSUME NEW t \in dag, NEW u \in dag, SameSlot(t, u), t # u PROVE Shared(t, u)
    <3>1. PICK h \in DOMAIN indexed, r \in Sequencers :
                 {t, u} \subseteq indexed[h] \cap Ancestors(r)
      BY <2>5 DEF IInv, LedgerInv, SlotSharedInBatchOnly
    <3> QED  BY <3>1, <1>18
  <2>6. \A t, u : SameSlot(t, u) <=> SameSlot(u, t)
    BY DEF SameSlot
  <2> HIDE DEF Shared
  <2>7. ASSUME NEW t \in dag', NEW u \in dag', SameSlot(t, u), t # u PROVE Shared(t, u)
    BY <2>1, <2>2, <2>3, <2>4, <2>5, <2>6, <2>7, <1>1
  <2> QED  BY <2>7 DEF SlotSharedInBatchOnly, Shared
<1> QED
  BY <1>1, <1>2, <1>7, <1>10, <1>11, <1>14, <1>16, <1>18, <1>19 DEF LedgerInv

-----------------------------------------------------------------------------
(* The invariant and its steps *)

\* Dag.Init and TxPool.Init establish the invariant.
LEMMA InitInv == Init => IInv
<1> SUFFICES ASSUME Init PROVE IInv
  OBVIOUS
<1> USE DEF Init, DagInit
<1>1. Genesis \in Txs /\ Genesis \in Sequencers
  BY GenesisAssumption DEF Sequencers
<1>2. /\ order = <<Genesis>> /\ order \in Seq(Txs) /\ IsInjective(order)
      /\ Range(order) = {Genesis} /\ IsInjective(todo) /\ Range(todo) = {}
  BY <1>1 DEF IsInjective, Range
<1>3. ParentSet(Genesis) = {}
  BY GenesisAssumption DEF ParentSet
<1>4. status[Genesis] = "Tip" /\ \A t \in Txs : t # Genesis => status[t] = "NotExist"
  BY <1>1
<1>5. Pool = {Genesis}
  BY <1>1, <1>4 DEF Pool, Has
<1>6. PoolTypeOK
  BY <1>1, <1>2 DEF PoolTypeOK, Statuses
<1>7. LedgerInv
  <2>1. LedgerAncestorClosed /\ SlotSharedInBatchOnly
    BY <1>3 DEF LedgerAncestorClosed, AncestorClosed, SlotSharedInBatchOnly
  <2>2. NoncesCoverLedger
    <3>1. tx[Genesis].nonce = 0 /\ tx[Genesis].sender \in Accounts
      BY <1>1, GenesisAssumption, TxAssumption DEF IsSequencer, IsArchive, Contents
    <3> QED  BY <3>1 DEF NoncesCoverLedger
  <2> QED  BY <2>1, <2>2 DEF LedgerInv
<1>8. PoolInv
  <2>1. PoolPartition
    BY <1>1, <1>2, <1>4, <1>5 DEF PoolPartition
  <2>2. GoodParents
    BY <1>3, <1>4 DEF GoodParents
  <2>3. OnlyLatestSequencer
    BY <1>5 DEF OnlyLatestSequencer
  <2> QED  BY <2>1, <2>2, <2>3 DEF PoolInv
<1>9. TipsNeverEmpty /\ ConfirmState
  BY <1>2 DEF TipsNeverEmpty, ConfirmState
<1> QED  BY <1>6, <1>7, <1>8, <1>9 DEF IInv

\* The ledger's part of the invariant depends on the ledger only.
LEMMA LedgerUnchanged ==
    ASSUME LedgerInv, UNCHANGED <<dag, indexed, latest, nonces>>
    PROVE  LedgerInv'
BY DEF LedgerInv, LedgerAncestorClosed, AncestorClosed, SlotSharedInBatchOnly, NoncesCoverLedger

\* loop's step for a sequencer: either nothing changes or the batch is pushed
\* and the pool emptied for solveConflicts.
LEMMA ConfirmKeepsInv ==
    ASSUME IInv, NEW s \in Sequencers, s \notin Pool, confirming = NoTx, Confirm(s),
           calls' \in [Callers -> Txs \cup {NoTx}]
    PROVE  IInv' /\ (Ledger!Confirm(s) \/ UNCHANGED <<dag, latest>>)
<1> DEFINE elders == Elders(ParentSet(s))
           batch  == {t \in elders : ~IsSequencer(t)}
           accepted == BatchAccepted(s, elders) /\ PushSucceeds(s, batch)
<1> HIDE DEF elders
<1>0. NoTx \notin Txs
  BY PoolAssumption
<1>1. CASE accepted
  <2>1. /\ Push(s, batch)
        /\ PoolCleared
        /\ confirming' = s
        /\ todo' = order
    BY <1>1 DEF Confirm, elders
  <2>2. /\ dag' \subseteq Txs /\ latest' = s /\ nonces' \in [Accounts -> Nat]
        /\ LedgerInv' /\ Ledger!Confirm(s)
    <3> HIDE DEF batch
    <3> QED  BY <1>1, <2>1, PushKeepsLedger DEF elders, batch
  <2>3. /\ status' = [t \in Txs |-> "NotExist"]
        /\ order' = << >> /\ tips' = {} /\ badtxs' = {} /\ pendings' = {} /\ flow' = {}
    BY <2>1 DEF PoolCleared
  <2>4. /\ order' \in Seq(Txs) /\ IsInjective(order') /\ Range(order') = {}
    BY <2>3 DEF IsInjective, Range
  <2>5. Pool' = {}
    BY <2>3 DEF Pool, Has
  <2>6. order \in Seq(Txs) /\ IsInjective(order)
    BY DEF IInv, PoolInv, PoolPartition, PoolTypeOK
  <2>7. PoolTypeOK'
    BY <2>1, <2>2, <2>3, <2>4, <2>6 DEF PoolTypeOK, Statuses
  <2>8. PoolInv'
    BY <2>3, <2>4, <2>5 DEF PoolInv, PoolPartition, GoodParents, OnlyLatestSequencer
  <2>9. s # NoTx
    BY <1>0 DEF Sequencers
  <2>10. TipsNeverEmpty' /\ ConfirmState'
    BY <2>1, <2>2, <2>5, <2>6, <2>9 DEF TipsNeverEmpty, ConfirmState
  <2> QED  BY <2>2, <2>7, <2>8, <2>10 DEF IInv
<1>2. CASE ~accepted
  <2>1. UNCHANGED <<ledgerVars, poolVars, confirming, todo>>
    BY <1>2 DEF Confirm, elders
  <2>2. UNCHANGED <<dag, indexed, latest, nonces, status, order, tips, badtxs, pendings, flow,
                    confirming, todo>>
    BY <2>1 DEF ledgerVars, poolVars
  <2>3. LedgerInv'
    BY <2>2, LedgerUnchanged DEF IInv
  <2>4. PoolTypeOK'
    BY <2>2 DEF IInv, PoolTypeOK
  <2>5. PoolInv' /\ TipsNeverEmpty' /\ ConfirmState'
    BY <2>2 DEF IInv, PoolInv, PoolPartition, GoodParents, OnlyLatestSequencer,
                TipsNeverEmpty, ConfirmState, Pool, Has
  <2> QED  BY <2>2, <2>3, <2>4, <2>5 DEF IInv
<1> QED  BY <1>1, <1>2

\* One turn of solveConflicts' loop.
LEMMA RejudgeKeepsInv == IInv /\ Rejudge => IInv'
<1> SUFFICES ASSUME IInv, Rejudge PROVE IInv'
  OBVIOUS
<1> DEFINE t == Head(todo)
<1>1. /\ todo # << >> /\ todo \in Seq(Txs) /\ IsInjective(todo)
      /\ Range(todo) \cap Pool = {} /\ confirming # NoTx /\ confirming = latest
      /\ Pool \cap Sequencers = {}
  BY DEF Rejudge, IInv, ConfirmState, PoolTypeOK
<1>2. /\ todo' = Tail(todo)
      /\ UNCHANGED <<dag, indexed, latest, nonces, calls, confirming>>
  BY DEF Rejudge, ledgerVars
<1>3. /\ t \in Txs /\ t \notin Pool
      /\ todo' \in Seq(Txs) /\ IsInjective(todo') /\ Range(todo') = Range(todo) \ {t}
  BY <1>1, <1>2, TailDistinct
<1>4. LedgerInv' /\ TipsNeverEmpty'
  BY <1>1, <1>2, LedgerUnchanged DEF IInv, TipsNeverEmpty
<1>5. CASE UNCHANGED <<status, order, tips, badtxs, pendings, flow>>
  <2>1. PoolTypeOK'
    BY <1>2, <1>3, <1>5 DEF IInv, PoolTypeOK
  <2>2. Pool' = Pool
    BY <1>5 DEF Pool, Has
  <2>3. PoolInv'
    BY <1>2, <1>5, <2>2 DEF IInv, PoolInv, PoolPartition, GoodParents, OnlyLatestSequencer
  <2>4. ConfirmState'
    BY <1>1, <1>2, <1>3, <2>2 DEF ConfirmState
  <2> QED  BY <1>4, <2>1, <2>3, <2>4 DEF IInv
<1>6. ASSUME ~IsSequencer(t), Commit(t, judgeNum[t] + 1) PROVE IInv'
  <2> DEFINE num == judgeNum[t] + 1
  <2> HIDE DEF t, num
  <2>1. /\ status' \in [Txs -> Statuses]
        /\ order' \in Seq(Txs)
        /\ tips' \subseteq Txs /\ badtxs' \subseteq Txs /\ pendings' \subseteq Txs
        /\ flow' \subseteq Txs
        /\ PoolInv'
        /\ Pool' \subseteq Pool \cup {t}
    BY <1>2, <1>3, <1>6, CommitKeepsPool DEF IInv, num
  <2>2. PoolTypeOK'
    BY <1>2, <1>3, <2>1 DEF IInv, PoolTypeOK
  <2>3. ConfirmState'
    BY <1>1, <1>2, <1>3, <1>6, <2>1 DEF ConfirmState, Sequencers
  <2> QED  BY <1>4, <2>1, <2>2, <2>3 DEF IInv
<1> QED  BY <1>5, <1>6 DEF Rejudge, poolVars

\* The end of confirm: the sequencer becomes a tip.
LEMMA FinishConfirmKeepsInv == IInv /\ FinishConfirm => IInv'
<1> SUFFICES ASSUME IInv, FinishConfirm PROVE IInv'
  OBVIOUS
<1>1. /\ confirming = latest /\ latest \in Txs /\ latest \in Sequencers /\ latest \in dag
      /\ confirming # NoTx /\ todo = << >>
      /\ latest \notin Pool /\ Pool \cap Sequencers = {}
      /\ order \in Seq(Txs) /\ IsInjective(order) /\ Range(order) = Pool
  BY DEF FinishConfirm, IInv, ConfirmState, PoolTypeOK, LedgerInv, Sequencers,
         PoolInv, PoolPartition
<1>2. /\ status' = [status EXCEPT ![latest] = "Tip"]
      /\ order' = Append(order, latest)
      /\ tips' = tips \cup {latest}
      /\ flow' \subseteq flow \cup {latest}
      /\ confirming' = NoTx
      /\ UNCHANGED <<dag, indexed, latest, nonces, badtxs, pendings, calls, todo>>
  BY <1>1 DEF FinishConfirm, ledgerVars
<1>3. /\ status \in [Txs -> Statuses] /\ status' \in [Txs -> Statuses]
      /\ status[latest] = "NotExist" /\ status'[latest] = "Tip"
      /\ \A u \in Txs \ {latest} : status'[u] = status[u]
  BY <1>1, <1>2 DEF IInv, PoolTypeOK, Statuses, Pool, Has
<1>4. Pool' = Pool \cup {latest}
  BY <1>1, <1>3 DEF Pool, Has
<1>5. order' \in Seq(Txs) /\ IsInjective(order') /\ Range(order') = Pool'
  BY <1>1, <1>2, <1>4, AppendDistinct
<1>6. PoolTypeOK'
  BY <1>1, <1>2, <1>3, <1>5 DEF IInv, PoolTypeOK
<1>7. LedgerInv'
  BY <1>2, LedgerUnchanged DEF IInv
<1>8. PoolPartition'
  BY <1>1, <1>2, <1>3, <1>5 DEF IInv, PoolInv, PoolPartition
<1>9. GoodParents'
  <2> SUFFICES ASSUME NEW u \in Txs, status'[u] \in {"Tip", "Pending"},
                      NEW p \in ParentSet(u)
               PROVE  p \in dag' \/ status'[p] \in {"Tip", "Pending"}
    BY DEF GoodParents
  <2>1. p \in Txs
    BY ParentsAreTxs
  <2>2. CASE u = latest
    BY <2>2, <1>1, <1>2 DEF IInv, LedgerInv, LedgerAncestorClosed, AncestorClosed
  <2>3. CASE u # latest
    <3>1. p \in dag \/ status[p] \in {"Tip", "Pending"}
      BY <2>3, <1>3 DEF IInv, PoolInv, GoodParents
    <3> QED  BY <3>1, <2>1, <1>2, <1>3
  <2> QED  BY <2>2, <2>3
<1>10. OnlyLatestSequencer'
  BY <1>1, <1>2, <1>4 DEF OnlyLatestSequencer
<1>11. TipsNeverEmpty'
  BY <1>2 DEF TipsNeverEmpty
<1>12. ConfirmState'
  BY <1>1, <1>2 DEF ConfirmState, IsInjective, Range
<1> QED  BY <1>6, <1>7, <1>8, <1>9, <1>10, <1>11, <1>12 DEF IInv, PoolInv

\* NewDag and TxPool.Init on the stored ledger.
LEMMA RestartKeepsInv == IInv /\ Restart => IInv'
<1> SUFFICES ASSUME IInv, Restart PROVE IInv'
  OBVIOUS
<1>1. latest \in Txs /\ latest \in Sequencers /\ latest \in dag
  BY DEF IInv, PoolTypeOK, LedgerInv, Sequencers
<1>2. /\ status' = [t \in Txs |-> IF t = latest THEN "Tip" ELSE "NotExist"]
      /\ order' = <<latest>> /\ tips' = {latest} /\ badtxs' = {} /\ pendings' = {}
      /\ flow' = {} /\ calls' = [c \in Callers |-> NoTx]
      /\ confirming' = NoTx /\ todo' = << >>
      /\ UNCHANGED <<dag, indexed, latest, nonces>>
  BY DEF Restart, DagRestart
<1>3. /\ order' \in Seq(Txs) /\ IsInjective(order') /\ Range(order') = {latest}
      /\ IsInjective(todo') /\ Range(todo') = {}
  BY <1>1, <1>2 DEF IsInjective, Range
<1>4. status'[latest] = "Tip" /\ \A t \in Txs : t # latest => status'[t] = "NotExist"
  BY <1>1, <1>2
<1>5. Pool' = {latest}
  BY <1>1, <1>4 DEF Pool, Has
<1>6. PoolTypeOK'
  BY <1>1, <1>2, <1>3 DEF IInv, PoolTypeOK, Statuses
<1>7. LedgerInv'
  BY <1>2, LedgerUnchanged DEF IInv
<1>8. PoolInv'
  <2>1. PoolPartition'
    BY <1>1, <1>2, <1>3, <1>4, <1>5 DEF PoolPartition
  <2>2. GoodParents'
    BY <1>1, <1>2, <1>4 DEF GoodParents, IInv, LedgerInv, LedgerAncestorClosed, AncestorClosed
  <2>3. OnlyLatestSequencer'
    BY <1>2, <1>5 DEF OnlyLatestSequencer
  <2> QED  BY <2>1, <2>2, <2>3 DEF PoolInv
<1>9. TipsNeverEmpty' /\ ConfirmState'
  BY <1>2, <1>3 DEF TipsNeverEmpty, ConfirmState
<1> QED  BY <1>6, <1>7, <1>8, <1>9 DEF IInv

\* loop answers one caller.
LEMMA LoopStepKeepsInv ==
    ASSUME IInv, NEW c \in Callers, LoopStep(c)
    PROVE  IInv' /\ ((\E s \in Sequencers : Ledger!Confirm(s)) \/ UNCHANGED <<dag, latest>>)
<1> DEFINE t == calls[c]
<1>1. /\ confirming = NoTx /\ t # NoTx /\ t \in Txs
      /\ calls' \in [Callers -> Txs \cup {NoTx}]
      /\ todo = << >> /\ tips # {}
  BY DEF LoopStep, IInv, PoolTypeOK, ConfirmState, TipsNeverEmpty
<1>2. CASE UNCHANGED <<ledgerVars, poolVars, confirming, todo>>
  <2>1. UNCHANGED <<dag, indexed, latest, nonces, status, order, tips, badtxs, pendings, flow,
                    confirming, todo>>
    BY <1>2 DEF ledgerVars, poolVars
  <2>2. LedgerInv'
    BY <2>1, LedgerUnchanged DEF IInv
  <2>3. PoolTypeOK'
    BY <1>1, <2>1 DEF IInv, PoolTypeOK
  <2>4. PoolInv' /\ TipsNeverEmpty' /\ ConfirmState'
    BY <2>1 DEF IInv, PoolInv, PoolPartition, GoodParents, OnlyLatestSequencer,
                TipsNeverEmpty, ConfirmState, Pool, Has
  <2> QED  BY <2>1, <2>2, <2>3, <2>4 DEF IInv
<1>3. CASE ~Has(t) /\ IsSequencer(t) /\ Confirm(t)
  <2>1. t \in Sequencers /\ t \notin Pool
    BY <1>1, <1>3 DEF Sequencers, Pool
  <2> HIDE DEF t
  <2> QED  BY <2>1, <1>1, <1>3, ConfirmKeepsInv
<1>4. CASE /\ ~Has(t)
           /\ ~IsSequencer(t)
           /\ Commit(t, 1)
           /\ UNCHANGED <<ledgerVars, confirming, todo>>
  <2>1. t \notin Pool /\ UNCHANGED <<dag, indexed, latest, nonces, confirming, todo>>
    BY <1>4 DEF Pool, ledgerVars
  <2> HIDE DEF t
  <2>2. /\ status' \in [Txs -> Statuses]
        /\ order' \in Seq(Txs)
        /\ tips' \subseteq Txs /\ badtxs' \subseteq Txs /\ pendings' \subseteq Txs
        /\ flow' \subseteq Txs
        /\ PoolInv'
        /\ tips' # {}
    BY <1>1, <1>4, <2>1, CommitKeepsPool DEF IInv
  <2>3. LedgerInv'
    BY <2>1, LedgerUnchanged DEF IInv
  <2>4. PoolTypeOK'
    BY <1>1, <2>1, <2>2 DEF IInv, PoolTypeOK
  <2>5. TipsNeverEmpty' /\ ConfirmState'
    BY <1>1, <2>1, <2>2 DEF TipsNeverEmpty, ConfirmState, IsInjective, Range
  <2> QED  BY <2>1, <2>2, <2>3, <2>4, <2>5 DEF IInv
<1> QED  BY <1>2, <1>3, <1>4 DEF LoopStep

\* Every step keeps the invariant and is a step of LedgerSpec or leaves the
\* ledger alone.
LEMMA NextInv ==
    IInv /\ [Next]_vars =>
        IInv' /\ ((\E s \in Sequencers : Ledger!Confirm(s)) \/ UNCHANGED <<dag, latest>>)
<1> SUFFICES ASSUME IInv, [Next]_vars
             PROVE  IInv' /\ ((\E s \in Sequencers : Ledger!Confirm(s))
                                \/ UNCHANGED <<dag, latest>>)
  OBVIOUS
<1>1. ASSUME UNCHANGED <<dag, indexed, latest, nonces, status, order, tips, badtxs, pendings,
                         flow, confirming, todo>>,
             calls' \in [Callers -> Txs \cup {NoTx}]
      PROVE  IInv'
  <2>1. LedgerInv'
    BY <1>1, LedgerUnchanged DEF IInv
  <2>2. PoolTypeOK'
    BY <1>1 DEF IInv, PoolTypeOK
  <2>3. PoolInv' /\ TipsNeverEmpty' /\ ConfirmState'
    BY <1>1 DEF IInv, PoolInv, PoolPartition, GoodParents, OnlyLatestSequencer,
                TipsNeverEmpty, ConfirmState, Pool, Has
  <2> QED  BY <2>1, <2>2, <2>3 DEF IInv
<1>2. ASSUME NEW c \in Callers, NEW t \in Txs, AddTx(c, t)
      PROVE  IInv' /\ UNCHANGED <<dag, latest>>
  <2>1. /\ UNCHANGED <<dag, indexed, latest, nonces, status, order, tips, badtxs, pendings,
                       flow, confirming, todo>>
        /\ calls' \in [Callers -> Txs \cup {NoTx}]
    BY <1>2 DEF AddTx, ledgerVars, poolVars, IInv, PoolTypeOK
  <2> QED  BY <2>1, <1>1
<1>3. CASE Rejudge
  <2>1. UNCHANGED <<dag, latest>>
    BY <1>3 DEF Rejudge, ledgerVars
  <2> QED  BY <2>1, <1>3, RejudgeKeepsInv
<1>4. CASE FinishConfirm
  <2>1. UNCHANGED <<dag, latest>>
    BY <1>4 DEF FinishConfirm, ledgerVars
  <2> QED  BY <2>1, <1>4, FinishConfirmKeepsInv
<1>5. CASE Restart
  <2>1. UNCHANGED <<dag, latest>>
    BY <1>5 DEF Restart, DagRestart
  <2> QED  BY <2>1, <1>5, RestartKeepsInv
<1>6. CASE UNCHANGED vars
  <2>1. /\ UNCHANGED <<dag, indexed, latest, nonces, status, order, tips, badtxs, pendings,
                       flow, confirming, todo>>
        /\ calls' \in [Callers -> Txs \cup {NoTx}]
    BY <1>6 DEF vars, ledgerVars, poolVars, IInv, PoolTypeOK
  <2> QED  BY <2>1, <1>1
<1> QED  BY <1>2, <1>3, <1>4, <1>5, <1>6, LoopStepKeepsInv DEF Next, Running

\* The inductive invariant holds in every reachable state, crashes included.
THEOREM Invariance == Spec => []IInv
<1>1. IInv /\ [Next]_vars => IInv'
  BY NextInv
<1> QED  BY InitInv, <1>1, PTL DEF Spec

\* The ledger is ancestor-closed, and batches of different sequencers never share
\* a (sender, nonce) slot, for any universe of transactions, any interleaving of
\* callers, and restarts between any two steps (Dag.push, TxPool.confirm).
THEOREM LedgerSafety == Spec => [](LedgerAncestorClosed /\ SlotSharedInBatchOnly)
<1>1. IInv => LedgerAncestorClosed /\ SlotSharedInBatchOnly
  BY DEF IInv, LedgerInv
<1> QED  BY Invariance, <1>1, PTL

\* The ledger confirms no (sender, nonce) slot twice, provided that no sequencer has
\* two ancestors in one slot (HonestSequencerAssumption): verifyConfirmBatch leaves
\* that to the node that built the sequencer.
THEOREM LedgerNonces == Spec => []LedgerNoncesUnique
<1>1. IInv => LedgerNoncesUnique
  BY HonestSequencerAssumption DEF IInv, LedgerInv, SlotSharedInBatchOnly, LedgerNoncesUnique
<1> QED  BY Invariance, <1>1, PTL

\* The structures of the pool agree, it offers only transactions that stand on
\* good or confirmed parents, holds no sequencer but the latest, and always has a
\* tip (TxPool.commit, confirm, solveConflicts, Init).
THEOREM PoolSafety ==
    Spec => [](PoolPartition /\ GoodParents /\ OnlyLatestSequencer /\ TipsNeverEmpty)
<1>1. IInv => PoolPartition /\ GoodParents /\ OnlyLatestSequencer /\ TipsNeverEmpty
  BY DEF IInv, PoolInv
<1> QED  BY Invariance, <1>1, PTL

\* Pool and Dag implement LedgerSpec: a confirmation brings in exactly the
\* ancestors of its sequencer, one height at a time.
THEOREM LedgerRefinement == Spec => ImplementsLedger
<1>1. Init => Ledger!Init
  BY DEF Init, DagInit, Ledger!Init
<1>2. IInv /\ [Next]_vars => [Ledger!Next]_<<dag, latest>>
  <2>1. Ledger!Sequencers = Sequencers
    BY DEF Ledger!Sequencers, Sequencers, Ledger!IsSequencer, IsSequencer
  <2> QED  BY <2>1, NextInv DEF Ledger!Next
<1> QED  BY Invariance, <1>1, <1>2, PTL DEF Spec, ImplementsLedger, Ledger!Spec
=============================================================================
